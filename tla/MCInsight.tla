----------------------------- MODULE MCInsight -----------------------------
(* An instance of Insight for TLC: two sessions and one route.             *)
EXTENDS Insight, TLC

CONSTANTS s1, s2, c1, upi

TwoSessions == {s1, s2}

Calm   == [attempts |-> 200, failures |-> 8, base_attempts |-> 1000,
           base_failures |-> 50]
Outage == [Calm EXCEPT !.failures = 40]
Sparse == [Outage EXCEPT !.attempts = 50, !.failures = 20]
SomeTraffic == {Calm, Outage, Sparse}

Past == {[c \in Cells |-> [successes |-> 1, failures |-> 1]]}

SessionsAreAlike == Permutations(TwoSessions)
=============================================================================
