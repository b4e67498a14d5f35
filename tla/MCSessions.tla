---------------------------- MODULE MCSessions ----------------------------
(* An instance of Sessions for TLC: two sessions, and two events of the    *)
(* customer.                                                               *)
EXTENDS Sessions, TLC

MessageThenLink == <<"MESSAGE", "LINK">>

\* Nothing tells the sessions apart.
Symmetry == Permutations(Sessions)
=============================================================================
