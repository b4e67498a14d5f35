---------------------------- MODULE MCMandate ----------------------------
(* An instance of Mandate for TLC: two events charged to one mandate that  *)
(* has one attempt left before the limit of the run.                       *)
EXTENDS Mandate

TwoEvents == {"e1", "e2"}
Causes == [e \in Events |-> "OTHER"]
Amounts == [e \in Events |-> IF e = "e1" THEN 80000 ELSE 120000]

SomePlans == {<<"RETRY_PAYMENT", "WHATSAPP">>,
              <<"SEND_PDN", "RETRY_PAYMENT">>,
              <<"DISCOUNT">>}

\* No control event of the kind has ended, so that all kinds are asked.
Cohorts == {[hits |-> 0, total |-> 0, overall_hits |-> 20,
             overall_total |-> 100]}

Ages == {80, 100}
=============================================================================
