----------------------------- MODULE MCRecovery -----------------------------
(* Instances of Recovery for TLC.                                          *)
EXTENDS Recovery

OneEvent == {"e1"}
TwoEvents == {"e1", "e2"}
\* k1 is held out.
TwoAndControl == {"e1", "e2", "k1"}
OneCustomer == {"c1"}
SameCustomer == [e \in Events |-> "c1"]
TwoCustomers == {"c1", "c2"}
TheirOwn == [e \in Events |-> IF e = "e1" THEN "c1" ELSE "c2"]

HighValueFirst == [e \in Events |-> IF e \in HighValue THEN 2 ELSE 1]

OrdinaryCause == [e \in Events |-> "OTHER"]

OneMessage == {<<"WHATSAPP">>}
RetryThenMessage == {<<"RETRY_PAYMENT", "WHATSAPP">>}
OneLink == {<<"PAYMENT_LINK">>}

Clear == [cooldown |-> FALSE, quiet |-> FALSE, peak |-> FALSE,
          degraded |-> FALSE]
ClearOnly == {Clear}
\* A moment when nothing blocks, and one inside the peak window and the
\* quiet hours.
ClearAndClosed == {Clear, [Clear EXCEPT !.peak = TRUE, !.quiet = TRUE]}

=============================================================================
