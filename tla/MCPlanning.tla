----------------------------- MODULE MCPlanning -----------------------------
(* An instance of Planning for TLC: the events a merchant may see.         *)
EXTENDS Planning

Declined ==
    [kind |-> "PAYMENT_FAILURE", failure_code |-> "ISSUER_DECLINED",
     amount |-> 12000, ltv |-> 40000, ratio |-> 150, shape |-> 92,
     success |-> 95, recovery |-> 40, payments |-> 9, retry_count |-> 0,
     prior_contacts |-> 0, opted_out |-> FALSE, duration |-> 0,
     cart_items |-> 0, days_overdue |-> 0, npci |-> 0, pdn |-> "NONE"]

\* A timeout that an opted-out customer has retried once already.
TimedOut == [Declined EXCEPT !.failure_code = "GATEWAY_TIMEOUT",
                !.amount = 4000, !.retry_count = 1, !.opted_out = TRUE]

Renewal == [Declined EXCEPT !.kind = "SUBSCRIPTION_FAILURE",
               !.failure_code = "MANDATE_NOT_FOUND", !.amount = 9999,
               !.npci = 2, !.pdn = "RECENT"]

Reached == [Renewal EXCEPT !.failure_code = "AFA_REQUIRED",
               !.prior_contacts = 2, !.pdn = "SERVED"]

Unannounced == [Renewal EXCEPT !.failure_code = "PDN_NOT_DELIVERED",
                   !.amount = 4999, !.pdn = "NONE"]

CapReached == [Renewal EXCEPT !.failure_code = "MANDATE_AMOUNT_EXCEEDS",
                  !.amount = 1999, !.npci = 0, !.pdn = "NONE"]

Cart == [Declined EXCEPT !.kind = "CART_ABANDONMENT",
            !.failure_code = "PRICE_HESITATION", !.amount = 3000,
            !.ratio = 300, !.shape = 89, !.success = 50, !.payments = 1,
            !.prior_contacts = 1, !.duration = 60, !.cart_items = 1]

Dust == [Cart EXCEPT !.amount = 150]

Invoice == [Declined EXCEPT !.kind = "OVERDUE_INVOICE",
               !.failure_code = "PROMISE_BROKEN", !.amount = 60000,
               !.ltv = 20000, !.ratio = 900, !.shape = 82,
               !.days_overdue = 20, !.prior_contacts = 1]

Written == {Declined, TimedOut, Renewal, Reached, Unannounced, CapReached,
            Cart, Dust, Invoice}

\* Each of them also with a customer who pays badly and is worth little.
AllProfiles ==
    Written \cup {[f EXCEPT !.success = 30, !.ltv = 2000] : f \in Written}

Healthy == [route |-> 0, method |-> 0]
SomeSignals == {Healthy, [route |-> 300, method |-> 0],
                [route |-> 0, method |-> 250]}

SomeClocks == [quiet: BOOLEAN, peak: BOOLEAN]

\* Nothing learned yet, a merchant whose retries did well, and one for whom
\* nothing else did.
SomeRates ==
    {<<>>, "RETRY_PAYMENT" :> 9000 @@ "WHATSAPP" :> 200,
     "RETRY_PAYMENT" :> 9500 @@
       [a \in {"WHATSAPP", "SMS", "EMAIL", "VOICE", "HUMAN_ESCALATION"} |-> 200]}
=============================================================================
