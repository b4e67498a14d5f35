------------------------------ MODULE Catalog ------------------------------
(***************************************************************************)
(* The domain knowledge the planning agents read: the vocabularies of      *)
(* core/constants.py, the tables of data/catalog.py and the rules of       *)
(* engines/mandate.py that depend on a root cause only.  Money is in       *)
(* paise, probabilities and multipliers are in percent.                    *)
(***************************************************************************)
EXTENDS PolicyGate

\* Tables.  A key on the left is looked up first.  The operators are those of
\* the module TLC, written out for the prover, which has no definition of them.
key :> value == [k \in {key} |-> value]
f @@ g == [k \in (DOMAIN f) \cup (DOMAIN g) |->
              IF k \in DOMAIN f THEN f[k] ELSE g[k]]

EventKind == {"PAYMENT_FAILURE", "CART_ABANDONMENT", "SUBSCRIPTION_FAILURE",
              "OVERDUE_INVOICE"}

FailureCode ==
    {"INSUFFICIENT_FUNDS", "AUTHENTICATION_FAILED", "CARD_EXPIRED",
     "INVALID_VPA", "PAYMENT_CANCELLED", "OTP_TIMEOUT", "LIMIT_EXCEEDED",
     "ISSUER_DECLINED", "ISSUER_UNAVAILABLE", "PSP_UNAVAILABLE",
     "GATEWAY_TIMEOUT", "GATEWAY_ERROR", "CHECKOUT_ERROR",
     "CONFIGURATION_ERROR", "CHECKOUT_TIMEOUT", "PRICE_HESITATION",
     "METHOD_UNAVAILABLE", "INVOICE_UNPAID", "PROMISE_BROKEN",
     "MANDATE_NOT_FOUND", "MANDATE_REVOKED", "MANDATE_AMOUNT_EXCEEDS",
     "PDN_NOT_DELIVERED", "AFA_REQUIRED", "MANDATE_PAUSED"}

CauseLayer == {"CUSTOMER", "PAYMENT", "MERCHANT", "SYSTEMIC", "INTENT",
               "RECEIVABLE", "REGULATORY"}

RootCause ==
    {"INSUFFICIENT_BALANCE", "AUTH_FRICTION", "EXPIRED_INSTRUMENT",
     "WRONG_INSTRUMENT_DETAILS", "DELIBERATE_ABANDONMENT",
     "TRANSIENT_BANK_DECLINE", "HARD_BANK_DECLINE", "ROUTE_TIMEOUT",
     "CHECKOUT_LATENCY", "MERCHANT_MISCONFIGURATION", "ROUTE_DEGRADATION",
     "METHOD_DEGRADATION", "PRICE_SENSITIVITY", "SESSION_DROPOFF",
     "BUYER_CASHFLOW", "APPROVAL_BOTTLENECK", "DISPUTED_INVOICE",
     "MANDATE_ABSENT", "MANDATE_REVOKED", "MANDATE_CAP_EXCEEDED",
     "PDN_MISSING", "AFA_THRESHOLD_BREACH", "EXECUTION_WINDOW_MISS",
     "UNKNOWN"}

-----------------------------------------------------------------------------
(* Interventions.                                                          *)

Intervention(cost_paise, friction, base_success) ==
    [cost_paise |-> cost_paise, friction |-> friction,
     base_success |-> base_success]

INTERVENTIONS ==
    [a \in ActionType |->
        CASE a = "DO_NOTHING"         -> Intervention(0, 0, 0)
          [] a = "RETRY_PAYMENT"      -> Intervention(200, 2, 22)
          [] a = "PAYMENT_LINK"       -> Intervention(300, 12, 34)
          [] a = "ALT_PAYMENT_METHOD" -> Intervention(250, 10, 36)
          [] a = "WHATSAPP"           -> Intervention(65, 15, 40)
          [] a = "SMS"                -> Intervention(25, 18, 30)
          [] a = "EMAIL"              -> Intervention(5, 6, 22)
          [] a = "VOICE"              -> Intervention(900, 55, 52)
          [] a = "DISCOUNT"           -> Intervention(65, 20, 46)
          [] a = "HUMAN_ESCALATION"   -> Intervention(12000, 30, 62)
          [] a = "PROMISE_FOLLOWUP"   -> Intervention(65, 16, 44)
          [] a = "REREGISTER_MANDATE" -> Intervention(150, 25, 48)
          [] a = "AMEND_MANDATE_CAP"  -> Intervention(100, 18, 52)
          [] a = "SEND_PDN"           -> Intervention(20, 8, 35)
          [] a = "SWITCH_RAIL"        -> Intervention(250, 12, 38)]

\* In the order of the catalogue: decide() sorts stably, so that the order
\* decides between options of one value.
ALLOWED_ACTIONS ==
    [k \in EventKind |->
        CASE k = "PAYMENT_FAILURE" ->
               <<"RETRY_PAYMENT", "PAYMENT_LINK", "ALT_PAYMENT_METHOD",
                 "WHATSAPP", "SMS", "EMAIL", "VOICE", "DISCOUNT",
                 "HUMAN_ESCALATION", "REREGISTER_MANDATE",
                 "AMEND_MANDATE_CAP", "SEND_PDN", "SWITCH_RAIL",
                 "DO_NOTHING">>
          [] k = "CART_ABANDONMENT" ->
               <<"PAYMENT_LINK", "WHATSAPP", "SMS", "EMAIL", "DISCOUNT",
                 "DO_NOTHING">>
          [] k = "SUBSCRIPTION_FAILURE" ->
               <<"RETRY_PAYMENT", "PAYMENT_LINK", "ALT_PAYMENT_METHOD",
                 "WHATSAPP", "SMS", "EMAIL", "VOICE", "HUMAN_ESCALATION",
                 "REREGISTER_MANDATE", "AMEND_MANDATE_CAP", "SEND_PDN",
                 "SWITCH_RAIL", "DO_NOTHING">>
          [] k = "OVERDUE_INVOICE" ->
               <<"PAYMENT_LINK", "EMAIL", "WHATSAPP", "SMS", "VOICE",
                 "PROMISE_FOLLOWUP", "HUMAN_ESCALATION", "DO_NOTHING">>]

-----------------------------------------------------------------------------
(* The cause library.                                                      *)

layer ==
    [c \in RootCause |->
        CASE c \in {"TRANSIENT_BANK_DECLINE", "HARD_BANK_DECLINE",
                    "ROUTE_TIMEOUT", "UNKNOWN"} -> "PAYMENT"
          [] c \in {"INSUFFICIENT_BALANCE", "AUTH_FRICTION",
                    "EXPIRED_INSTRUMENT", "WRONG_INSTRUMENT_DETAILS"}
                                                -> "CUSTOMER"
          [] c \in {"ROUTE_DEGRADATION", "METHOD_DEGRADATION"} -> "SYSTEMIC"
          [] c \in {"CHECKOUT_LATENCY", "MERCHANT_MISCONFIGURATION"}
                                                -> "MERCHANT"
          [] c \in {"PRICE_SENSITIVITY", "SESSION_DROPOFF",
                    "DELIBERATE_ABANDONMENT"}   -> "INTENT"
          [] c \in {"BUYER_CASHFLOW", "APPROVAL_BOTTLENECK",
                    "DISPUTED_INVOICE"}         -> "RECEIVABLE"
          [] OTHER                              -> "REGULATORY"]

\* Re-charging the same instrument can plausibly succeed.
Retryable == {"TRANSIENT_BANK_DECLINE", "INSUFFICIENT_BALANCE",
              "AUTH_FRICTION", "ROUTE_TIMEOUT", "CHECKOUT_LATENCY",
              "UNKNOWN"}

organic_multiplier ==
    [c \in RootCause |->
        CASE c = "TRANSIENT_BANK_DECLINE"   -> 135
          [] c = "ROUTE_TIMEOUT"            -> 130
          [] c \in {"ROUTE_DEGRADATION", "APPROVAL_BOTTLENECK"} -> 125
          [] c \in {"AUTH_FRICTION", "METHOD_DEGRADATION"}      -> 120
          [] c = "BUYER_CASHFLOW"           -> 115
          [] c = "INSUFFICIENT_BALANCE"     -> 110
          [] c = "CHECKOUT_LATENCY"         -> 105
          [] c = "UNKNOWN"                  -> 100
          [] c \in {"SESSION_DROPOFF", "EXECUTION_WINDOW_MISS"} -> 90
          [] c = "HARD_BANK_DECLINE"        -> 75
          [] c = "WRONG_INSTRUMENT_DETAILS" -> 70
          [] c = "PRICE_SENSITIVITY"        -> 65
          [] c = "MERCHANT_MISCONFIGURATION" -> 60
          [] c = "EXPIRED_INSTRUMENT"       -> 55
          [] c = "DISPUTED_INVOICE"         -> 40
          [] c = "DELIBERATE_ABANDONMENT"   -> 30
          [] c = "PDN_MISSING"              -> 25
          [] c = "MANDATE_CAP_EXCEEDED"     -> 20
          [] c = "AFA_THRESHOLD_BREACH"     -> 18
          [] c = "MANDATE_ABSENT"           -> 15
          [] c = "MANDATE_REVOKED"          -> 10]

\* What a cause makes of the success of an action, where it is not neutral.
PaymentAffinity(c) ==
    CASE c = "TRANSIENT_BANK_DECLINE" ->
           "RETRY_PAYMENT" :> 195 @@ "ALT_PAYMENT_METHOD" :> 115 @@
           "PAYMENT_LINK" :> 105 @@ "WHATSAPP" :> 90 @@ "DISCOUNT" :> 70
      [] c = "HARD_BANK_DECLINE" ->
           "RETRY_PAYMENT" :> 25 @@ "ALT_PAYMENT_METHOD" :> 145 @@
           "PAYMENT_LINK" :> 120
      [] c = "INSUFFICIENT_BALANCE" ->
           "RETRY_PAYMENT" :> 55 @@ "WHATSAPP" :> 125 @@
           "PAYMENT_LINK" :> 120 @@ "DISCOUNT" :> 130 @@ "VOICE" :> 110
      [] c = "AUTH_FRICTION" ->
           "RETRY_PAYMENT" :> 120 @@ "PAYMENT_LINK" :> 135 @@
           "ALT_PAYMENT_METHOD" :> 125 @@ "WHATSAPP" :> 110
      [] c = "EXPIRED_INSTRUMENT" ->
           "RETRY_PAYMENT" :> 12 @@ "PAYMENT_LINK" :> 145 @@
           "ALT_PAYMENT_METHOD" :> 150 @@ "WHATSAPP" :> 120
      [] c = "WRONG_INSTRUMENT_DETAILS" ->
           "RETRY_PAYMENT" :> 18 @@ "PAYMENT_LINK" :> 140 @@
           "ALT_PAYMENT_METHOD" :> 140
      [] c = "ROUTE_TIMEOUT" ->
           "RETRY_PAYMENT" :> 160 @@ "ALT_PAYMENT_METHOD" :> 130 @@
           "PAYMENT_LINK" :> 105

IntentAffinity(c) ==
    CASE c = "ROUTE_DEGRADATION" ->
           "RETRY_PAYMENT" :> 35 @@ "ALT_PAYMENT_METHOD" :> 160 @@
           "PAYMENT_LINK" :> 110 @@ "WHATSAPP" :> 95
      [] c = "METHOD_DEGRADATION" ->
           "RETRY_PAYMENT" :> 40 @@ "ALT_PAYMENT_METHOD" :> 170 @@
           "PAYMENT_LINK" :> 115
      [] c = "CHECKOUT_LATENCY" ->
           "PAYMENT_LINK" :> 140 @@ "WHATSAPP" :> 115 @@
           "RETRY_PAYMENT" :> 60
      [] c = "MERCHANT_MISCONFIGURATION" ->
           "RETRY_PAYMENT" :> 30 @@ "HUMAN_ESCALATION" :> 160 @@
           "PAYMENT_LINK" :> 90
      [] c = "PRICE_SENSITIVITY" ->
           "DISCOUNT" :> 170 @@ "WHATSAPP" :> 110 @@ "EMAIL" :> 95 @@
           "PAYMENT_LINK" :> 95 @@ "RETRY_PAYMENT" :> 20 @@
           "VOICE" :> 70 @@ "HUMAN_ESCALATION" :> 60
      [] c = "SESSION_DROPOFF" ->
           "PAYMENT_LINK" :> 150 @@ "WHATSAPP" :> 130 @@ "SMS" :> 110 @@
           "DISCOUNT" :> 105
      [] c = "DELIBERATE_ABANDONMENT" ->
           "DISCOUNT" :> 110 @@ "WHATSAPP" :> 70 @@ "SMS" :> 55 @@
           "EMAIL" :> 60 @@ "PAYMENT_LINK" :> 70 @@
           "ALT_PAYMENT_METHOD" :> 50 @@ "RETRY_PAYMENT" :> 15 @@
           "VOICE" :> 45 @@ "HUMAN_ESCALATION" :> 50
      [] c = "BUYER_CASHFLOW" ->
           "PROMISE_FOLLOWUP" :> 160 @@ "VOICE" :> 130 @@
           "HUMAN_ESCALATION" :> 135 @@ "EMAIL" :> 110
      [] c = "APPROVAL_BOTTLENECK" ->
           "EMAIL" :> 150 @@ "HUMAN_ESCALATION" :> 135 @@
           "WHATSAPP" :> 120 @@ "PROMISE_FOLLOWUP" :> 125
      [] c = "DISPUTED_INVOICE" ->
           "HUMAN_ESCALATION" :> 190 @@ "VOICE" :> 120 @@ "EMAIL" :> 80 @@
           "SMS" :> 40

RegulatoryAffinity(c) ==
    CASE c = "MANDATE_ABSENT" ->
           "REREGISTER_MANDATE" :> 180 @@ "SWITCH_RAIL" :> 130 @@
           "RETRY_PAYMENT" :> 5
      [] c = "MANDATE_REVOKED" ->
           "REREGISTER_MANDATE" :> 190 @@ "RETRY_PAYMENT" :> 3
      [] c = "MANDATE_CAP_EXCEEDED" ->
           "AMEND_MANDATE_CAP" :> 185 @@ "REREGISTER_MANDATE" :> 120 @@
           "RETRY_PAYMENT" :> 4
      [] c = "PDN_MISSING" ->
           "SEND_PDN" :> 190 @@ "WHATSAPP" :> 110 @@ "RETRY_PAYMENT" :> 6
      [] c = "AFA_THRESHOLD_BREACH" ->
           "REREGISTER_MANDATE" :> 170 @@ "PAYMENT_LINK" :> 125 @@
           "RETRY_PAYMENT" :> 5
      [] c = "EXECUTION_WINDOW_MISS" ->
           "RETRY_PAYMENT" :> 110 @@ "SEND_PDN" :> 95

Affinities(c) ==
    CASE c = "UNKNOWN" -> <<>>
      [] layer[c] = "REGULATORY" -> RegulatoryAffinity(c)
      [] layer[c] \in {"PAYMENT", "CUSTOMER"} -> PaymentAffinity(c)
      [] OTHER -> IntentAffinity(c)

\* (mutant) Every action suits every cause equally.
affinity_neutral(cause, action) == 100

affinity(cause, action) ==
    IF action \in DOMAIN Affinities(cause)
    THEN Affinities(cause)[action] ELSE 100

\* The causes a failure code points to, with their prior weights.
FAILURE_CAUSE_PRIORS ==
    [f \in FailureCode |->
        CASE f = "INSUFFICIENT_FUNDS" -> "INSUFFICIENT_BALANCE" :> 92
          [] f = "AUTHENTICATION_FAILED" ->
               "AUTH_FRICTION" :> 74 @@ "TRANSIENT_BANK_DECLINE" :> 18
          [] f = "OTP_TIMEOUT" -> "AUTH_FRICTION" :> 88
          [] f = "CARD_EXPIRED" -> "EXPIRED_INSTRUMENT" :> 95
          [] f = "INVALID_VPA" -> "WRONG_INSTRUMENT_DETAILS" :> 90
          [] f = "PAYMENT_CANCELLED" ->
               "DELIBERATE_ABANDONMENT" :> 62 @@ "AUTH_FRICTION" :> 24
          [] f = "LIMIT_EXCEEDED" ->
               "HARD_BANK_DECLINE" :> 58 @@ "INSUFFICIENT_BALANCE" :> 30
          [] f = "ISSUER_DECLINED" ->
               "TRANSIENT_BANK_DECLINE" :> 56 @@ "HARD_BANK_DECLINE" :> 34
          [] f = "ISSUER_UNAVAILABLE" ->
               "ROUTE_DEGRADATION" :> 55 @@ "TRANSIENT_BANK_DECLINE" :> 35
          [] f = "PSP_UNAVAILABLE" ->
               "METHOD_DEGRADATION" :> 60 @@ "ROUTE_DEGRADATION" :> 30
          [] f = "GATEWAY_TIMEOUT" ->
               "ROUTE_TIMEOUT" :> 72 @@ "ROUTE_DEGRADATION" :> 20
          [] f = "GATEWAY_ERROR" ->
               "ROUTE_DEGRADATION" :> 48 @@ "ROUTE_TIMEOUT" :> 30
          [] f = "CHECKOUT_ERROR" -> "CHECKOUT_LATENCY" :> 70
          [] f = "CONFIGURATION_ERROR" -> "MERCHANT_MISCONFIGURATION" :> 86
          [] f = "CHECKOUT_TIMEOUT" ->
               "SESSION_DROPOFF" :> 66 @@ "CHECKOUT_LATENCY" :> 22
          [] f = "PRICE_HESITATION" ->
               "PRICE_SENSITIVITY" :> 70 @@ "DELIBERATE_ABANDONMENT" :> 22
          [] f = "METHOD_UNAVAILABLE" -> "METHOD_DEGRADATION" :> 68
          [] f = "INVOICE_UNPAID" ->
               "BUYER_CASHFLOW" :> 48 @@ "APPROVAL_BOTTLENECK" :> 34 @@
               "DISPUTED_INVOICE" :> 14
          [] f = "PROMISE_BROKEN" ->
               "BUYER_CASHFLOW" :> 60 @@ "DISPUTED_INVOICE" :> 26
          [] f = "MANDATE_NOT_FOUND" -> "MANDATE_ABSENT" :> 96
          [] f = "MANDATE_REVOKED" -> "MANDATE_REVOKED" :> 97
          [] f = "MANDATE_AMOUNT_EXCEEDS" -> "MANDATE_CAP_EXCEEDED" :> 95
          [] f = "PDN_NOT_DELIVERED" -> "PDN_MISSING" :> 94
          [] f = "AFA_REQUIRED" -> "AFA_THRESHOLD_BREACH" :> 96
          [] f = "MANDATE_PAUSED" ->
               "MANDATE_REVOKED" :> 70 @@ "MANDATE_ABSENT" :> 20]

-----------------------------------------------------------------------------
(* Mandate rules.                                                          *)

REGULATORY_FUTILE_CAUSES ==
    {"MANDATE_ABSENT", "MANDATE_REVOKED", "MANDATE_CAP_EXCEEDED",
     "PDN_MISSING", "AFA_THRESHOLD_BREACH"}

required_remedy(cause) ==
    CASE cause \in {"MANDATE_ABSENT", "MANDATE_REVOKED",
                    "AFA_THRESHOLD_BREACH"} -> "REREGISTER_MANDATE"
      [] cause = "MANDATE_CAP_EXCEEDED"     -> "AMEND_MANDATE_CAP"
      [] cause = "PDN_MISSING"              -> "SEND_PDN"
      [] cause = "EXECUTION_WINDOW_MISS"    -> "RETRY_PAYMENT"
      [] OTHER                              -> "DO_NOTHING"

\* What the gate tells apart of a root cause.
CauseClassOf(cause) ==
    IF cause = "EXECUTION_WINDOW_MISS" THEN "EXECUTION_WINDOW_MISS"
    ELSE IF layer[cause] = "REGULATORY" THEN "REGULATORY" ELSE "OTHER"
=============================================================================
