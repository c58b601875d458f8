---------------------------- MODULE MCWebhookApi ----------------------------
(* Small instances of WebhookApi for TLC. *)
EXTENDS WebhookApi, TLC

CONSTANTS w1, w2, w3, w4, r1, x1, e1, e2, pay, api1, api2

\* Two events of one payment and its review.  The first event comes once to api1
\* (w1), and once more either to api2, which serves the review (w2), or to api1
\* again (w4).
MCHome == w1 :> api1 @@ w2 :> api2 @@ w3 :> api1 @@ w4 :> api1 @@ r1 :> api2
MCEvent == w1 :> e1 @@ w2 :> e1 @@ w3 :> e2 @@ w4 :> e1
MCPayment == w1 :> pay @@ w2 :> pay @@ w3 :> pay @@ w4 :> pay @@ r1 :> pay @@ x1 :> pay

DeliveredTwice == pc[w2] = "arrived" \/ pc[w4] = "arrived"

\* The two events at two processes.
SpreadHome == w1 :> api1 @@ w2 :> api2 @@ r1 :> api2
TwoEvents == w1 :> e1 @@ w2 :> e2
OnePayment == w1 :> pay @@ w2 :> pay @@ r1 :> pay @@ x1 :> pay
=============================================================================
