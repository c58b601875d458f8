----------------------------- MODULE EventIntake -----------------------------
(***************************************************************************)
(* What the webhook endpoint promises to the provider: an event is taken   *)
(* in with its case in a single step, by one of its deliveries, and every  *)
(* answer is true of the database when it is sent.  No process, event      *)
(* loop, key, row lock or transaction is visible here; WebhookApi          *)
(* implements this with all of them.                                       *)
(***************************************************************************)

CONSTANTS
  Webhooks,      \* deliveries of webhook events
  None,
  home,          \* the API process that serves a delivery
  eventOf,       \* the razorpay_event_id of a delivery
  paymentOf      \* the payment a delivery is about

VARIABLES
  stored,     \* the events on record
  cases,      \* the cases, each named by the delivery that opened it
  accepted,   \* deliveries whose event was taken in, before they are answered
  replies     \* the status a delivery was answered with

intakeVars == <<stored, cases, accepted, replies>>

IntakeInit ==
  /\ stored = {}
  /\ cases = {}
  /\ accepted = {}
  /\ replies = [w \in Webhooks |-> None]

\* The event, its case and its row in payment_events, in one step.  A delivery
\* opens a case only where its own process has none for the payment: another
\* process may be opening one at the same time.
TakeIn(w) ==
  /\ eventOf[w] \notin stored
  /\ stored' = stored \cup { eventOf[w] }
  /\ \E c \in cases \cup { w } :
       /\ paymentOf[c] = paymentOf[w]
       /\ c \notin cases =>
            \A d \in cases : paymentOf[d] = paymentOf[w] => home[d] # home[w]
       /\ cases' = cases \cup { c }
  /\ accepted' = accepted \cup { w }
  /\ UNCHANGED replies

\* The broker was away.
LosePublish(w) ==
  /\ w \in accepted
  /\ accepted' = accepted \ { w }
  /\ UNCHANGED <<stored, cases, replies>>

Answer(w, status) ==
  /\ replies[w] = None
  /\ replies' = [replies EXCEPT ![w] = status]

\* Of all deliveries of an event, only the one that was taken in.
AnswerProcessed(w) ==
  /\ w \in accepted
  /\ accepted' = accepted \ { w }
  /\ Answer(w, "processed")
  /\ UNCHANGED <<stored, cases>>

AnswerDuplicate(w) ==
  /\ eventOf[w] \in stored
  /\ Answer(w, "duplicate")
  /\ UNCHANGED <<stored, cases, accepted>>

\* An event that nothing is done with is on record when this is said.
AnswerUnrecognized(w) ==
  /\ stored' = stored \cup { eventOf[w] }
  /\ Answer(w, "unrecognized")
  /\ UNCHANGED <<cases, accepted>>

\* The provider will try again.
AnswerFailure(w) ==
  /\ w \notin accepted
  /\ \E status \in { "refused", "error" } : Answer(w, status)
  /\ UNCHANGED <<stored, cases, accepted>>

IntakeNext ==
  \E w \in Webhooks :
    \/ TakeIn(w) \/ LosePublish(w)
    \/ AnswerProcessed(w) \/ AnswerDuplicate(w) \/ AnswerUnrecognized(w) \/ AnswerFailure(w)

IntakeSpec == IntakeInit /\ [][IntakeNext]_intakeVars
=============================================================================
