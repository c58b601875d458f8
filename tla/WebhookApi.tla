----------------------------- MODULE WebhookApi -----------------------------
(***************************************************************************)
(* The API processes as FastAPI runs them.  receive_razorpay_webhook is    *)
(* `async def` and calls the database, and RabbitMQ, from the event loop:  *)
(* while it waits there, nothing else of its process moves.  review_case   *)
(* is a plain `def`: it runs in a thread, but the process's event loop has *)
(* to call it and, once it has returned, has to start the exit of get_db,  *)
(* which commits.  Locks live in PostgreSQL: the key of an inserted raw    *)
(* event until its transaction ends, and the row of a case under review or *)
(* in a worker.  FastAPI, uvicorn and PostgreSQL are external.             *)
(***************************************************************************)
EXTENDS Naturals, FiniteSets

CONSTANTS
  Webhooks,      \* deliveries of webhook events
  Reviews,       \* requests to the review endpoint
  Workers,       \* sessions of the queue's consumers
  None,
  home,          \* the API process that serves a request
  eventOf,       \* the razorpay_event_id of a delivery
  paymentOf      \* the payment a request or a worker's message is about

Requests  == Webhooks \cup Reviews
Processes == { home[r] : r \in Requests }
Events    == { eventOf[w] : w \in Webhooks }
Holders   == Reviews \cup Workers

Answers == { "processed", "duplicate", "refused", "unrecognized", "error",
             "reviewed", "conflict" }

ASSUME WebhookApiAssumption ==
  /\ Webhooks \cap Reviews = {} /\ Webhooks \cap Workers = {} /\ Reviews \cap Workers = {}
  /\ None \notin Requests \cup Workers \cup Answers
  /\ DOMAIN home = Requests
  /\ DOMAIN eventOf = Webhooks
  /\ DOMAIN paymentOf = Requests \cup Workers
  /\ \A v, w \in Webhooks : eventOf[v] = eventOf[w] => paymentOf[v] = paymentOf[w]

VARIABLES
  pc,         \* where a request or a worker's session is
  loop,       \* the handler that runs on the event loop of a process
  key,        \* the open transaction that inserted the raw row of an event
  stored,     \* events whose raw row is committed
  cases,      \* committed cases, each named by the delivery that created it
  matched,    \* the case _find_matching_case found
  row,        \* the holder of the row lock of a case
  answer      \* the status a request is answered with

apiVars == <<pc, loop, key, stored, cases, matched, row, answer>>

CasesOf(x) == { c \in cases : paymentOf[c] = paymentOf[x] }

LoopIsFree(r) == loop[home[r]] = None

ApiInit ==
  /\ pc = [r \in Requests \cup Workers |-> "arrived"]
  /\ loop = [p \in Processes |-> None]
  /\ key = [e \in Events |-> None]
  /\ stored = {}
  /\ cases = {}
  /\ matched = [w \in Webhooks |-> None]
  /\ row = [c \in Webhooks |-> None]
  /\ answer = [r \in Requests |-> None]

Goto(r, label) == pc' = [pc EXCEPT ![r] = label]

-----------------------------------------------------------------------------
(* What the framework does around every endpoint.                          *)

\* The loop hands get_db and the other dependencies to a thread: a session is
\* opened (without a connection yet), authentication and get_redis run.
Accept(r) ==
  /\ pc[r] = "arrived"
  /\ LoopIsFree(r)
  /\ Goto(r, "opened")
  /\ UNCHANGED <<loop, key, stored, cases, matched, row, answer>>

\* Mutant: get_db ends without giving its connection back.
ExitHoldingRow(r) ==
  /\ pc[r] = "returned"
  /\ LoopIsFree(r)
  /\ stored' = IF answer[r] \in { "refused", "error", "conflict" } THEN stored
               ELSE stored \cup { e \in Events : key[e] = r }
  /\ key' = [e \in Events |-> IF key[e] = r THEN None ELSE key[e]]
  /\ Goto(r, "answered")
  /\ UNCHANGED <<loop, cases, matched, row, answer>>

\* The loop hands the rest of get_db to a thread: commit, or rollback if the
\* endpoint raised.  Only then is the response sent.
Exit(r) ==
  /\ pc[r] = "returned"
  /\ LoopIsFree(r)
  /\ stored' = IF answer[r] \in { "refused", "error", "conflict" } THEN stored
               ELSE stored \cup { e \in Events : key[e] = r }
  /\ key' = [e \in Events |-> IF key[e] = r THEN None ELSE key[e]]
  /\ row' = [c \in Webhooks |-> IF row[c] = r THEN None ELSE row[c]]
  /\ Goto(r, "answered")
  /\ UNCHANGED <<loop, cases, matched, answer>>

-----------------------------------------------------------------------------
(* receive_razorpay_webhook.                                               *)

\* The rate limit, a missing secret, a body that cannot be parsed: the handler
\* raises before it has waited for anything.
RefuseEarly(w) ==
  /\ pc[w] = "opened"
  /\ LoopIsFree(w)
  /\ answer' = [answer EXCEPT ![w] = "refused"]
  /\ Goto(w, "returned")
  /\ UNCHANGED <<loop, key, stored, cases, matched, row>>

\* The request body has arrived and the loop enters the handler for good, up to
\* the insert of the raw row: there is no other await in it.
CallWebhook(w) ==
  /\ pc[w] = "opened"
  /\ LoopIsFree(w)
  /\ loop' = [loop EXCEPT ![home[w]] = w]
  /\ Goto(w, "running")
  /\ UNCHANGED <<key, stored, cases, matched, row, answer>>

Return(w, status) ==
  /\ answer' = [answer EXCEPT ![w] = status]
  /\ loop' = [loop EXCEPT ![home[w]] = None]
  /\ Goto(w, "returned")

\* Mutant: look for the event id first, insert without a unique constraint.
InsertRawUnchecked(w) ==
  /\ pc[w] = "running"
  /\ eventOf[w] \notin stored
  /\ key' = [key EXCEPT ![eventOf[w]] = w]
  /\ Goto(w, "inserted")
  /\ UNCHANGED <<loop, stored, cases, matched, row, answer>>

\* The savepoint around the insert of the raw row.  The unique razorpay_event_id
\* makes it wait for another open transaction with the same id.
InsertRaw(w) ==
  /\ pc[w] = "running"
  /\ eventOf[w] \notin stored
  /\ key[eventOf[w]] = None
  /\ key' = [key EXCEPT ![eventOf[w]] = w]
  /\ Goto(w, "inserted")
  /\ UNCHANGED <<loop, stored, cases, matched, row, answer>>

\* Mutant: a conflict with a transaction that is still open counts.
DuplicateOfOpen(w) ==
  /\ pc[w] = "running"
  /\ eventOf[w] \in stored \/ key[eventOf[w]] # None
  /\ Return(w, "duplicate")
  /\ UNCHANGED <<key, stored, cases, matched, row>>

\* IntegrityError on the insert.
Duplicate(w) ==
  /\ pc[w] = "running"
  /\ eventOf[w] \in stored
  /\ Return(w, "duplicate")
  /\ UNCHANGED <<key, stored, cases, matched, row>>

\* An invalid signature raises HTTPException, an event type outside the map
\* returns, a payload without the expected entity raises KeyError.  The raw row
\* stays uncommitted until the exit of get_db.
NotIngested(w) ==
  /\ pc[w] = "inserted"
  /\ \E status \in { "refused", "unrecognized", "error" } : Return(w, status)
  /\ UNCHANGED <<key, stored, cases, matched, row>>

\* Mutant: cases are never looked up.
MatchNothing(w) ==
  /\ pc[w] = "inserted"
  /\ matched' = [matched EXCEPT ![w] = w]
  /\ Goto(w, "matched")
  /\ UNCHANGED <<loop, key, stored, cases, row, answer>>

\* _find_matching_case sees committed cases only; create_case if there is none.
Match(w) ==
  /\ pc[w] = "inserted"
  /\ IF CasesOf(w) = {}
       THEN matched' = [matched EXCEPT ![w] = w]
       ELSE \E c \in CasesOf(w) : matched' = [matched EXCEPT ![w] = c]
  /\ Goto(w, "matched")
  /\ UNCHANGED <<loop, key, stored, cases, row, answer>>

\* The payment_events row refers to the case: the foreign key check waits for
\* whoever has the row FOR UPDATE.  Then db.commit().
Store(w) ==
  /\ pc[w] = "matched"
  /\ row[matched[w]] = None
  /\ cases' = cases \cup { matched[w] }
  /\ stored' = stored \cup { eventOf[w] }
  /\ key' = [key EXCEPT ![eventOf[w]] = None]
  /\ Goto(w, "publishing")
  /\ UNCHANGED <<loop, matched, row, answer>>

\* publish_case_event_standalone, and the broker may be away.
Publish(w) ==
  /\ pc[w] = "publishing"
  /\ \E status \in { "processed", "error" } : Return(w, status)
  /\ UNCHANGED <<key, stored, cases, matched, row>>

-----------------------------------------------------------------------------
(* review_case, and the sessions of the workers.                           *)

\* The loop hands the endpoint to a thread.
CallReview(r) ==
  /\ pc[r] = "opened"
  /\ LoopIsFree(r)
  /\ Goto(r, "reviewing")
  /\ UNCHANGED <<loop, key, stored, cases, matched, row, answer>>

\* review_escalated_case refuses: no such case, not escalated, bad decision.
RefuseReview(r) ==
  /\ pc[r] = "reviewing"
  /\ answer' = [answer EXCEPT ![r] = "conflict"]
  /\ Goto(r, "returned")
  /\ UNCHANGED <<loop, key, stored, cases, matched, row>>

\* The unlocked get_case found an escalated case.
BeginReview(r) ==
  /\ pc[r] = "reviewing"
  /\ CasesOf(r) # {}
  /\ Goto(r, "waiting")
  /\ UNCHANGED <<loop, key, stored, cases, matched, row, answer>>

\* The first transition locks the row; a worker's session does the same.
TakeRow(x) ==
  /\ pc[x] = IF x \in Reviews THEN "waiting" ELSE "arrived"
  /\ \E c \in CasesOf(x) : row[c] = None /\ row' = [row EXCEPT ![c] = x]
  /\ Goto(x, "holding")
  /\ UNCHANGED <<loop, key, stored, cases, matched, answer>>

\* The endpoint returns with its transaction still open.
EndReview(r) ==
  /\ pc[r] = "holding"
  /\ answer' = [answer EXCEPT ![r] = "reviewed"]
  /\ Goto(r, "returned")
  /\ UNCHANGED <<loop, key, stored, cases, matched, row>>

\* Mutant: the worker's session is neither committed nor rolled back.
WorkerEndsHoldingRow(x) ==
  /\ pc[x] = "holding"
  /\ Goto(x, "answered")
  /\ UNCHANGED <<loop, key, stored, cases, matched, row, answer>>

\* A worker commits or rolls back by itself.
WorkerEnds(x) ==
  /\ pc[x] = "holding"
  /\ row' = [c \in Webhooks |-> IF row[c] = x THEN None ELSE row[c]]
  /\ Goto(x, "answered")
  /\ UNCHANGED <<loop, key, stored, cases, matched, answer>>

-----------------------------------------------------------------------------
Ingest(w) ==
  \/ CallWebhook(w) \/ RefuseEarly(w) \/ InsertRaw(w) \/ Duplicate(w)
  \/ NotIngested(w) \/ Match(w) \/ Store(w) \/ Publish(w)

Review(r) ==
  \/ CallReview(r) \/ RefuseReview(r) \/ BeginReview(r) \/ TakeRow(r) \/ EndReview(r)

Step(r) ==
  \/ Accept(r) \/ Exit(r)
  \/ r \in Webhooks /\ Ingest(r)
  \/ r \in Reviews /\ Review(r)

ApiNext ==
  \/ \E r \in Requests : Step(r)
  \/ \E x \in Workers : TakeRow(x) \/ WorkerEnds(x)

ApiSpec == ApiInit /\ [][ApiNext]_apiVars

\* Threads run; a free event loop takes every ready callback in turn, and
\* PostgreSQL serves those who wait for a lock in turn.  A request or a worker's
\* message may never come.
ApiFairness ==
  /\ \A r \in Requests : SF_apiVars(pc[r] # "arrived" /\ Step(r))
  /\ \A x \in Workers : WF_apiVars(WorkerEnds(x))

ApiFairSpec == ApiSpec /\ ApiFairness

-----------------------------------------------------------------------------
ApiTypeOK ==
  /\ pc \in [Requests \cup Workers ->
       { "arrived", "opened", "running", "inserted", "matched",
         "publishing", "reviewing", "waiting", "holding", "returned", "answered" }]
  /\ loop \in [Processes -> Webhooks \cup {None}]
  /\ key \in [Events -> Webhooks \cup {None}]
  /\ stored \subseteq Events
  /\ cases \subseteq Webhooks
  /\ matched \in [Webhooks -> Webhooks \cup {None}]
  /\ row \in [Webhooks -> Holders \cup {None}]
  /\ answer \in [Requests -> Answers \cup {None}]

\* w has got past the unique razorpay_event_id: to the case and the queue.
Passed(w) == pc[w] \in { "inserted", "matched", "publishing" } \/ answer[w] = "processed"

\* Idempotency: of all deliveries of an event, to whichever processes, at most
\* one gets as far as the case and the queue.
IngestedOnce ==
  \A v, w \in Webhooks : v # w /\ eventOf[v] = eventOf[w] => ~ (Passed(v) /\ Passed(w))

\* "duplicate" is only said of an event that is safely stored: the provider will
\* not deliver it again.
DuplicateIsStored ==
  \A w \in Webhooks : answer[w] = "duplicate" => eventOf[w] \in stored

\* A delivery that was answered with success is durable.
AcknowledgedIsStored ==
  \A w \in Webhooks :
    pc[w] = "answered" /\ answer[w] \in { "processed", "duplicate", "unrecognized" }
      => eventOf[w] \in stored

\* One process opens one case per payment at most: between the search and the
\* commit its handler never lets the event loop go.
OneCasePerProcess ==
  \A c, d \in cases :
    paymentOf[c] = paymentOf[d] /\ home[c] = home[d] => c = d

\* All events of a payment are attached to one case, whichever processes they
\* were delivered to.
OneCasePerPayment ==
  \A c, d \in cases : paymentOf[c] = paymentOf[d] => c = d

\* Deliveries that were taken in and not answered yet, and the answers sent.
Accepted ==
  { w \in Webhooks : pc[w] = "publishing" \/ (pc[w] = "returned" /\ answer[w] = "processed") }

Replies == [w \in Webhooks |-> IF pc[w] = "answered" THEN answer[w] ELSE None]

\* What the provider and the database see, whatever processes, event loops and
\* keys are behind it: each event is taken in with its case in one step, by one of
\* its deliveries, and each answer is true when it is sent (module EventIntake).
Intake == INSTANCE EventIntake WITH accepted <- Accepted, replies <- Replies

IntakeIsAtomic == Intake!IntakeSpec

\* Where a delivery is tells what it has: its process's event loop from the call
\* to the return, the event's key from the insert to the commit.
DeliveryShape(w) ==
  LET e == eventOf[w] IN
  /\ pc[w] \notin { "reviewing", "waiting", "holding" }
  /\ pc[w] \in { "running", "inserted", "matched", "publishing" } <=> loop[home[w]] = w
  /\ answer[w] # None => pc[w] \in { "returned", "answered" }
  /\ key[e] = w => pc[w] \in { "inserted", "matched", "returned" }
  /\ pc[w] \in { "inserted", "matched" } => key[e] = w
  /\ pc[w] = "publishing" \/ answer[w] \in { "processed", "duplicate" } => e \in stored
  /\ answer[w] = "unrecognized" =>
       e \in stored \/ (pc[w] = "returned" /\ key[e] = w)
  /\ pc[w] = "matched" =>
       \/ matched[w] \in cases
       \/ /\ matched[w] = w
          /\ \A c \in CasesOf(w) : home[c] # home[w]

\* The inductive invariant behind the safety properties above.
ApiInv ==
  /\ ApiTypeOK
  /\ \A w \in Webhooks : DeliveryShape(w)
  /\ \A e \in Events : key[e] # None => e \notin stored /\ eventOf[key[e]] = e
  /\ IngestedOnce
  /\ DuplicateIsStored
  /\ AcknowledgedIsStored
  /\ OneCasePerProcess

\* r waits for one of S: for the transaction that holds its event's key, for the
\* holders of its payment's cases, or for the handler that keeps the event loop
\* its own process needs to call it or to end its transaction.
WaitsFor(r, S) ==
  \/ pc[r] = "running" /\ key[eventOf[r]] \in S
  \/ pc[r] = "matched" /\ row[matched[r]] \in S
  \/ pc[r] = "waiting" /\ \A c \in CasesOf(r) : row[c] \in S
  \/ pc[r] \in { "arrived", "opened", "returned" } /\ loop[home[r]] \in S

\* Requests in a circle of waits, or behind one.
Circular ==
  { r \in Requests : \E S \in SUBSET Requests : r \in S /\ \A q \in S : WaitsFor(q, S) }

\* In the end every accepted request is answered, or it is caught in a circle of
\* waits through an event loop, or behind one.  Such circles are reachable: (1) a
\* webhook waits for the row of a case under review, on the loop that has to end the
\* review's transaction; (2) a delivery of an event waits, on the loop that has to
\* end the transaction of another delivery of it that was refused or not recognized;
\* (3) both kinds over several processes.  PostgreSQL sees no deadlock in them and
\* breaks none.
AnsweredUnlessCircular ==
  []<>(\A r \in Requests : pc[r] \in { "arrived", "answered" } \/ r \in Circular)

\* Nobody waits in a circle as long as the requests are served apart: processes that
\* serve reviews serve no webhooks, the deliveries of one event go to different
\* processes, and one event at most is delivered more than once.  Nothing in the
\* code sees to it.
Begun == { r \in Requests : pc[r] # "arrived" }

ServedApart ==
  LET deliveries == Webhooks \cap Begun IN
  /\ \A r \in Reviews \cap Begun, w \in deliveries : home[r] # home[w]
  /\ \A v, w \in deliveries : v # w /\ eventOf[v] = eventOf[w] => home[v] # home[w]
  /\ \A v, w, x, y \in deliveries :
       v # w /\ eventOf[v] = eventOf[w] /\ x # y /\ eventOf[x] = eventOf[y]
         => eventOf[v] = eventOf[x]

NoCircle == Circular = {}

\* In the end, if the requests so far were served apart, every accepted webhook and
\* every accepted review is answered, whatever the workers do with the case.  If
\* they were not, they need not be (see AnsweredUnlessCircular).
RequestIsAnswered ==
  []<>(ServedApart => \A r \in Requests : pc[r] \in { "arrived", "answered" })
=============================================================================
