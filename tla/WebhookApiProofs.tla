--------------------------- MODULE WebhookApiProofs ---------------------------
(***************************************************************************)
(* Theorems about WebhookApi for any set of deliveries, reviews, workers   *)
(* and API processes, and any assignment of requests to processes.  ApiInv *)
(* is shown to be inductive, one lemma per kind of step; the safety        *)
(* properties follow.                                                      *)
(***************************************************************************)
EXTENDS WebhookApi, TLAPS

\* A key is held for an event that is not stored yet, by a delivery of it.
KeySound == \A e \in Events : key[e] # None => e \notin stored /\ eventOf[key[e]] = e

\* Deliveries are neither reviews nor workers, nor None.
LEMMA ApiActorsApart ==
  /\ \A w \in Webhooks : w # None /\ w \notin Reviews /\ w \notin Workers
  /\ \A r \in Reviews : r # None /\ r \notin Workers
  /\ None \notin Workers \cup Answers
  /\ \A w \in Webhooks : eventOf[w] \in Events /\ home[w] \in Processes
  /\ \A r \in Requests : home[r] \in Processes
BY WebhookApiAssumption DEF Requests, Events, Processes

\* A step of another request leaves what is known of a delivery alone.
LEMMA DeliveryFrame ==
  ASSUME NEW v \in Webhooks, DeliveryShape(v),
         pc'[v] = pc[v], answer'[v] = answer[v], matched'[v] = matched[v],
         loop'[home[v]] = v <=> loop[home[v]] = v,
         key'[eventOf[v]] = v <=> key[eventOf[v]] = v,
         stored \subseteq stored',
         cases \subseteq cases',
         pc[v] = "matched" =>
           \A c \in cases' \ cases : paymentOf[c] = paymentOf[v] => home[c] # home[v]
  PROVE  DeliveryShape(v)'
BY DEF DeliveryShape, CasesOf

\* What is answered as a success follows from where the deliveries are.
LEMMA ShapesGiveAnswers ==
  ASSUME \A w \in Webhooks : DeliveryShape(w)'
  PROVE  DuplicateIsStored' /\ AcknowledgedIsStored'
BY DEF DeliveryShape, DuplicateIsStored, AcknowledgedIsStored

\* A delivery that is not past the unique key, before or after the step, and
\* leaves the others where they are keeps IngestedOnce.
LEMMA NoNewPass ==
  ASSUME IngestedOnce,
         \A v \in Webhooks : Passed(v)' => Passed(v)
  PROVE  IngestedOnce'
BY DEF IngestedOnce

\* Nothing is held, stored or answered to begin with.
LEMMA InitApiInv == ApiInit => ApiInv
<1>1. SUFFICES ASSUME ApiInit PROVE ApiInv
  OBVIOUS
<1>2. ApiTypeOK
  BY <1>1 DEF ApiInit, ApiTypeOK, Requests, Processes, Events
<1>3. ASSUME NEW w \in Webhooks PROVE DeliveryShape(w)
  BY <1>1, ApiActorsApart DEF ApiInit, DeliveryShape, Requests, Answers
<1>4. KeySound
  BY <1>1 DEF ApiInit, KeySound, Events
<1>5. IngestedOnce /\ DuplicateIsStored /\ AcknowledgedIsStored
  BY <1>1, ApiActorsApart
     DEF ApiInit, IngestedOnce, Passed, DuplicateIsStored, AcknowledgedIsStored,
         Requests, Answers
<1>6. OneCasePerProcess
  BY <1>1 DEF ApiInit, OneCasePerProcess
<1>7. QED
  BY <1>2, <1>3, <1>4, <1>5, <1>6 DEF ApiInv, KeySound

\* An accepted request only gets a session.
LEMMA AcceptKeepsApiInv ==
  ASSUME ApiInv, NEW r \in Requests, Accept(r)
  PROVE  ApiInv'
<1>1. ApiTypeOK'
  BY ApiActorsApart
     DEF ApiInv, ApiTypeOK, Accept, Goto, Requests, Holders, Answers, Events, Processes
<1>2. ASSUME NEW v \in Webhooks PROVE DeliveryShape(v)'
  <2>1. CASE v = r
    BY <2>1, ApiActorsApart
       DEF ApiInv, ApiTypeOK, DeliveryShape, KeySound, Accept, Goto, Requests, CasesOf,
           LoopIsFree
  <2>2. CASE v # r
    BY <2>2, ApiActorsApart, DeliveryFrame
       DEF ApiInv, ApiTypeOK, DeliveryShape, KeySound, Accept, Goto, Requests, LoopIsFree
  <2>3. QED
    BY <2>1, <2>2
<1>3. KeySound'
  BY ApiActorsApart DEF ApiInv, ApiTypeOK, DeliveryShape, KeySound, Accept, Goto
<1>4. IngestedOnce'
  BY ApiActorsApart, WebhookApiAssumption, NoNewPass
     DEF ApiInv, ApiTypeOK, DeliveryShape, Passed, IngestedOnce, Accept, Goto, Requests
<1>5. OneCasePerProcess'
  BY ApiActorsApart
     DEF ApiInv, ApiTypeOK, DeliveryShape, OneCasePerProcess, CasesOf, Accept
<1>6. QED
  BY <1>1, <1>2, <1>3, <1>4, <1>5, ShapesGiveAnswers DEF ApiInv, KeySound

\* The exit of get_db gives back the keys of its own deliveries only, and of an
\* unrecognized one only after its raw row is stored.
LEMMA ExitKeepsApiInv ==
  ASSUME ApiInv, NEW r \in Requests, Exit(r)
  PROVE  ApiInv'
<1>1. ApiTypeOK'
  BY ApiActorsApart
     DEF ApiInv, ApiTypeOK, Exit, Goto, Requests, Holders, Answers, Events, Processes
<1>2. ASSUME NEW v \in Webhooks PROVE DeliveryShape(v)'
  <2>1. CASE v = r
    BY <2>1, ApiActorsApart
       DEF ApiInv, ApiTypeOK, DeliveryShape, KeySound, Exit, Goto, Requests, CasesOf,
           LoopIsFree
  <2>2. CASE v # r
    <3>1. key'[eventOf[v]] = v <=> key[eventOf[v]] = v
      BY <2>2, ApiActorsApart DEF Exit
    <3>2. stored \subseteq stored'
      BY DEF Exit
    <3>3. pc'[v] = pc[v]
      BY <2>2 DEF Exit, Goto, ApiInv, ApiTypeOK
    <3>4. QED
      BY <3>1, <3>2, <3>3, DeliveryFrame DEF ApiInv, Exit
  <2>3. QED
    BY <2>1, <2>2
<1>3. KeySound'
  BY ApiActorsApart DEF ApiInv, ApiTypeOK, DeliveryShape, KeySound, Exit, Goto
<1>4. IngestedOnce'
  BY ApiActorsApart, WebhookApiAssumption, NoNewPass
     DEF ApiInv, ApiTypeOK, DeliveryShape, Passed, IngestedOnce, Exit, Goto, Requests
<1>5. OneCasePerProcess'
  BY ApiActorsApart DEF ApiInv, ApiTypeOK, DeliveryShape, OneCasePerProcess, CasesOf, Exit
<1>6. QED
  BY <1>1, <1>2, <1>3, <1>4, <1>5, ShapesGiveAnswers DEF ApiInv, KeySound

\* A delivery gets the event loop of its process when no other has it.
LEMMA CallWebhookKeepsApiInv ==
  ASSUME ApiInv, NEW r \in Webhooks, CallWebhook(r)
  PROVE  ApiInv'
<1>1. ApiTypeOK'
  BY ApiActorsApart
     DEF ApiInv, ApiTypeOK, CallWebhook, Goto, Requests, Holders, Answers, Events,
         Processes
<1>2. ASSUME NEW v \in Webhooks PROVE DeliveryShape(v)'
  <2>1. CASE v = r
    BY <2>1, ApiActorsApart
       DEF ApiInv, ApiTypeOK, DeliveryShape, KeySound, CallWebhook, Goto, Requests,
           CasesOf, LoopIsFree
  <2>2. CASE v # r
    BY <2>2, ApiActorsApart, DeliveryFrame
       DEF ApiInv, ApiTypeOK, DeliveryShape, KeySound, CallWebhook, Goto, Requests,
           LoopIsFree
  <2>3. QED
    BY <2>1, <2>2
<1>3. KeySound'
  BY ApiActorsApart DEF ApiInv, ApiTypeOK, DeliveryShape, KeySound, CallWebhook, Goto
<1>4. IngestedOnce'
  BY ApiActorsApart, WebhookApiAssumption, NoNewPass
     DEF ApiInv, ApiTypeOK, DeliveryShape, Passed, IngestedOnce, CallWebhook, Goto,
         Requests
<1>5. OneCasePerProcess'
  BY ApiActorsApart
     DEF ApiInv, ApiTypeOK, DeliveryShape, OneCasePerProcess, CasesOf, CallWebhook
<1>6. QED
  BY <1>1, <1>2, <1>3, <1>4, <1>5, ShapesGiveAnswers DEF ApiInv, KeySound

\* An early refusal takes neither the loop nor a key.
LEMMA RefuseEarlyKeepsApiInv ==
  ASSUME ApiInv, NEW r \in Webhooks, RefuseEarly(r)
  PROVE  ApiInv'
<1>1. ApiTypeOK'
  BY ApiActorsApart
     DEF ApiInv, ApiTypeOK, RefuseEarly, Goto, Requests, Holders, Answers, Events,
         Processes
<1>2. ASSUME NEW v \in Webhooks PROVE DeliveryShape(v)'
  <2>1. CASE v = r
    BY <2>1, ApiActorsApart
       DEF ApiInv, ApiTypeOK, DeliveryShape, KeySound, RefuseEarly, Goto, Requests,
           CasesOf, LoopIsFree
  <2>2. CASE v # r
    BY <2>2, ApiActorsApart, DeliveryFrame
       DEF ApiInv, ApiTypeOK, DeliveryShape, KeySound, RefuseEarly, Goto, Requests,
           LoopIsFree
  <2>3. QED
    BY <2>1, <2>2
<1>3. KeySound'
  BY ApiActorsApart
     DEF ApiInv, ApiTypeOK, DeliveryShape, KeySound, RefuseEarly, Goto
<1>4. IngestedOnce'
  BY ApiActorsApart, WebhookApiAssumption, NoNewPass
     DEF ApiInv, ApiTypeOK, DeliveryShape, Passed, IngestedOnce, RefuseEarly, Goto,
         Requests
<1>5. OneCasePerProcess'
  BY ApiActorsApart
     DEF ApiInv, ApiTypeOK, DeliveryShape, OneCasePerProcess, CasesOf, RefuseEarly
<1>6. QED
  BY <1>1, <1>2, <1>3, <1>4, <1>5, ShapesGiveAnswers DEF ApiInv, KeySound

\* The only step that gets past the unique key: the event is neither stored nor
\* in another open transaction, so no other delivery of it is past.
LEMMA InsertRawKeepsApiInv ==
  ASSUME ApiInv, NEW r \in Webhooks, InsertRaw(r)
  PROVE  ApiInv'
<1>1. ApiTypeOK'
  BY ApiActorsApart
     DEF ApiInv, ApiTypeOK, InsertRaw, Goto, Requests, Holders, Answers, Events,
         Processes
<1>2. ASSUME NEW v \in Webhooks PROVE DeliveryShape(v)'
  <2>1. CASE v = r
    BY <2>1, ApiActorsApart
       DEF ApiInv, ApiTypeOK, DeliveryShape, KeySound, InsertRaw, Goto, Requests,
           CasesOf, LoopIsFree
  <2>2. CASE v # r
    BY <2>2, ApiActorsApart, DeliveryFrame
       DEF ApiInv, ApiTypeOK, DeliveryShape, KeySound, InsertRaw, Goto, Requests,
           LoopIsFree
  <2>3. QED
    BY <2>1, <2>2
<1>3. KeySound'
  BY ApiActorsApart DEF ApiInv, ApiTypeOK, DeliveryShape, KeySound, InsertRaw, Goto
<1>4. IngestedOnce'
  BY ApiActorsApart, WebhookApiAssumption, NoNewPass
     DEF ApiInv, ApiTypeOK, DeliveryShape, Passed, IngestedOnce, InsertRaw, Goto,
         Requests
<1>5. OneCasePerProcess'
  BY ApiActorsApart
     DEF ApiInv, ApiTypeOK, DeliveryShape, OneCasePerProcess, CasesOf, InsertRaw
<1>6. QED
  BY <1>1, <1>2, <1>3, <1>4, <1>5, ShapesGiveAnswers DEF ApiInv, KeySound

\* A duplicate is answered for a stored event.
LEMMA DuplicateKeepsApiInv ==
  ASSUME ApiInv, NEW r \in Webhooks, Duplicate(r)
  PROVE  ApiInv'
<1>1. ApiTypeOK'
  BY ApiActorsApart
     DEF ApiInv, ApiTypeOK, Duplicate, Goto, Requests, Holders, Answers, Events,
         Processes, Return
<1>2. ASSUME NEW v \in Webhooks PROVE DeliveryShape(v)'
  <2>1. CASE v = r
    BY <2>1, ApiActorsApart
       DEF ApiInv, ApiTypeOK, DeliveryShape, KeySound, Duplicate, Goto, Requests,
           CasesOf, LoopIsFree, Return
  <2>2. CASE v # r
    BY <2>2, ApiActorsApart, DeliveryFrame
       DEF ApiInv, ApiTypeOK, DeliveryShape, KeySound, Duplicate, Goto, Requests,
           LoopIsFree, Return
  <2>3. QED
    BY <2>1, <2>2
<1>3. KeySound'
  BY ApiActorsApart
     DEF ApiInv, ApiTypeOK, DeliveryShape, KeySound, Duplicate, Goto, Return
<1>4. IngestedOnce'
  BY ApiActorsApart, WebhookApiAssumption, NoNewPass
     DEF ApiInv, ApiTypeOK, DeliveryShape, Passed, IngestedOnce, Duplicate, Goto,
         Requests, Return
<1>5. OneCasePerProcess'
  BY ApiActorsApart
     DEF ApiInv, ApiTypeOK, DeliveryShape, OneCasePerProcess, CasesOf, Duplicate, Return
<1>6. QED
  BY <1>1, <1>2, <1>3, <1>4, <1>5, ShapesGiveAnswers DEF ApiInv, KeySound

\* A delivery that is not ingested keeps its key until the exit of get_db.
LEMMA NotIngestedKeepsApiInv ==
  ASSUME ApiInv, NEW r \in Webhooks, NotIngested(r)
  PROVE  ApiInv'
<1>1. ApiTypeOK'
  BY ApiActorsApart
     DEF ApiInv, ApiTypeOK, NotIngested, Goto, Requests, Holders, Answers, Events,
         Processes, Return
<1>2. ASSUME NEW v \in Webhooks PROVE DeliveryShape(v)'
  <2>1. CASE v = r
    BY <2>1, ApiActorsApart
       DEF ApiInv, ApiTypeOK, DeliveryShape, KeySound, NotIngested, Goto, Requests,
           CasesOf, LoopIsFree, Return
  <2>2. CASE v # r
    BY <2>2, ApiActorsApart, DeliveryFrame
       DEF ApiInv, ApiTypeOK, DeliveryShape, KeySound, NotIngested, Goto, Requests,
           LoopIsFree, Return
  <2>3. QED
    BY <2>1, <2>2
<1>3. KeySound'
  BY ApiActorsApart
     DEF ApiInv, ApiTypeOK, DeliveryShape, KeySound, NotIngested, Goto, Return
<1>4. IngestedOnce'
  BY ApiActorsApart, WebhookApiAssumption, NoNewPass
     DEF ApiInv, ApiTypeOK, DeliveryShape, Passed, IngestedOnce, NotIngested, Goto,
         Requests, Return
<1>5. OneCasePerProcess'
  BY ApiActorsApart
     DEF ApiInv, ApiTypeOK, DeliveryShape, OneCasePerProcess, CasesOf, NotIngested,
         Return
<1>6. QED
  BY <1>1, <1>2, <1>3, <1>4, <1>5, ShapesGiveAnswers DEF ApiInv, KeySound

\* A search that finds nothing means that this process has no case for the payment.
LEMMA MatchKeepsApiInv ==
  ASSUME ApiInv, NEW r \in Webhooks, Match(r)
  PROVE  ApiInv'
<1>1. ApiTypeOK'
  BY ApiActorsApart
     DEF ApiInv, ApiTypeOK, Match, Goto, Requests, Holders, Answers, Events, Processes,
         CasesOf
<1>2. ASSUME NEW v \in Webhooks PROVE DeliveryShape(v)'
  <2>1. CASE v = r
    BY <2>1, ApiActorsApart
       DEF ApiInv, ApiTypeOK, DeliveryShape, KeySound, Match, Goto, Requests, CasesOf,
           LoopIsFree
  <2>2. CASE v # r
    BY <2>2, ApiActorsApart, DeliveryFrame
       DEF ApiInv, ApiTypeOK, DeliveryShape, KeySound, Match, Goto, Requests, LoopIsFree
  <2>3. QED
    BY <2>1, <2>2
<1>3. KeySound'
  BY ApiActorsApart DEF ApiInv, ApiTypeOK, DeliveryShape, KeySound, Match, Goto
<1>4. IngestedOnce'
  BY ApiActorsApart, WebhookApiAssumption, NoNewPass
     DEF ApiInv, ApiTypeOK, DeliveryShape, Passed, IngestedOnce, Match, Goto, Requests
<1>5. OneCasePerProcess'
  BY ApiActorsApart
     DEF ApiInv, ApiTypeOK, DeliveryShape, OneCasePerProcess, CasesOf, Match
<1>6. QED
  BY <1>1, <1>2, <1>3, <1>4, <1>5, ShapesGiveAnswers DEF ApiInv, KeySound

\* The new case is the process's first for the payment, because no other handler
\* of this process ran since the search.
LEMMA StoreKeepsApiInv ==
  ASSUME ApiInv, NEW r \in Webhooks, Store(r)
  PROVE  ApiInv'
<1>1. ApiTypeOK'
  BY ApiActorsApart
     DEF ApiInv, ApiTypeOK, DeliveryShape, Store, Goto, Requests, Holders, Answers,
         Events, Processes, CasesOf
<1>2. ASSUME NEW v \in Webhooks PROVE DeliveryShape(v)'
  <2>1. CASE v = r
    BY <2>1, ApiActorsApart
       DEF ApiInv, ApiTypeOK, DeliveryShape, KeySound, Store, Goto, Requests, CasesOf,
           LoopIsFree
  <2>2. CASE v # r
    BY <2>2, ApiActorsApart, DeliveryFrame
       DEF ApiInv, ApiTypeOK, DeliveryShape, KeySound, Store, Goto, Requests, LoopIsFree
  <2>3. QED
    BY <2>1, <2>2
<1>3. KeySound'
  BY ApiActorsApart DEF ApiInv, ApiTypeOK, DeliveryShape, KeySound, Store, Goto
<1>4. IngestedOnce'
  BY ApiActorsApart, WebhookApiAssumption, NoNewPass
     DEF ApiInv, ApiTypeOK, DeliveryShape, Passed, IngestedOnce, Store, Goto, Requests
<1>5. OneCasePerProcess'
  BY ApiActorsApart
     DEF ApiInv, ApiTypeOK, DeliveryShape, OneCasePerProcess, CasesOf, Store
<1>6. QED
  BY <1>1, <1>2, <1>3, <1>4, <1>5, ShapesGiveAnswers DEF ApiInv, KeySound

\* The event was stored before it was published.
LEMMA PublishKeepsApiInv ==
  ASSUME ApiInv, NEW r \in Webhooks, Publish(r)
  PROVE  ApiInv'
<1>1. ApiTypeOK'
  BY ApiActorsApart
     DEF ApiInv, ApiTypeOK, Publish, Goto, Requests, Holders, Answers, Events,
         Processes, Return
<1>2. ASSUME NEW v \in Webhooks PROVE DeliveryShape(v)'
  <2>1. CASE v = r
    BY <2>1, ApiActorsApart
       DEF ApiInv, ApiTypeOK, DeliveryShape, KeySound, Publish, Goto, Requests, CasesOf,
           LoopIsFree, Return
  <2>2. CASE v # r
    BY <2>2, ApiActorsApart, DeliveryFrame
       DEF ApiInv, ApiTypeOK, DeliveryShape, KeySound, Publish, Goto, Requests,
           LoopIsFree, Return
  <2>3. QED
    BY <2>1, <2>2
<1>3. KeySound'
  BY ApiActorsApart DEF ApiInv, ApiTypeOK, DeliveryShape, KeySound, Publish, Goto, Return
<1>4. IngestedOnce'
  BY ApiActorsApart, WebhookApiAssumption, NoNewPass
     DEF ApiInv, ApiTypeOK, DeliveryShape, Passed, IngestedOnce, Publish, Goto,
         Requests, Return
<1>5. OneCasePerProcess'
  BY ApiActorsApart
     DEF ApiInv, ApiTypeOK, DeliveryShape, OneCasePerProcess, CasesOf, Publish, Return
<1>6. QED
  BY <1>1, <1>2, <1>3, <1>4, <1>5, ShapesGiveAnswers DEF ApiInv, KeySound

\* A review moves no delivery.
LEMMA CallReviewKeepsApiInv ==
  ASSUME ApiInv, NEW r \in Reviews, CallReview(r)
  PROVE  ApiInv'
<1>1. ApiTypeOK'
  BY ApiActorsApart
     DEF ApiInv, ApiTypeOK, CallReview, Goto, Requests, Holders, Answers, Events,
         Processes
<1>2. ASSUME NEW v \in Webhooks PROVE DeliveryShape(v)'
  <2>1. CASE v = r
    BY <2>1, ApiActorsApart
       DEF ApiInv, ApiTypeOK, DeliveryShape, KeySound, CallReview, Goto, Requests,
           CasesOf, LoopIsFree
  <2>2. CASE v # r
    BY <2>2, ApiActorsApart, DeliveryFrame
       DEF ApiInv, ApiTypeOK, DeliveryShape, KeySound, CallReview, Goto, Requests,
           LoopIsFree
  <2>3. QED
    BY <2>1, <2>2
<1>3. KeySound'
  BY ApiActorsApart DEF ApiInv, ApiTypeOK, DeliveryShape, KeySound, CallReview, Goto
<1>4. IngestedOnce'
  BY ApiActorsApart, WebhookApiAssumption, NoNewPass
     DEF ApiInv, ApiTypeOK, DeliveryShape, Passed, IngestedOnce, CallReview, Goto,
         Requests
<1>5. OneCasePerProcess'
  BY ApiActorsApart
     DEF ApiInv, ApiTypeOK, DeliveryShape, OneCasePerProcess, CasesOf, CallReview
<1>6. QED
  BY <1>1, <1>2, <1>3, <1>4, <1>5, ShapesGiveAnswers DEF ApiInv, KeySound

\* A refused review moves no delivery.
LEMMA RefuseReviewKeepsApiInv ==
  ASSUME ApiInv, NEW r \in Reviews, RefuseReview(r)
  PROVE  ApiInv'
<1>1. ApiTypeOK'
  BY ApiActorsApart
     DEF ApiInv, ApiTypeOK, RefuseReview, Goto, Requests, Holders, Answers, Events,
         Processes
<1>2. ASSUME NEW v \in Webhooks PROVE DeliveryShape(v)'
  <2>1. CASE v = r
    BY <2>1, ApiActorsApart
       DEF ApiInv, ApiTypeOK, DeliveryShape, KeySound, RefuseReview, Goto, Requests,
           CasesOf, LoopIsFree
  <2>2. CASE v # r
    BY <2>2, ApiActorsApart, DeliveryFrame
       DEF ApiInv, ApiTypeOK, DeliveryShape, KeySound, RefuseReview, Goto, Requests,
           LoopIsFree
  <2>3. QED
    BY <2>1, <2>2
<1>3. KeySound'
  BY ApiActorsApart DEF ApiInv, ApiTypeOK, DeliveryShape, KeySound, RefuseReview, Goto
<1>4. IngestedOnce'
  BY ApiActorsApart, WebhookApiAssumption, NoNewPass
     DEF ApiInv, ApiTypeOK, DeliveryShape, Passed, IngestedOnce, RefuseReview, Goto,
         Requests
<1>5. OneCasePerProcess'
  BY ApiActorsApart
     DEF ApiInv, ApiTypeOK, DeliveryShape, OneCasePerProcess, CasesOf, RefuseReview
<1>6. QED
  BY <1>1, <1>2, <1>3, <1>4, <1>5, ShapesGiveAnswers DEF ApiInv, KeySound

\* A review that waits for the row moves no delivery.
LEMMA BeginReviewKeepsApiInv ==
  ASSUME ApiInv, NEW r \in Reviews, BeginReview(r)
  PROVE  ApiInv'
<1>1. ApiTypeOK'
  BY ApiActorsApart
     DEF ApiInv, ApiTypeOK, BeginReview, Goto, Requests, Holders, Answers, Events,
         Processes
<1>2. ASSUME NEW v \in Webhooks PROVE DeliveryShape(v)'
  <2>1. CASE v = r
    BY <2>1, ApiActorsApart
       DEF ApiInv, ApiTypeOK, DeliveryShape, KeySound, BeginReview, Goto, Requests,
           CasesOf, LoopIsFree
  <2>2. CASE v # r
    BY <2>2, ApiActorsApart, DeliveryFrame
       DEF ApiInv, ApiTypeOK, DeliveryShape, KeySound, BeginReview, Goto, Requests,
           LoopIsFree
  <2>3. QED
    BY <2>1, <2>2
<1>3. KeySound'
  BY ApiActorsApart DEF ApiInv, ApiTypeOK, DeliveryShape, KeySound, BeginReview, Goto
<1>4. IngestedOnce'
  BY ApiActorsApart, WebhookApiAssumption, NoNewPass
     DEF ApiInv, ApiTypeOK, DeliveryShape, Passed, IngestedOnce, BeginReview, Goto,
         Requests
<1>5. OneCasePerProcess'
  BY ApiActorsApart
     DEF ApiInv, ApiTypeOK, DeliveryShape, OneCasePerProcess, CasesOf, BeginReview
<1>6. QED
  BY <1>1, <1>2, <1>3, <1>4, <1>5, ShapesGiveAnswers DEF ApiInv, KeySound

\* The row of a case is nothing a delivery's shape depends on.
LEMMA TakeRowKeepsApiInv ==
  ASSUME ApiInv, NEW r \in Holders, TakeRow(r)
  PROVE  ApiInv'
<1>1. ApiTypeOK'
  BY ApiActorsApart
     DEF ApiInv, ApiTypeOK, TakeRow, Goto, Requests, Holders, Answers, Events,
         Processes, CasesOf
<1>2. ASSUME NEW v \in Webhooks PROVE DeliveryShape(v)'
  <2>1. CASE v = r
    BY <2>1, ApiActorsApart DEF Holders
  <2>2. CASE v # r
    BY <2>2, ApiActorsApart, DeliveryFrame
       DEF ApiInv, ApiTypeOK, DeliveryShape, KeySound, TakeRow, Goto, Requests, LoopIsFree
  <2>3. QED
    BY <2>1, <2>2
<1>3. KeySound'
  BY ApiActorsApart DEF ApiInv, ApiTypeOK, DeliveryShape, KeySound, TakeRow, Goto
<1>4. IngestedOnce'
  BY ApiActorsApart, WebhookApiAssumption, NoNewPass
     DEF ApiInv, ApiTypeOK, DeliveryShape, Passed, IngestedOnce, TakeRow, Goto, Requests
<1>5. OneCasePerProcess'
  BY ApiActorsApart
     DEF ApiInv, ApiTypeOK, DeliveryShape, OneCasePerProcess, CasesOf, TakeRow
<1>6. QED
  BY <1>1, <1>2, <1>3, <1>4, <1>5, ShapesGiveAnswers DEF ApiInv, KeySound

\* A review that returns moves no delivery.
LEMMA EndReviewKeepsApiInv ==
  ASSUME ApiInv, NEW r \in Reviews, EndReview(r)
  PROVE  ApiInv'
<1>1. ApiTypeOK'
  BY ApiActorsApart
     DEF ApiInv, ApiTypeOK, EndReview, Goto, Requests, Holders, Answers, Events,
         Processes
<1>2. ASSUME NEW v \in Webhooks PROVE DeliveryShape(v)'
  <2>1. CASE v = r
    BY <2>1, ApiActorsApart
       DEF ApiInv, ApiTypeOK, DeliveryShape, KeySound, EndReview, Goto, Requests,
           CasesOf, LoopIsFree
  <2>2. CASE v # r
    BY <2>2, ApiActorsApart, DeliveryFrame
       DEF ApiInv, ApiTypeOK, DeliveryShape, KeySound, EndReview, Goto, Requests,
           LoopIsFree
  <2>3. QED
    BY <2>1, <2>2
<1>3. KeySound'
  BY ApiActorsApart DEF ApiInv, ApiTypeOK, DeliveryShape, KeySound, EndReview, Goto
<1>4. IngestedOnce'
  BY ApiActorsApart, WebhookApiAssumption, NoNewPass
     DEF ApiInv, ApiTypeOK, DeliveryShape, Passed, IngestedOnce, EndReview, Goto,
         Requests
<1>5. OneCasePerProcess'
  BY ApiActorsApart
     DEF ApiInv, ApiTypeOK, DeliveryShape, OneCasePerProcess, CasesOf, EndReview
<1>6. QED
  BY <1>1, <1>2, <1>3, <1>4, <1>5, ShapesGiveAnswers DEF ApiInv, KeySound

\* A worker that gives the row back moves no delivery.
LEMMA WorkerEndsKeepsApiInv ==
  ASSUME ApiInv, NEW r \in Workers, WorkerEnds(r)
  PROVE  ApiInv'
<1>1. ApiTypeOK'
  BY ApiActorsApart
     DEF ApiInv, ApiTypeOK, WorkerEnds, Goto, Requests, Holders, Answers, Events,
         Processes
<1>2. ASSUME NEW v \in Webhooks PROVE DeliveryShape(v)'
  <2>1. CASE v = r
    BY <2>1, ApiActorsApart
       DEF ApiInv, ApiTypeOK, DeliveryShape, KeySound, WorkerEnds, Goto, Requests,
           CasesOf, LoopIsFree
  <2>2. CASE v # r
    BY <2>2, ApiActorsApart, DeliveryFrame
       DEF ApiInv, ApiTypeOK, DeliveryShape, KeySound, WorkerEnds, Goto, Requests,
           LoopIsFree
  <2>3. QED
    BY <2>1, <2>2
<1>3. KeySound'
  BY ApiActorsApart DEF ApiInv, ApiTypeOK, DeliveryShape, KeySound, WorkerEnds, Goto
<1>4. IngestedOnce'
  BY ApiActorsApart, WebhookApiAssumption, NoNewPass
     DEF ApiInv, ApiTypeOK, DeliveryShape, Passed, IngestedOnce, WorkerEnds, Goto,
         Requests
<1>5. OneCasePerProcess'
  BY ApiActorsApart
     DEF ApiInv, ApiTypeOK, DeliveryShape, OneCasePerProcess, CasesOf, WorkerEnds
<1>6. QED
  BY <1>1, <1>2, <1>3, <1>4, <1>5, ShapesGiveAnswers DEF ApiInv, KeySound

\* Every step keeps the invariant.
LEMMA NextKeepsApiInv ==
  ASSUME ApiInv, [ApiNext]_apiVars
  PROVE  ApiInv'
<1>1. ASSUME NEW r \in Requests, Step(r)
      PROVE  ApiInv'
  BY <1>1, AcceptKeepsApiInv, ExitKeepsApiInv, CallWebhookKeepsApiInv,
     RefuseEarlyKeepsApiInv,
     InsertRawKeepsApiInv, DuplicateKeepsApiInv, NotIngestedKeepsApiInv, MatchKeepsApiInv,
     StoreKeepsApiInv, PublishKeepsApiInv, CallReviewKeepsApiInv, RefuseReviewKeepsApiInv,
     BeginReviewKeepsApiInv, TakeRowKeepsApiInv, EndReviewKeepsApiInv
     DEF Step, Ingest, Review, Holders
<1>2. ASSUME NEW x \in Workers, TakeRow(x) \/ WorkerEnds(x)
      PROVE  ApiInv'
  BY <1>2, TakeRowKeepsApiInv, WorkerEndsKeepsApiInv DEF Holders
<1>3. CASE UNCHANGED apiVars
  <2>1. ApiTypeOK' /\ KeySound'
    BY <1>3 DEF ApiInv, ApiTypeOK, KeySound, apiVars
  <2>2. ASSUME NEW v \in Webhooks PROVE DeliveryShape(v)'
    BY <1>3, DeliveryFrame DEF ApiInv, apiVars
  <2>3. IngestedOnce' /\ OneCasePerProcess'
    BY <1>3 DEF ApiInv, IngestedOnce, Passed, OneCasePerProcess, apiVars
  <2>4. QED
    BY <2>1, <2>2, <2>3, ShapesGiveAnswers DEF ApiInv, KeySound
<1>4. QED
  BY <1>1, <1>2, <1>3 DEF ApiNext

\* The inductive invariant holds in every reachable state.
THEOREM SpecApiInv == ApiSpec => []ApiInv
BY InitApiInv, NextKeepsApiInv, PTL DEF ApiSpec

\* Of all deliveries of an event at most one gets past the unique key, at any
\* number of processes.
THEOREM EventsAreIngestedOnce == ApiSpec => []IngestedOnce
<1>1. ApiInv => IngestedOnce
  BY DEF ApiInv
<1>2. QED
  BY <1>1, SpecApiInv, PTL

\* "duplicate" is answered for stored events only, so no event is lost to a
\* concurrent delivery whose transaction fails.
THEOREM DuplicatesAreStored == ApiSpec => []DuplicateIsStored
<1>1. ApiInv => DuplicateIsStored
  BY DEF ApiInv
<1>2. QED
  BY <1>1, SpecApiInv, PTL

\* A delivery that was answered with success is durable.
THEOREM AcknowledgedAreStored == ApiSpec => []AcknowledgedIsStored
<1>1. ApiInv => AcknowledgedIsStored
  BY DEF ApiInv
<1>2. QED
  BY <1>1, SpecApiInv, PTL

\* A process never opens two cases for one payment.
THEOREM ProcessesOpenOneCase == ApiSpec => []OneCasePerProcess
<1>1. ApiInv => OneCasePerProcess
  BY DEF ApiInv
<1>2. QED
  BY <1>1, SpecApiInv, PTL

\* With one API process every payment has one case.  With two it may get two:
\* the run TwoProcesses shows it.
THEOREM OneProcessOneCase ==
  ASSUME \A v, w \in Webhooks : home[v] = home[w]
  PROVE  ApiSpec => []OneCasePerPayment
<1>1. ApiInv => OneCasePerPayment
  BY DEF ApiInv, ApiTypeOK, OneCasePerProcess, OneCasePerPayment
<1>2. QED
  BY <1>1, SpecApiInv, PTL

\* Every variable of WebhookApi keeps its type; in particular only deliveries
\* are ever on an event loop.
THEOREM ApiTypesHold == ApiSpec => []ApiTypeOK
<1>1. ApiInv => ApiTypeOK
  BY DEF ApiInv
<1>2. QED
  BY <1>1, SpecApiInv, PTL

-----------------------------------------------------------------------------
(* WebhookApi implements EventIntake.                                      *)

\* A delivery has matched a case of its payment, and returns one of the answers
\* of its own endpoint.
DeliveriesAreTrue ==
  \A w \in Webhooks :
    /\ pc[w] = "matched" => paymentOf[matched[w]] = paymentOf[w]
    /\ pc[w] = "returned" =>
         answer[w] \in { "processed", "duplicate", "unrecognized", "refused", "error" }

LEMMA DeliveriesAreTrueStep ==
  ASSUME ApiInv, DeliveriesAreTrue, [ApiNext]_apiVars
  PROVE  DeliveriesAreTrue'
<1> SUFFICES ASSUME NEW w \in Webhooks
             PROVE  /\ pc'[w] = "matched" => paymentOf[matched'[w]] = paymentOf[w]
                    /\ pc'[w] = "returned" =>
                         answer'[w] \in { "processed", "duplicate", "unrecognized", "refused", "error" }
  BY DEF DeliveriesAreTrue
<1> USE ApiActorsApart
<1>1. ASSUME pc'[w] = pc[w], matched'[w] = matched[w], answer'[w] = answer[w]
      PROVE  /\ pc'[w] = "matched" => paymentOf[matched'[w]] = paymentOf[w]
             /\ pc'[w] = "returned" =>
                  answer'[w] \in { "processed", "duplicate", "unrecognized", "refused", "error" }
  BY <1>1 DEF DeliveriesAreTrue
<1>2. CASE Match(w)
  <2>1. pc'[w] = "matched" /\ paymentOf[matched'[w]] = paymentOf[w]
    BY <1>2 DEF Match, CasesOf, Goto, ApiInv, ApiTypeOK, Requests
  <2> QED BY <2>1
<1>3. CASE RefuseEarly(w) \/ Duplicate(w) \/ NotIngested(w) \/ Publish(w)
  <2>1. /\ pc'[w] = "returned"
        /\ answer'[w] \in { "processed", "duplicate", "unrecognized", "refused", "error" }
    BY <1>3 DEF RefuseEarly, Duplicate, NotIngested, Publish, Return, Goto, ApiInv, ApiTypeOK, Requests
  <2> QED BY <2>1
<1>4. CASE Accept(w) \/ Exit(w) \/ CallWebhook(w) \/ InsertRaw(w) \/ Store(w)
  <2>1. pc'[w] \notin { "matched", "returned" }
    BY <1>4 DEF Accept, Exit, CallWebhook, InsertRaw, Store, Goto, ApiInv, ApiTypeOK, Requests
  <2> QED BY <2>1
<1>5. ASSUME NEW r \in Requests, r # w, Step(r)
      PROVE  pc'[w] = pc[w] /\ matched'[w] = matched[w] /\ answer'[w] = answer[w]
  BY <1>5 DEF Step, Ingest, Review, Accept, Exit, CallWebhook, RefuseEarly, InsertRaw, Duplicate,
    NotIngested, Match, Store, Publish, CallReview, RefuseReview, BeginReview, TakeRow, EndReview,
    Return, Goto, ApiInv, ApiTypeOK, Requests
<1>6. ASSUME NEW x \in Workers, TakeRow(x) \/ WorkerEnds(x)
      PROVE  pc'[w] = pc[w] /\ matched'[w] = matched[w] /\ answer'[w] = answer[w]
  BY <1>6 DEF TakeRow, WorkerEnds, Goto, ApiInv, ApiTypeOK, Requests
<1>7. UNCHANGED apiVars => pc'[w] = pc[w] /\ matched'[w] = matched[w] /\ answer'[w] = answer[w]
  BY DEF apiVars
<1>8. w \in Requests /\ w \notin Reviews
  BY DEF Requests
<1> QED BY <1>1, <1>2, <1>3, <1>4, <1>5, <1>6, <1>7, <1>8 DEF ApiNext, Step, Ingest

\* What is neither taken in nor answered, before and after a step, shows nothing
\* of it to the provider.
Hidden(p, a, w) ==
  p[w] # "publishing" /\ p[w] # "answered" /\ (p[w] = "returned" => a[w] # "processed")

LEMMA HiddenSteps ==
  ASSUME NEW w,
         \A v \in Webhooks \ {w} : pc'[v] = pc[v] /\ answer'[v] = answer[v],
         w \in Webhooks => Hidden(pc, answer, w) /\ Hidden(pc', answer', w)
  PROVE  UNCHANGED <<Accepted, Replies>>
<1>1. \A v \in Webhooks : v \in Accepted' <=> v \in Accepted
  BY DEF Accepted, Hidden
<1>2. \A v \in Webhooks :
        (IF pc'[v] = "answered" THEN answer'[v] ELSE None) = (IF pc[v] = "answered" THEN answer[v] ELSE None)
  BY DEF Hidden
<1>3. Accepted' = Accepted
  BY <1>1 DEF Accepted
<1>4. Replies' = Replies
  BY <1>2 DEF Replies
<1> QED BY <1>3, <1>4

\* A step of w is a step of no other delivery.
LEMMA OthersStay ==
  ASSUME ApiInv, NEW w \in Webhooks, Step(w)
  PROVE  \A v \in Webhooks \ {w} : pc'[v] = pc[v] /\ answer'[v] = answer[v]
BY ApiActorsApart DEF Step, Ingest, Accept, Exit, CallWebhook, RefuseEarly, InsertRaw, Duplicate,
  NotIngested, Match, Store, Publish, Return, Goto, ApiInv, ApiTypeOK, Requests

\* The commit of Store is TakeIn: its key makes it the only delivery of the event,
\* and its event loop the only one of its process that may open a case.
LEMMA StoreTakesIn ==
  ASSUME ApiInv, DeliveriesAreTrue, NEW w \in Webhooks, Store(w)
  PROVE  Intake!TakeIn(w)
<1> USE ApiActorsApart
<1>1. /\ DeliveryShape(w) /\ pc[w] = "matched" /\ answer[w] = None
      /\ w \in Requests
  BY DEF ApiInv, ApiTypeOK, DeliveryShape, Store, Requests
<1>2. pc'[w] = "publishing" /\ \A v \in Webhooks \ {w} : pc'[v] = pc[v]
  BY <1>1 DEF Store, Goto, ApiInv, ApiTypeOK
<1>3. eventOf[w] \notin stored
  BY <1>1 DEF DeliveryShape, ApiInv
<1>4. stored' = stored \cup { eventOf[w] } /\ cases' = cases \cup { matched[w] } /\ answer' = answer
  BY DEF Store
<1>5. /\ matched[w] \in cases \cup { w } /\ paymentOf[matched[w]] = paymentOf[w]
      /\ matched[w] \notin cases =>
           \A d \in cases : paymentOf[d] = paymentOf[w] => home[d] # home[w]
  BY <1>1 DEF DeliveriesAreTrue, DeliveryShape, CasesOf
<1>6. Accepted' = Accepted \cup { w }
  BY <1>2, <1>4 DEF Accepted
<1>7. Replies' = Replies
  BY <1>1, <1>2, <1>4 DEF Replies
<1> QED BY <1>3, <1>4, <1>5, <1>6, <1>7 DEF Intake!TakeIn

LEMMA PublishIsHiddenOrLost ==
  ASSUME ApiInv, NEW w \in Webhooks, Publish(w)
  PROVE  Intake!LosePublish(w) \/ UNCHANGED <<stored, cases, Accepted, Replies>>
<1> USE ApiActorsApart
<1>1. w \in Requests /\ pc[w] = "publishing" /\ UNCHANGED <<stored, cases>>
  BY DEF Publish, Requests
<1>2. /\ pc'[w] = "returned" /\ answer'[w] \in { "processed", "error" }
      /\ \A v \in Webhooks \ {w} : pc'[v] = pc[v] /\ answer'[v] = answer[v]
  BY <1>1 DEF Publish, Return, Goto, ApiInv, ApiTypeOK
<1>3. Replies' = Replies
  BY <1>1, <1>2 DEF Replies
<1>4. CASE answer'[w] = "processed"
  <2>1. Accepted' = Accepted
    BY <1>1, <1>2, <1>4 DEF Accepted
  <2> QED BY <1>1, <1>3, <2>1
<1>5. CASE answer'[w] = "error"
  <2>1. Accepted' = Accepted \ { w } /\ w \in Accepted
    BY <1>1, <1>2, <1>5 DEF Accepted
  <2> QED BY <1>1, <1>3, <2>1 DEF Intake!LosePublish
<1> QED BY <1>2, <1>4, <1>5

\* The exit of get_db sends the answer, and commits what the answer says.
LEMMA ExitAnswers ==
  ASSUME ApiInv, DeliveriesAreTrue, NEW w \in Webhooks, Exit(w)
  PROVE  Intake!IntakeNext
<1> USE ApiActorsApart
<1>1. /\ w \in Requests /\ pc[w] = "returned" /\ DeliveryShape(w)
      /\ UNCHANGED <<cases, answer>>
      /\ answer[w] \in { "processed", "duplicate", "unrecognized", "refused", "error" }
  BY DEF Exit, Requests, ApiInv, DeliveriesAreTrue
<1>2. pc'[w] = "answered" /\ \A v \in Webhooks \ {w} : pc'[v] = pc[v]
  BY <1>1 DEF Exit, Goto, ApiInv, ApiTypeOK
<1>3. Intake!Answer(w, answer[w])
  <2>1. Replies[w] = None
    BY <1>1 DEF Replies
  <2>2. Replies' = [Replies EXCEPT ![w] = answer[w]]
    BY <1>1, <1>2 DEF Replies
  <2> QED BY <2>1, <2>2 DEF Intake!Answer
\* Of the keys only that of its own event may be w's.
<1>4. \A e \in Events : key[e] = w => e = eventOf[w] /\ e \notin stored
  BY DEF ApiInv
<1>5. CASE answer[w] = "processed"
  <2>1. stored' = stored
    BY <1>1, <1>4, <1>5 DEF Exit, DeliveryShape
  <2>2. w \in Accepted /\ Accepted' = Accepted \ { w }
    BY <1>1, <1>2, <1>5 DEF Accepted
  <2> QED BY <1>1, <1>3, <1>5, <2>1, <2>2 DEF Intake!AnswerProcessed, Intake!IntakeNext
<1>6. answer[w] # "processed" => w \notin Accepted /\ Accepted' = Accepted
  BY <1>1, <1>2 DEF Accepted
<1>7. CASE answer[w] = "duplicate"
  <2>1. stored' = stored /\ eventOf[w] \in stored
    BY <1>1, <1>4, <1>7 DEF Exit, DeliveryShape
  <2> QED BY <1>1, <1>3, <1>6, <1>7, <2>1 DEF Intake!AnswerDuplicate, Intake!IntakeNext
<1>8. CASE answer[w] = "unrecognized"
  <2>1. stored' = stored \cup { e \in Events : key[e] = w }
    BY <1>8 DEF Exit
  <2>2. eventOf[w] \in stored \/ key[eventOf[w]] = w
    BY <1>1, <1>8 DEF DeliveryShape
  <2>3. stored' = stored \cup { eventOf[w] }
    BY <1>4, <2>1, <2>2
  <2> QED BY <1>1, <1>3, <1>6, <1>8, <2>3 DEF Intake!AnswerUnrecognized, Intake!IntakeNext
<1>9. CASE answer[w] \in { "refused", "error" }
  <2>1. stored' = stored
    BY <1>9 DEF Exit
  <2> QED BY <1>1, <1>3, <1>6, <1>9, <2>1 DEF Intake!AnswerFailure, Intake!IntakeNext
<1> QED BY <1>1, <1>5, <1>7, <1>8, <1>9

\* All other steps of a delivery are hidden.
LEMMA OtherStepsAreHidden ==
  ASSUME ApiInv, NEW w \in Webhooks,
         Accept(w) \/ CallWebhook(w) \/ RefuseEarly(w) \/ InsertRaw(w) \/ Duplicate(w)
           \/ NotIngested(w) \/ Match(w)
  PROVE  UNCHANGED <<stored, cases, Accepted, Replies>>
<1> USE ApiActorsApart
<1>1. UNCHANGED <<stored, cases>> /\ w \in Requests
  BY DEF Accept, CallWebhook, RefuseEarly, InsertRaw, Duplicate, NotIngested, Match, Requests
<1>2. Hidden(pc, answer, w)
  BY DEF Accept, CallWebhook, RefuseEarly, InsertRaw, Duplicate, NotIngested, Match, Hidden
<1>3. Hidden(pc', answer', w)
  BY <1>1 DEF Accept, CallWebhook, RefuseEarly, InsertRaw, Duplicate, NotIngested, Match, Hidden,
    Return, Goto, ApiInv, ApiTypeOK
<1>4. \A v \in Webhooks \ {w} : pc'[v] = pc[v] /\ answer'[v] = answer[v]
  BY OthersStay DEF Step, Ingest
<1> QED BY <1>1, <1>2, <1>3, <1>4, HiddenSteps

\* So are the steps of reviews and workers, which hold no key.
LEMMA ReviewsAreHidden ==
  ASSUME ApiInv, NEW r \in Holders,
         (r \in Reviews /\ Step(r)) \/ (r \in Workers /\ (TakeRow(r) \/ WorkerEnds(r)))
  PROVE  UNCHANGED <<stored, cases, Accepted, Replies>>
<1> USE ApiActorsApart
<1>1. r \notin Webhooks
  BY DEF Holders
<1>2. \A e \in Events : key[e] # r
  BY <1>1 DEF ApiInv, ApiTypeOK, Holders
<1>3. UNCHANGED cases /\ UNCHANGED stored
  BY <1>1, <1>2 DEF Step, Review, Accept, Exit, CallReview, RefuseReview, BeginReview, TakeRow, EndReview,
    WorkerEnds
<1>4. \A v \in Webhooks \ {r} : pc'[v] = pc[v] /\ answer'[v] = answer[v]
  BY <1>1 DEF Step, Review, Accept, Exit, CallReview, RefuseReview, BeginReview, TakeRow, EndReview,
    WorkerEnds, Goto, ApiInv, ApiTypeOK, Requests
<1> QED BY <1>1, <1>3, <1>4, HiddenSteps

LEMMA NextIsIntake ==
  ASSUME ApiInv, DeliveriesAreTrue, [ApiNext]_apiVars
  PROVE  [Intake!IntakeNext]_(Intake!intakeVars)
<1>1. UNCHANGED <<stored, cases, Accepted, Replies>> => UNCHANGED Intake!intakeVars
  BY DEF Intake!intakeVars
<1>2. ASSUME NEW w \in Webhooks, Step(w)
      PROVE  [Intake!IntakeNext]_(Intake!intakeVars)
  <2>1. CASE Store(w)
    BY <2>1, StoreTakesIn DEF Intake!IntakeNext
  <2>2. CASE Publish(w)
    BY <1>1, <2>2, PublishIsHiddenOrLost DEF Intake!IntakeNext
  <2>3. CASE Exit(w)
    BY <2>3, ExitAnswers
  <2>4. CASE Accept(w) \/ CallWebhook(w) \/ RefuseEarly(w) \/ InsertRaw(w) \/ Duplicate(w)
               \/ NotIngested(w) \/ Match(w)
    BY <1>1, <2>4, OtherStepsAreHidden
  <2> QED BY <1>2, <2>1, <2>2, <2>3, <2>4, ApiActorsApart DEF Step, Ingest
<1>3. ASSUME NEW r \in Reviews, Step(r)
      PROVE  [Intake!IntakeNext]_(Intake!intakeVars)
  BY <1>1, <1>3, ReviewsAreHidden DEF Holders
<1>4. ASSUME NEW x \in Workers, TakeRow(x) \/ WorkerEnds(x)
      PROVE  [Intake!IntakeNext]_(Intake!intakeVars)
  BY <1>1, <1>4, ReviewsAreHidden DEF Holders
<1>5. CASE UNCHANGED apiVars
  BY <1>1, <1>5 DEF apiVars, Accepted, Replies
<1> QED BY <1>2, <1>3, <1>4, <1>5 DEF ApiNext, Requests

\* To the provider and the database every event is taken in by one of its
\* deliveries, in one step, and every answer is true when it is sent, for any
\* number of processes and deliveries.
THEOREM ImplementsIntake == ApiSpec => IntakeIsAtomic
<1>1. ApiInit => Intake!IntakeInit /\ DeliveriesAreTrue
  <2> SUFFICES ASSUME ApiInit PROVE Intake!IntakeInit /\ DeliveriesAreTrue
    OBVIOUS
  <2>1. \A w \in Webhooks : pc[w] = "arrived"
    BY DEF ApiInit, Requests
  <2> QED BY <2>1 DEF ApiInit, Intake!IntakeInit, DeliveriesAreTrue, Accepted, Replies
<1>2. ApiInv /\ DeliveriesAreTrue /\ [ApiNext]_apiVars =>
        DeliveriesAreTrue' /\ [Intake!IntakeNext]_(Intake!intakeVars)
  BY DeliveriesAreTrueStep, NextIsIntake
<1>3. ApiSpec => []DeliveriesAreTrue
  BY <1>1, <1>2, SpecApiInv, PTL DEF ApiSpec
<1>4. QED
  BY <1>1, <1>2, <1>3, SpecApiInv, PTL DEF ApiSpec, IntakeIsAtomic, Intake!IntakeSpec

-----------------------------------------------------------------------------
(* Served apart, the requests never wait in a circle.                      *)

\* Who keeps an event loop or a case's row: a webhook of that process, and a
\* review in its endpoint or on its way out.  A review only waits for a row that
\* exists.
WaitSound ==
  /\ \A p \in Processes : loop[p] # None => home[loop[p]] = p
  /\ \A r \in Reviews : pc[r] \notin { "running", "inserted", "matched", "publishing" }
  /\ \A c \in Webhooks, r \in Reviews : row[c] = r => pc[r] \in { "holding", "returned" }
  /\ \A r \in Reviews : pc[r] = "waiting" => CasesOf(r) # {}

LEMMA WaitSoundInit == ApiInit => WaitSound
<1> SUFFICES ASSUME ApiInit PROVE WaitSound
  OBVIOUS
<1> QED BY ApiActorsApart DEF ApiInit, WaitSound, Requests

\* A webhook's step touches no review and no row; it may take or leave its own loop.
LEMMA WebhookKeepsWaitSound ==
  ASSUME ApiInv, WaitSound, NEW w \in Webhooks, Step(w)
  PROVE  WaitSound'
<1> USE ApiActorsApart
<1>1. w \in Requests /\ w \notin Reviews
  BY DEF Requests
<1>2. \A r \in Reviews : pc'[r] = pc[r]
  BY <1>1 DEF Step, Ingest, Accept, Exit, CallWebhook, RefuseEarly, InsertRaw, Duplicate,
    NotIngested, Match, Store, Publish, Return, Goto, ApiInv, ApiTypeOK, Requests
<1>3. \A c \in Webhooks, r \in Reviews : row'[c] = r => row[c] = r
  BY <1>1 DEF Step, Ingest, Accept, Exit, CallWebhook, RefuseEarly, InsertRaw, Duplicate,
    NotIngested, Match, Store, Publish, Return, ApiInv, ApiTypeOK
<1>4. \A p \in Processes : loop'[p] # None => loop'[p] = loop[p] \/ (p = home[w] /\ loop'[p] = w)
  BY <1>1 DEF Step, Ingest, Accept, Exit, CallWebhook, RefuseEarly, InsertRaw, Duplicate,
    NotIngested, Match, Store, Publish, Return, ApiInv, ApiTypeOK
<1>5. cases \subseteq cases'
  BY <1>1 DEF Step, Ingest, Accept, Exit, CallWebhook, RefuseEarly, InsertRaw, Duplicate,
    NotIngested, Match, Store, Publish
<1> QED BY <1>2, <1>3, <1>4, <1>5 DEF WaitSound, CasesOf

\* A review or a worker that has a row is in its endpoint or on its way out.
LEMMA HolderKeepsWaitSound ==
  ASSUME ApiInv, WaitSound, NEW x \in Holders,
         (x \in Reviews /\ Step(x)) \/ (x \in Workers /\ (TakeRow(x) \/ WorkerEnds(x)))
  PROVE  WaitSound'
<1> USE ApiActorsApart
<1>1. x \notin Webhooks /\ x \in DOMAIN pc
  BY DEF Holders, ApiInv, ApiTypeOK, Requests
<1>2. UNCHANGED loop /\ UNCHANGED cases
  BY <1>1 DEF Step, Review, Accept, Exit, CallReview, RefuseReview, BeginReview, TakeRow,
    EndReview, WorkerEnds
<1>3. ASSUME NEW r \in Reviews, r # x
      PROVE  pc'[r] = pc[r] /\ \A c \in Webhooks : row'[c] = r => row[c] = r
  <2>1. pc'[r] = pc[r]
    <3>1. \E label : Goto(x, label)
      BY <1>1 DEF Step, Review, Accept, Exit, CallReview, RefuseReview, BeginReview, TakeRow,
        EndReview, WorkerEnds
    <3> QED BY <1>3, <3>1 DEF Goto, ApiInv, ApiTypeOK, Requests
  <2>2. CASE TakeRow(x)
    BY <1>3, <2>1, <2>2 DEF TakeRow, ApiInv, ApiTypeOK
  <2>3. CASE Exit(x) \/ WorkerEnds(x)
    BY <1>3, <2>1, <2>3, ApiActorsApart DEF Exit, WorkerEnds
  <2>4. CASE UNCHANGED row
    BY <2>1, <2>4
  <2> QED BY <1>1, <2>1, <2>2, <2>3, <2>4
    DEF Step, Review, Accept, CallReview, RefuseReview, BeginReview, EndReview
<1>4. ASSUME x \in Reviews
      PROVE  /\ pc'[x] \notin { "running", "inserted", "matched", "publishing" }
             /\ \A c \in Webhooks : row'[c] = x => pc'[x] \in { "holding", "returned" }
             /\ pc'[x] = "waiting" => CasesOf(x) # {}
  <2>1. CASE TakeRow(x) \/ EndReview(x)
    BY <1>1, <2>1 DEF TakeRow, EndReview, Goto, ApiInv, ApiTypeOK
  <2>2. CASE Exit(x)
    BY <1>1, <1>4, <2>2 DEF Exit, Goto, ApiInv, ApiTypeOK
  <2>3. CASE Accept(x) \/ CallReview(x) \/ RefuseReview(x) \/ BeginReview(x)
    <3>1. \A c \in Webhooks : row'[c] = row[c] /\ row[c] # x
      BY <1>4, <2>3 DEF Accept, CallReview, RefuseReview, BeginReview, WaitSound
    <3>2. /\ pc'[x] \notin { "running", "inserted", "matched", "publishing" }
          /\ pc'[x] = "waiting" => CasesOf(x) # {}
      BY <1>1, <2>3 DEF Accept, CallReview, RefuseReview, BeginReview, Goto, ApiInv, ApiTypeOK
    <3> QED BY <3>1, <3>2
  <2> QED BY <1>1, <1>4, <2>1, <2>2, <2>3 DEF Step, Review
<1> QED BY <1>2, <1>3, <1>4 DEF WaitSound, CasesOf

LEMMA WaitSoundStep ==
  ASSUME ApiInv, WaitSound, [ApiNext]_apiVars
  PROVE  WaitSound'
<1>1. UNCHANGED apiVars => WaitSound'
  BY DEF WaitSound, CasesOf, apiVars
<1> QED BY <1>1, WebhookKeepsWaitSound, HolderKeepsWaitSound DEF ApiNext, Requests, Holders

\* No review that has begun is in a circle: nobody's handler runs on the loops of its process,
\* so it waits for rows of other reviews at most, which wait for nobody.
LEMMA NoReviewInCircle ==
  ASSUME ServedApart, ApiInv, WaitSound,
         NEW S \in SUBSET Requests, \A q \in S : WaitsFor(q, S)
  PROVE  \A r \in Reviews \cap S : pc[r] = "arrived"
<1> USE ApiActorsApart
\* Who is on an event loop is a delivery that has begun.
<1>1. ASSUME NEW r \in Reviews, pc[r] # "arrived" PROVE loop[home[r]] = None
  <2> DEFINE v == loop[home[r]]
  <2>1. home[r] \in Processes
    BY DEF Requests
  <2>2. v \in Webhooks \cup {None}
    BY <2>1 DEF ApiInv, ApiTypeOK
  <2>3. SUFFICES ASSUME v # None PROVE FALSE
    OBVIOUS
  <2>4. home[v] = home[r] /\ loop[home[v]] = v
    BY <2>1, <2>3 DEF WaitSound
  <2>5. v \in Webhooks /\ pc[v] \in { "running", "inserted", "matched", "publishing" }
    BY <2>2, <2>3, <2>4 DEF ApiInv, DeliveryShape
  <2>6. v \in Webhooks \cap Begun /\ r \in Reviews \cap Begun
    BY <1>1, <2>5 DEF Begun, Requests
  <2> HIDE DEF v
  <2> QED BY <2>4, <2>6 DEF ServedApart
<1>2. None \notin S
  BY WebhookApiAssumption
<1>3. \A r \in Reviews \cap S : pc[r] \in { "arrived", "waiting" }
  BY <1>1, <1>2 DEF WaitsFor, WaitSound
<1>4. \A c \in Webhooks : row[c] \notin S
  <2>1. SUFFICES ASSUME NEW c \in Webhooks, row[c] \in S PROVE FALSE
    OBVIOUS
  <2>2. row[c] \in Reviews
    BY <1>2, <2>1 DEF ApiInv, ApiTypeOK, Holders, Requests
  <2> QED BY <1>3, <2>1, <2>2 DEF WaitSound
<1>5. SUFFICES ASSUME NEW r \in Reviews, r \in S, pc[r] # "arrived" PROVE FALSE
  OBVIOUS
<1>6. pc[r] = "waiting" /\ \A c \in CasesOf(r) : row[c] \in S
  BY <1>3, <1>5 DEF WaitsFor
<1> QED BY <1>4, <1>5, <1>6 DEF WaitSound, CasesOf, ApiInv, ApiTypeOK

\* Whoever waits in a circle waits for an event's key, or for the event loop of its
\* process: nobody in a circle has a case's row.
LEMMA CircleIsOfKeys ==
  ASSUME ServedApart, ApiInv, WaitSound,
         NEW S \in SUBSET Requests, \A q \in S : WaitsFor(q, S),
         NEW w \in S
  PROVE  \/ /\ w \in Webhooks /\ pc[w] = "running" /\ key[eventOf[w]] \in S
            /\ key[eventOf[w]] # w /\ eventOf[key[eventOf[w]]] = eventOf[w]
         \/ pc[w] \in { "arrived", "opened", "returned" } /\ loop[home[w]] \in S
<1> USE ApiActorsApart
<1>1. \A r \in Reviews \cap S : pc[r] = "arrived"
  BY NoReviewInCircle
<1>2. CASE w \in Reviews
  BY <1>1, <1>2 DEF WaitsFor
<1>3. CASE w \in Webhooks
  <2>1. DeliveryShape(w) /\ WaitsFor(w, S)
    BY <1>3 DEF ApiInv
  <2>2. pc[w] # "matched"
    <3>1. SUFFICES ASSUME pc[w] = "matched" PROVE FALSE
      OBVIOUS
    <3>2. row[matched[w]] \in S
      BY <2>1, <3>1 DEF WaitsFor
    <3>3. matched[w] \in Webhooks
      BY <1>3, <2>1, <3>1 DEF DeliveryShape, ApiInv, ApiTypeOK
    <3>4. row[matched[w]] \in Holders \cup {None}
      BY <3>3 DEF ApiInv, ApiTypeOK
    <3>5. row[matched[w]] \in Reviews
      BY <3>2, <3>4, WebhookApiAssumption DEF Holders, Requests
    <3> QED BY <1>1, <3>2, <3>3, <3>5 DEF WaitSound
  <2>3. pc[w] # "waiting"
    BY <2>1 DEF DeliveryShape
  <2>4. CASE pc[w] = "running"
    <3>1. key[eventOf[w]] \in S
      BY <2>1, <2>4 DEF WaitsFor
    <3>2. key[eventOf[w]] # None
      BY <3>1, WebhookApiAssumption
    <3>3. eventOf[key[eventOf[w]]] = eventOf[w]
      BY <1>3, <3>2 DEF ApiInv
    <3>4. key[eventOf[w]] # w
      BY <2>1, <2>4 DEF DeliveryShape
    <3> QED BY <1>3, <2>4, <3>1, <3>3, <3>4
  <2> QED BY <2>1, <2>2, <2>3, <2>4 DEF WaitsFor
<1> QED BY <1>2, <1>3 DEF Requests

\* Two deliveries of the one event would have to be at one process: the holder of
\* its key, and the one that keeps the loop this holder needs.
LEMMA ServedApartHasNoCircle ==
  ASSUME ServedApart, ApiInv, WaitSound
  PROVE  NoCircle
<1> USE ApiActorsApart
<1>1. SUFFICES ASSUME NEW S \in SUBSET Requests, \A q \in S : WaitsFor(q, S),
                      NEW q \in S
               PROVE  FALSE
  BY DEF NoCircle, Circular
<1> DEFINE OnKey(w) == /\ w \in Webhooks /\ pc[w] = "running" /\ key[eventOf[w]] \in S
                       /\ key[eventOf[w]] # w /\ eventOf[key[eventOf[w]]] = eventOf[w]
           OnLoop(w) == pc[w] \in { "arrived", "opened", "returned" } /\ loop[home[w]] \in S
<1>2. \A w \in S : OnKey(w) \/ OnLoop(w)
  BY <1>1, CircleIsOfKeys
\* Who is on an event loop has not returned.
<1>3. ASSUME NEW w \in S, OnLoop(w)
      PROVE  /\ OnKey(loop[home[w]]) /\ loop[home[w]] \in S
             /\ home[loop[home[w]]] = home[w] /\ loop[home[w]] # w
  <2> DEFINE v == loop[home[w]]
  <2>1. v \in S /\ home[w] \in Processes /\ v # None
    BY <1>1, <1>3, WebhookApiAssumption DEF Requests
  <2>2. v \in Webhooks /\ home[v] = home[w]
    BY <2>1 DEF WaitSound, ApiInv, ApiTypeOK
  <2>3. loop[home[v]] = v
    BY <2>2
  <2>4. pc[v] \in { "running", "inserted", "matched", "publishing" }
    BY <2>2, <2>3 DEF ApiInv, DeliveryShape
  <2>5. OnKey(v)
    BY <1>2, <2>1, <2>4
  <2>6. v # w
    BY <1>3, <2>4
  <2> QED BY <2>1, <2>2, <2>5, <2>6
<1>4. PICK w \in S : OnKey(w)
  BY <1>1, <1>2, <1>3
<1> DEFINE v == key[eventOf[w]]
<1>5. v \in S /\ v # w /\ eventOf[v] = eventOf[w]
  BY <1>4
\* The holder of a key is a delivery past the insert of its raw row.
<1>6. \A x \in S : OnKey(x) =>
        /\ key[eventOf[x]] \in Webhooks
        /\ pc[key[eventOf[x]]] \in { "inserted", "matched", "returned" }
  <2>1. SUFFICES ASSUME NEW x \in S, OnKey(x)
                 PROVE  /\ key[eventOf[x]] \in Webhooks
                        /\ pc[key[eventOf[x]]] \in { "inserted", "matched", "returned" }
    OBVIOUS
  <2> DEFINE y == key[eventOf[x]]
  <2>2. y \in Webhooks
    BY <1>1, <2>1, WebhookApiAssumption DEF ApiInv, ApiTypeOK
  <2>3. DeliveryShape(y) /\ key[eventOf[y]] = y
    BY <2>1, <2>2 DEF ApiInv
  <2> QED BY <2>2, <2>3 DEF DeliveryShape
<1>7. OnLoop(v)
  BY <1>2, <1>4, <1>5, <1>6
<1> DEFINE u == loop[home[v]]
<1>8. u \in S /\ OnKey(u) /\ home[u] = home[v] /\ u # v
  BY <1>3, <1>5, <1>7
<1> DEFINE t == key[eventOf[u]]
<1>9. t \in S /\ t # u /\ eventOf[t] = eventOf[u]
  BY <1>8
<1>10. {u, t, v, w} \subseteq Webhooks \cap Begun
  BY <1>4, <1>6, <1>8 DEF Begun, Requests
<1>11. eventOf[u] = eventOf[v]
  <2> HIDE DEF u, t, v
  <2> QED BY <1>5, <1>9, <1>10 DEF ServedApart
<1> HIDE DEF u, t, v
<1> QED BY <1>8, <1>10, <1>11 DEF ServedApart

\* As long as reviews and webhooks are served by different processes, and the
\* deliveries of the one event that comes more than once by different ones, no
\* request is caught in a circle of waits through an event loop.
THEOREM ServedApartNeverCircular ==
  ApiSpec => [](ServedApart => NoCircle)
<1>1. ApiSpec => []WaitSound
  BY WaitSoundInit, WaitSoundStep, SpecApiInv, PTL DEF ApiSpec
<1>2. ApiInv /\ WaitSound => (ServedApart => NoCircle)
  BY ServedApartHasNoCircle
<1>3. QED
  BY <1>1, <1>2, SpecApiInv, PTL
=============================================================================
