------------------------------ MODULE AgentLoop ------------------------------
(***************************************************************************)
(* RecoveryAgentOrchestrator.propose: the conversation between the model   *)
(* and the tools, in the session of the worker that asked for a decision.  *)
(* Any response may come back: no tool call or several, of tools that      *)
(* answer, do not exist or raise, and records well formed or not.  The     *)
(* message may be delivered again when the worker dies before it commits.  *)
(***************************************************************************)
EXTENDS Naturals, Sequences, FiniteSets

CONSTANTS
  Actions,        \* what may be decided
  MaxSteps,       \* MAX_TOOL_CALLING_STEPS
  MaxCalls,       \* bound: tool calls in one response
  MaxDeliveries,  \* bound: how often the message is delivered
  None

ASSUME AgentLoopAssumption ==
  /\ MaxSteps \in Nat \ { 0 } /\ MaxCalls \in Nat /\ MaxDeliveries \in Nat \ { 0 }
  /\ None \notin Actions

VARIABLES
  pc,          \* "ask", "handle", "decided", "failed", "committed"
  messages,    \* responses and tool answers since the prompt
  llmCallCount,  \* usage_stats["llm_call_count"]
  pending,     \* calls of the last response that are not yet handled
  trace,       \* tool_trace
  flushed,     \* agent_decisions rows this session has written
  returned,    \* what propose returned, or None
  committed,   \* committed agent_decisions rows
  deliveries

agentVars == <<pc, messages, llmCallCount, pending, trace, flushed, returned, committed, deliveries>>

\* The tools that read, calculate or propose raise on arguments they cannot
\* take.  None of them writes a row.
ReadCalls == [tool : { "read" }, raises : BOOLEAN, action : { None }]
ReasoningCalls == [tool : { "reason" }, raises : BOOLEAN, action : { None }]
ProposalCalls == [tool : { "propose" }, raises : BOOLEAN, action : { None }]
UnknownCalls == [tool : { "unknown" }, raises : { FALSE }, action : { None }]

\* record_decision, which raises when its argument is malformed.
RecordCalls ==
  [tool : { "record_decision" }, raises : { FALSE }, action : Actions]
  \cup [tool : { "record_decision" }, raises : { TRUE }, action : { None }]

\* The calls of response.tool_calls.  Calls whose arguments LangChain could not
\* parse (invalid_tool_calls) are not among them, and the loop looks at no others.
Calls == ReadCalls \cup ReasoningCalls \cup ProposalCalls \cup UnknownCalls \cup RecordCalls

IsRecord(call) == call.tool = "record_decision"

Response(calls) == [from |-> "model", calls |-> calls]
ToolMessage(call) == [from |-> "tool", calls |-> <<call>>]

FromModel(m) == m.from = "model"
FromTool(m) == m.from = "tool"

\* The parsed calls of one response.
Batches == UNION { [1..n -> Calls] : n \in 0..MaxCalls }

-----------------------------------------------------------------------------
Fresh ==
  /\ messages' = << >> /\ llmCallCount' = 0 /\ pending' = << >> /\ trace' = << >>
  /\ flushed' = {} /\ returned' = None

AgentInit ==
  /\ pc = "ask"
  /\ messages = << >> /\ llmCallCount = 0 /\ pending = << >> /\ trace = << >>
  /\ flushed = {} /\ returned = None
  /\ committed = {}
  /\ deliveries = 1

\* One turn of the loop: a response without a call ends it.
Ask ==
  /\ pc = "ask"
  /\ llmCallCount < MaxSteps
  /\ llmCallCount' = llmCallCount + 1
  /\ \E calls \in Batches :
       /\ messages' = Append(messages, Response(calls))
       /\ pending' = calls
       /\ pc' = IF calls = << >> THEN "failed" ELSE "handle"
  /\ UNCHANGED <<trace, flushed, returned, committed, deliveries>>

\* Mutant: the conversation is started over instead.
StartOver ==
  /\ pc = "ask"
  /\ llmCallCount = MaxSteps
  /\ Fresh
  /\ UNCHANGED <<pc, committed, deliveries>>

\* MalformedAgentOutputError after the last step.
GiveUp ==
  /\ pc = "ask"
  /\ llmCallCount = MaxSteps
  /\ pc' = "failed"
  /\ UNCHANGED <<messages, llmCallCount, pending, trace, flushed, returned, committed, deliveries>>

\* Mutant: a tool that does not exist is not answered.
AnswerKnownTool ==
  LET call == Head(pending) IN
  /\ pc = "handle"
  /\ ~ call.raises /\ ~ IsRecord(call)
  /\ trace' = Append(trace, call)
  /\ messages' = IF call.tool = "unknown" THEN messages
                 ELSE Append(messages, ToolMessage(call))
  /\ pending' = Tail(pending)
  /\ pc' = IF Tail(pending) = << >> THEN "ask" ELSE "handle"
  /\ UNCHANGED <<llmCallCount, flushed, returned, committed, deliveries>>

\* A tool that answers, and the error that answers for one that is not there.
Answer ==
  LET call == Head(pending) IN
  /\ pc = "handle"
  /\ ~ call.raises /\ ~ IsRecord(call)
  /\ trace' = Append(trace, call)
  /\ messages' = Append(messages, ToolMessage(call))
  /\ pending' = Tail(pending)
  /\ pc' = IF Tail(pending) = << >> THEN "ask" ELSE "handle"
  /\ UNCHANGED <<llmCallCount, flushed, returned, committed, deliveries>>

\* An exception of a tool or of parse_agent_decision leaves propose.
Raise ==
  /\ pc = "handle"
  /\ Head(pending).raises
  /\ pc' = "failed"
  /\ UNCHANGED <<messages, llmCallCount, pending, trace, flushed, returned, committed, deliveries>>

Row(call) == [action |-> call.action, trace |-> trace, calls |-> llmCallCount]

\* Mutant: the rest of the response is handled before propose returns.
RecordAndGoOn ==
  LET call == Head(pending) IN
  /\ pc = "handle"
  /\ ~ call.raises /\ IsRecord(call)
  /\ flushed' = flushed \cup { Row(call) }
  /\ trace' = Append(trace, call)
  /\ returned' = call.action
  /\ pending' = Tail(pending)
  /\ pc' = IF Tail(pending) = << >> THEN "decided" ELSE "handle"
  /\ UNCHANGED <<messages, llmCallCount, committed, deliveries>>

\* record_decision: the row is flushed with the trace as it is, the call is
\* added to the trace, and the rest of the response is never looked at.
Record ==
  LET call == Head(pending) IN
  /\ pc = "handle"
  /\ ~ call.raises /\ IsRecord(call)
  /\ flushed' = flushed \cup { Row(call) }
  /\ trace' = Append(trace, call)
  /\ returned' = call.action
  /\ pc' = "decided"
  /\ UNCHANGED <<messages, llmCallCount, pending, committed, deliveries>>

CommitDecision ==
  /\ pc = "decided"
  /\ committed' = committed \cup flushed
  /\ pc' = "committed"
  /\ UNCHANGED <<messages, llmCallCount, pending, trace, flushed, returned, deliveries>>

\* Mutant: what was flushed survives the worker.
RedeliverAfterCommit ==
  /\ pc \in { "ask", "handle", "decided" }
  /\ deliveries < MaxDeliveries
  /\ deliveries' = deliveries + 1
  /\ committed' = committed \cup flushed
  /\ pc' = "ask"
  /\ Fresh

\* The worker dies, its session is rolled back and the message comes again.
Redeliver ==
  /\ pc \in { "ask", "handle", "decided" }
  /\ deliveries < MaxDeliveries
  /\ deliveries' = deliveries + 1
  /\ pc' = "ask"
  /\ Fresh
  /\ UNCHANGED committed

\* An error of the model, of the session or of the pipeline behind propose.
FailAgent ==
  /\ pc \in { "ask", "handle", "decided" }
  /\ pc' = "failed"
  /\ UNCHANGED <<messages, llmCallCount, pending, trace, flushed, returned, committed, deliveries>>

Turn == Ask \/ GiveUp \/ Answer \/ Raise \/ Record \/ CommitDecision

AgentNext == Turn \/ Redeliver \/ FailAgent

AgentSpec == AgentInit /\ [][AgentNext]_agentVars /\ WF_agentVars(Turn)

-----------------------------------------------------------------------------
Messages == [from : { "model" }, calls : Batches] \cup { ToolMessage(c) : c \in Calls }

Rows == [action : Actions, trace : Seq(Calls), calls : 1..MaxSteps]

AgentTypeOK ==
  /\ pc \in { "ask", "handle", "decided", "failed", "committed" }
  /\ messages \in Seq(Messages)
  /\ llmCallCount \in 0..MaxSteps
  /\ pending \in Seq(Calls)
  /\ trace \in Seq(Calls)
  /\ flushed \subseteq Rows
  /\ returned \in Actions \cup { None }
  /\ committed \subseteq Rows
  /\ deliveries \in 1..MaxDeliveries

-----------------------------------------------------------------------------
(* What a conversation ms is.                                              *)

IsResponse(ms, i) == FromModel(ms[i])

\* The answers to the response at j end with message i.
EndsAt(ms, j, i) == IsResponse(ms, j) /\ i = j + Len(ms[j].calls)

\* Responses alternate with the answers to all their calls, in their order; only
\* those to the last response may still be missing.
IsConversation(ms) ==
  \A i \in DOMAIN ms :
    IF IsResponse(ms, i)
      THEN /\ i > 1 => \E j \in 1..(i - 1) : EndsAt(ms, j, i - 1)
           /\ \A k \in DOMAIN ms[i].calls :
                i + k <= Len(ms) => ms[i + k] = ToolMessage(ms[i].calls[k])
      ELSE \E j \in 1..(i - 1) : IsResponse(ms, j) /\ i - j <= Len(ms[j].calls)

Responses(ms) == { i \in DOMAIN ms : IsResponse(ms, i) }
AnswersUpTo(ms, i) == { j \in 1..i : FromTool(ms[j]) }

\* The tool answers of ms are those to the calls of tr, in that order.
IsAnswered(ms, tr) ==
  /\ Len(tr) = Cardinality(AnswersUpTo(ms, Len(ms)))
  /\ \A i \in DOMAIN ms :
       FromTool(ms[i]) => ms[i] = ToolMessage(tr[Cardinality(AnswersUpTo(ms, i))])

-----------------------------------------------------------------------------
\* Whenever the model is asked, every call of response.tool_calls was answered,
\* once, in order and before the next response: the APIs behind it refuse anything
\* else.  (A call that LangChain could not parse is in invalid_tool_calls instead
\* and stays unanswered beside a parsed one; the property is not about those.)
EveryCallIsAnswered ==
  /\ IsConversation(messages)
  /\ pc = "ask" =>
       messages = << >> \/ \E j \in DOMAIN messages : EndsAt(messages, j, Len(messages))

\* What the pipeline acts upon is what is on record: one row, with the action
\* propose returned and the trace of everything that was done to come to it,
\* however often the message was delivered; a conversation that failed, or that
\* a redelivery has started over, leaves no decision behind.
RecordIsTheDecision ==
  /\ pc # "committed" => committed = {}
  /\ pc = "committed" =>
    \E row \in committed :
      /\ committed = { row }
      /\ row.action = returned
      /\ row.calls = Cardinality(Responses(messages))
      /\ \A i \in DOMAIN row.trace : ~ IsRecord(row.trace[i])
      /\ IsAnswered(messages, row.trace)

\* The first record the model made is the one that counts: every call before it
\* was answered and was none, and nothing it called for after it was done.
FirstRecordCounts ==
  pc = "decided" =>
    /\ \E j \in Responses(messages) : Len(messages) < j + Len(messages[j].calls)
    /\ \A j \in Responses(messages) : \A k \in DOMAIN messages[j].calls :
         LET call == messages[j].calls[k] IN
         /\ j + k <= Len(messages) => ~ IsRecord(call) /\ messages[j + k] = ToolMessage(call)
         /\ j + k = Len(messages) + 1 =>
              /\ IsRecord(call) /\ call.action = returned
              /\ trace[Len(trace)] = call
    /\ IsAnswered(messages, SubSeq(trace, 1, Len(trace) - 1))

-----------------------------------------------------------------------------
(* The inductive invariant behind these.                                   *)

\* Responses do not interrupt each other's answers.
BlocksApart(ms) ==
  \A i, j \in Responses(ms) : i < j => i + Len(ms[i].calls) < j

IsLatest(ms, j) == j \in Responses(ms) /\ \A i \in Responses(ms) : i <= j

\* What is pending is the rest of the last response, and while the model is
\* asked nothing is.
PendingIsTheRest ==
  /\ pc = "ask" => messages = << >> \/
       \E j \in DOMAIN messages : IsLatest(messages, j) /\ EndsAt(messages, j, Len(messages))
  /\ pc \in { "handle", "decided" } =>
       /\ pending # << >>
       /\ \E j \in DOMAIN messages :
            /\ IsLatest(messages, j)
            /\ Len(messages) + Len(pending) = j + Len(messages[j].calls)
            /\ \A k \in DOMAIN pending :
                 pending[k] = messages[j].calls[(Len(messages) - j) + k]

NoRecordIn(tr) == \A i \in DOMAIN tr : ~ IsRecord(tr[i])

\* No record was ever answered.
NoRecordAnswered ==
  \A i \in DOMAIN messages : FromTool(messages[i]) => ~ IsRecord(messages[i].calls[1])

\* The trace is what was answered, and at the end the record.
TraceIsAnswered ==
  /\ pc \in { "ask", "handle" } =>
       flushed = {} /\ returned = None /\ IsAnswered(messages, trace) /\ NoRecordIn(trace)
  /\ pc \in { "decided", "committed" } =>
       \E row \in flushed : \E call \in RecordCalls :
         /\ flushed = { row } /\ row.action = returned /\ row.calls = llmCallCount
         /\ call.action = returned
         /\ trace = Append(row.trace, call)
         /\ pc = "decided" => call = Head(pending)
         /\ IsAnswered(messages, row.trace) /\ NoRecordIn(row.trace)

AgentInv ==
  /\ AgentTypeOK
  /\ IsConversation(messages) /\ BlocksApart(messages)
  /\ PendingIsTheRest
  /\ NoRecordAnswered
  /\ TraceIsAnswered
  /\ llmCallCount = Cardinality(Responses(messages))
  /\ pc # "committed" => committed = {}
  /\ pc = "committed" => committed = flushed

\* Whatever the model answers, the conversation comes to an end.
ProposeEnds == <>(pc \in { "committed", "failed" })
=============================================================================
