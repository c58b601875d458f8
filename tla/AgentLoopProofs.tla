--------------------------- MODULE AgentLoopProofs ---------------------------
(***************************************************************************)
(* Theorems about AgentLoop for any set of actions, any number of turns,   *)
(* calls per response and deliveries.  Lemmas about a conversation, which  *)
(* is a sequence, come first: what a response and what an answer do to it. *)
(* AgentInv is then shown to be inductive, one lemma per action.           *)
(***************************************************************************)
EXTENDS AgentLoop, FiniteSetTheorems, TLAPS

\* A batch is a sequence of calls.
LEMMA BatchIsSeq ==
  ASSUME NEW b \in Batches
  PROVE  b \in Seq(Calls) /\ Len(b) \in Nat /\ DOMAIN b = 1..Len(b)
<1>1. PICK n \in 0..MaxCalls : b \in [1..n -> Calls]
  BY DEF Batches
<1>2. n \in Nat
  BY <1>1, AgentLoopAssumption
<1>3. QED
  BY <1>1, <1>2

\* A message is a response or the answer to one call.
LEMMA MessageForm ==
  ASSUME NEW m \in Messages
  PROVE  \/ FromModel(m) /\ ~ FromTool(m) /\ m.calls \in Batches
         \/ ~ FromModel(m) /\ FromTool(m)
            /\ \E c \in Calls : m = ToolMessage(c) /\ m.calls[1] = c
<1>1. CASE m \in [from : { "model" }, calls : Batches]
  BY <1>1 DEF FromModel, FromTool
<1>2. CASE m \in { ToolMessage(c) : c \in Calls }
  <2>1. PICK c \in Calls : m = ToolMessage(c)
    BY <1>2
  <2>2. m.from = "tool" /\ m.calls[1] = c
    BY <2>1 DEF ToolMessage
  <2>3. QED
    BY <2>1, <2>2 DEF FromModel, FromTool
<1>3. QED
  BY <1>1, <1>2 DEF Messages

LEMMA NewMessages ==
  /\ \A calls \in Batches : Response(calls) \in Messages /\ FromModel(Response(calls))
                            /\ ~ FromTool(Response(calls)) /\ Response(calls).calls = calls
  /\ \A c \in Calls : ToolMessage(c) \in Messages /\ FromTool(ToolMessage(c))
                      /\ ~ FromModel(ToolMessage(c)) /\ ToolMessage(c).calls[1] = c
BY DEF Messages, Response, ToolMessage, FromModel, FromTool

\* What Append leaves and what it adds.
LEMMA Appended ==
  ASSUME NEW S, NEW s \in Seq(S), NEW e \in S
  PROVE  /\ Append(s, e) \in Seq(S)
         /\ Len(s) \in Nat /\ DOMAIN s = 1..Len(s)
         /\ Len(Append(s, e)) = Len(s) + 1
         /\ DOMAIN Append(s, e) = 1..(Len(s) + 1)
         /\ \A i \in 1..Len(s) : Append(s, e)[i] = s[i]
         /\ Append(s, e)[Len(s) + 1] = e
OBVIOUS

-----------------------------------------------------------------------------
(* Counting responses and answers.                                         *)

LEMMA Counts ==
  ASSUME NEW ms \in Seq(Messages)
  PROVE  /\ IsFiniteSet(Responses(ms)) /\ Cardinality(Responses(ms)) \in Nat
         /\ \A i \in 0..Len(ms) :
              IsFiniteSet(AnswersUpTo(ms, i)) /\ Cardinality(AnswersUpTo(ms, i)) \in Nat
<1>1. Len(ms) \in Nat /\ DOMAIN ms = 1..Len(ms)
  OBVIOUS
<1>2. \A n \in Nat : IsFiniteSet(1..n)
  BY FS_Interval
<1>3. Responses(ms) \subseteq 1..Len(ms)
  BY <1>1 DEF Responses
<1>4. IsFiniteSet(Responses(ms)) /\ Cardinality(Responses(ms)) \in Nat
  BY <1>1, <1>2, <1>3, FS_Subset, FS_CardinalityType
<1>5. ASSUME NEW i \in 0..Len(ms)
      PROVE  IsFiniteSet(AnswersUpTo(ms, i)) /\ Cardinality(AnswersUpTo(ms, i)) \in Nat
  <2>1. AnswersUpTo(ms, i) \subseteq 1..i /\ i \in Nat
    BY <1>1 DEF AnswersUpTo
  <2>2. QED
    BY <1>2, <2>1, FS_Subset, FS_CardinalityType
<1>6. QED
  BY <1>4, <1>5

\* One more response, and no answer.
LEMMA ResponseCounts ==
  ASSUME NEW ms \in Seq(Messages), NEW calls \in Batches
  PROVE  LET new == Append(ms, Response(calls)) IN
         /\ Responses(new) = Responses(ms) \cup { Len(ms) + 1 }
         /\ Cardinality(Responses(new)) = Cardinality(Responses(ms)) + 1
         /\ \A i \in 0..Len(ms) : AnswersUpTo(new, i) = AnswersUpTo(ms, i)
         /\ AnswersUpTo(new, Len(ms) + 1) = AnswersUpTo(ms, Len(ms))
<1> DEFINE m == Response(calls)
           new == Append(ms, m)
<1>1. m \in Messages /\ FromModel(m) /\ ~ FromTool(m)
  BY NewMessages
<1> HIDE DEF m
<1>2. /\ Len(ms) \in Nat /\ DOMAIN ms = 1..Len(ms) /\ DOMAIN new = 1..(Len(ms) + 1)
      /\ \A i \in 1..Len(ms) : new[i] = ms[i]
      /\ new[Len(ms) + 1] = m
  BY <1>1, Appended
<1> HIDE DEF new
<1>3. Responses(new) = Responses(ms) \cup { Len(ms) + 1 }
  BY <1>1, <1>2 DEF Responses, IsResponse
<1>4. Len(ms) + 1 \notin Responses(ms)
  BY <1>2 DEF Responses
<1>5. Cardinality(Responses(new)) = Cardinality(Responses(ms)) + 1
  BY <1>3, <1>4, Counts, FS_AddElement
<1>6. \A i \in 0..Len(ms) : AnswersUpTo(new, i) = AnswersUpTo(ms, i)
  BY <1>2 DEF AnswersUpTo
<1>7. AnswersUpTo(new, Len(ms) + 1) = AnswersUpTo(ms, Len(ms))
  BY <1>1, <1>2 DEF AnswersUpTo
<1>8. QED
  BY <1>3, <1>5, <1>6, <1>7 DEF new, m

\* One more answer, and no response.
LEMMA AnswerCounts ==
  ASSUME NEW ms \in Seq(Messages), NEW c \in Calls
  PROVE  LET new == Append(ms, ToolMessage(c)) IN
         /\ Responses(new) = Responses(ms)
         /\ \A i \in 0..Len(ms) : AnswersUpTo(new, i) = AnswersUpTo(ms, i)
         /\ Cardinality(AnswersUpTo(new, Len(ms) + 1))
              = Cardinality(AnswersUpTo(ms, Len(ms))) + 1
<1> DEFINE m == ToolMessage(c)
           new == Append(ms, m)
<1>1. m \in Messages /\ ~ FromModel(m) /\ FromTool(m)
  BY NewMessages
<1> HIDE DEF m
<1>2. /\ Len(ms) \in Nat /\ DOMAIN ms = 1..Len(ms) /\ DOMAIN new = 1..(Len(ms) + 1)
      /\ \A i \in 1..Len(ms) : new[i] = ms[i]
      /\ new[Len(ms) + 1] = m
  BY <1>1, Appended
<1> HIDE DEF new
<1>3. Responses(new) = Responses(ms)
  BY <1>1, <1>2 DEF Responses, IsResponse
<1>4. \A i \in 0..Len(ms) : AnswersUpTo(new, i) = AnswersUpTo(ms, i)
  BY <1>2 DEF AnswersUpTo
<1>5. AnswersUpTo(new, Len(ms) + 1) = AnswersUpTo(ms, Len(ms)) \cup { Len(ms) + 1 }
  BY <1>1, <1>2 DEF AnswersUpTo
<1>6. Len(ms) + 1 \notin AnswersUpTo(ms, Len(ms)) /\ Len(ms) \in 0..Len(ms)
  BY <1>2 DEF AnswersUpTo
<1>7. Cardinality(AnswersUpTo(new, Len(ms) + 1)) = Cardinality(AnswersUpTo(ms, Len(ms))) + 1
  BY <1>5, <1>6, Counts, FS_AddElement
<1>8. QED
  BY <1>3, <1>4, <1>7 DEF new, m

\* The rank of an answer is one of those there are.
LEMMA RankOfAnswer ==
  ASSUME NEW ms \in Seq(Messages), NEW i \in 1..Len(ms), FromTool(ms[i])
  PROVE  Cardinality(AnswersUpTo(ms, i)) \in 1..Cardinality(AnswersUpTo(ms, Len(ms)))
<1>1. Len(ms) \in Nat /\ i \in 0..Len(ms) /\ Len(ms) \in 0..Len(ms)
  OBVIOUS
<1>2. AnswersUpTo(ms, i) \subseteq AnswersUpTo(ms, Len(ms)) /\ i \in AnswersUpTo(ms, i)
  BY <1>1 DEF AnswersUpTo
<1>3. Cardinality(AnswersUpTo(ms, i)) <= Cardinality(AnswersUpTo(ms, Len(ms)))
  BY <1>1, <1>2, Counts, FS_Subset
<1>4. Cardinality(AnswersUpTo(ms, i)) # 0
  BY <1>1, <1>2, Counts, FS_EmptySet
<1>5. Cardinality(AnswersUpTo(ms, i)) \in Nat /\ Cardinality(AnswersUpTo(ms, Len(ms))) \in Nat
  BY <1>1, Counts
<1>6. QED
  BY <1>3, <1>4, <1>5

\* A response answers nothing.
LEMMA ResponseKeepsAnswers ==
  ASSUME NEW ms \in Seq(Messages), NEW calls \in Batches, NEW tr, IsAnswered(ms, tr)
  PROVE  IsAnswered(Append(ms, Response(calls)), tr)
<1> DEFINE m == Response(calls)
           new == Append(ms, m)
<1>1. m \in Messages /\ ~ FromTool(m)
  BY NewMessages
<1>2. /\ \A i \in 0..Len(ms) : AnswersUpTo(new, i) = AnswersUpTo(ms, i)
      /\ AnswersUpTo(new, Len(ms) + 1) = AnswersUpTo(ms, Len(ms))
  BY ResponseCounts
<1> HIDE DEF m
<1>3. /\ Len(ms) \in Nat /\ DOMAIN ms = 1..Len(ms) /\ Len(new) = Len(ms) + 1
      /\ DOMAIN new = 1..(Len(ms) + 1)
      /\ \A i \in 1..Len(ms) : new[i] = ms[i]
      /\ new[Len(ms) + 1] = m
  BY <1>1, Appended
<1> HIDE DEF new
<1>4. Len(tr) = Cardinality(AnswersUpTo(new, Len(new)))
  BY <1>2, <1>3 DEF IsAnswered
<1>5. ASSUME NEW i \in DOMAIN new, FromTool(new[i])
      PROVE  new[i] = ToolMessage(tr[Cardinality(AnswersUpTo(new, i))])
  <2>1. i \in 1..Len(ms) /\ i \in 0..Len(ms)
    BY <1>1, <1>3, <1>5
  <2>2. new[i] = ms[i] /\ AnswersUpTo(new, i) = AnswersUpTo(ms, i)
    BY <1>2, <1>3, <2>1
  <2>3. QED
    BY <1>3, <1>5, <2>1, <2>2 DEF IsAnswered
<1>6. QED
  BY <1>4, <1>5 DEF IsAnswered, new, m

\* An answer to c goes with c in the trace.
LEMMA AnswerAddsToTrace ==
  ASSUME NEW ms \in Seq(Messages), NEW c \in Calls, NEW tr \in Seq(Calls), IsAnswered(ms, tr)
  PROVE  IsAnswered(Append(ms, ToolMessage(c)), Append(tr, c))
<1> DEFINE m == ToolMessage(c)
           new == Append(ms, m)
           tr2 == Append(tr, c)
<1>1. m \in Messages /\ FromTool(m)
  BY NewMessages
<1>2. /\ \A i \in 0..Len(ms) : AnswersUpTo(new, i) = AnswersUpTo(ms, i)
      /\ Cardinality(AnswersUpTo(new, Len(ms) + 1)) = Cardinality(AnswersUpTo(ms, Len(ms))) + 1
  BY AnswerCounts
<1>3. Len(tr) \in Nat /\ Len(tr2) = Len(tr) + 1 /\ tr2[Len(tr) + 1] = c
      /\ \A k \in 1..Len(tr) : tr2[k] = tr[k]
  BY Appended
<1> HIDE DEF tr2
<1>4. /\ Len(ms) \in Nat /\ DOMAIN ms = 1..Len(ms) /\ Len(new) = Len(ms) + 1
      /\ DOMAIN new = 1..(Len(ms) + 1)
      /\ \A i \in 1..Len(ms) : new[i] = ms[i]
      /\ new[Len(ms) + 1] = m
  BY <1>1, Appended
<1> HIDE DEF new
<1>5. Len(tr) = Cardinality(AnswersUpTo(ms, Len(ms)))
  BY DEF IsAnswered
<1>6. Len(tr2) = Cardinality(AnswersUpTo(new, Len(new)))
  BY <1>2, <1>3, <1>4, <1>5
<1>7. ASSUME NEW i \in DOMAIN new, FromTool(new[i])
      PROVE  new[i] = ToolMessage(tr2[Cardinality(AnswersUpTo(new, i))])
  <2>1. CASE i \in 1..Len(ms)
    <3>1. new[i] = ms[i] /\ AnswersUpTo(new, i) = AnswersUpTo(ms, i)
      BY <1>2, <1>4, <2>1
    <3>2. Cardinality(AnswersUpTo(ms, i)) \in 1..Len(tr)
      BY <1>5, <1>7, <2>1, <3>1, RankOfAnswer
    <3>3. ms[i] = ToolMessage(tr[Cardinality(AnswersUpTo(ms, i))])
      BY <1>4, <1>7, <2>1, <3>1 DEF IsAnswered
    <3>4. QED
      BY <1>3, <3>1, <3>2, <3>3
  <2>2. CASE i = Len(ms) + 1
    BY <1>2, <1>3, <1>4, <1>5, <2>2 DEF m
  <2>3. QED
    BY <1>4, <1>7, <2>1, <2>2
<1>8. QED
  BY <1>6, <1>7 DEF IsAnswered, new, m, tr2

-----------------------------------------------------------------------------
(* The shape of a conversation.                                            *)

\* A block of length a that starts at i and ends before the one at j, or is that
\* one, ends by L.
LEMMA BlockEnd ==
  ASSUME NEW i \in Nat, NEW j \in Nat, NEW a \in Nat, NEW L \in Nat,
         i <= j, i < j => i + a < j, j <= L, i = j => i + a <= L
  PROVE  i + a <= L
<1>1. CASE i = j
  BY <1>1
<1>2. CASE i < j
  BY <1>2
<1>3. QED
  BY <1>1, <1>2

\* Where the answers of a response end, a new response may come.
LEMMA ResponseKeepsShape ==
  ASSUME NEW ms \in Seq(Messages), NEW calls \in Batches,
         IsConversation(ms), BlocksApart(ms),
         ms # << >> => \E j \in DOMAIN ms : IsLatest(ms, j) /\ EndsAt(ms, j, Len(ms))
  PROVE  LET new == Append(ms, Response(calls)) IN
         /\ IsConversation(new) /\ BlocksApart(new)
         /\ IsLatest(new, Len(ms) + 1)
<1> DEFINE m == Response(calls)
           new == Append(ms, m)
           L == Len(ms)
<1>1. m \in Messages /\ FromModel(m) /\ m.calls = calls
  BY NewMessages
<1>2. Responses(new) = Responses(ms) \cup { L + 1 }
  BY ResponseCounts
<1> HIDE DEF m
<1>3. /\ L \in Nat /\ DOMAIN ms = 1..L /\ Len(new) = L + 1 /\ DOMAIN new = 1..(L + 1)
      /\ \A i \in 1..L : new[i] = ms[i]
      /\ new[L + 1] = m
  BY <1>1, Appended
<1> HIDE DEF new
<1>4. DOMAIN calls = 1..Len(calls) /\ Len(calls) \in Nat
  BY BatchIsSeq
<1>5. \A i \in Responses(ms) : i \in 1..L /\ FromModel(ms[i]) /\ Len(ms[i].calls) \in Nat
                               /\ DOMAIN ms[i].calls = 1..Len(ms[i].calls)
  <2>1. \A i \in Responses(ms) : i \in 1..L /\ ms[i] \in Messages /\ FromModel(ms[i])
    BY <1>3 DEF Responses, IsResponse
  <2>2. QED
    BY <2>1, MessageForm, BatchIsSeq
<1>6. \A i \in Responses(ms) : i + Len(ms[i].calls) <= L
  <2>1. SUFFICES ASSUME NEW i \in Responses(ms) PROVE i + Len(ms[i].calls) <= L
    OBVIOUS
  <2>2. PICK j \in Responses(ms) : IsLatest(ms, j) /\ L = j + Len(ms[j].calls)
    BY <1>3, <1>5, <2>1 DEF EndsAt, IsLatest
  <2>3. i <= j
    BY <2>1, <2>2 DEF IsLatest
  <2>4. i < j => i + Len(ms[i].calls) < j
    BY <2>1, <2>2 DEF BlocksApart
  <2>5. i \in Nat /\ Len(ms[i].calls) \in Nat
    BY <1>5, <2>1
  <2>6. j \in Nat /\ j <= L
    BY <1>3, <1>5, <2>2
  <2>7. i = j => i + Len(ms[i].calls) <= L
    BY <1>3, <2>2
  <2>8. QED
    BY <1>3, <2>3, <2>4, <2>5, <2>6, <2>7, BlockEnd
<1>7. IsConversation(new)
  <2>1. ASSUME NEW i \in 1..L, IsResponse(ms, i)
        PROVE  /\ i > 1 => \E j \in 1..(i - 1) : EndsAt(new, j, i - 1)
               /\ \A k \in DOMAIN new[i].calls :
                    i + k <= Len(new) => new[i + k] = ToolMessage(new[i].calls[k])
    <3>1. new[i] = ms[i] /\ i \in Responses(ms)
      BY <1>3, <2>1 DEF Responses
    <3>2. ASSUME NEW k \in DOMAIN ms[i].calls
          PROVE  i + k \in 1..L /\ ms[i + k] = ToolMessage(ms[i].calls[k])
      <4>1. k \in 1..Len(ms[i].calls) /\ Len(ms[i].calls) \in Nat
        BY <1>5, <3>1, <3>2
      <4>2. i + k \in 1..L /\ i + k <= L
        BY <1>3, <1>6, <2>1, <3>1, <4>1
      <4>3. QED
        BY <1>3, <2>1, <3>2, <4>2 DEF IsConversation
    <3>3. i > 1 => \E j \in 1..(i - 1) : EndsAt(ms, j, i - 1)
      BY <1>3, <2>1 DEF IsConversation
    <3>4. \A j \in 1..(i - 1) : new[j] = ms[j]
      BY <1>3
    <3>5. QED
      BY <1>3, <3>1, <3>2, <3>3, <3>4 DEF EndsAt, IsResponse
  <2>2. ASSUME NEW i \in 1..L, ~ IsResponse(ms, i)
        PROVE  \E j \in 1..(i - 1) : IsResponse(new, j) /\ i - j <= Len(new[j].calls)
    <3>1. PICK j \in 1..(i - 1) : IsResponse(ms, j) /\ i - j <= Len(ms[j].calls)
      BY <1>3, <2>2 DEF IsConversation
    <3>2. new[j] = ms[j]
      BY <1>3
    <3>3. QED
      BY <3>1, <3>2 DEF IsResponse
  <2>3. L + 1 > 1 => \E j \in 1..L : EndsAt(new, j, L)
    <3>1. L + 1 > 1 => ms # << >>
      BY <1>3
    <3>2. QED
      BY <1>3, <3>1 DEF EndsAt, IsResponse
  <2>4. \A k \in DOMAIN new[L + 1].calls : ~ (L + 1) + k <= Len(new)
    BY <1>1, <1>3, <1>4
  <2>5. IsResponse(new, L + 1) /\ (L + 1) - 1 = L
    BY <1>1, <1>3 DEF IsResponse
  <2>6. \A i \in 1..L : IsResponse(new, i) <=> IsResponse(ms, i)
    BY <1>3 DEF IsResponse
  <2>7. SUFFICES ASSUME NEW i \in 1..(L + 1)
        PROVE  IF IsResponse(new, i)
                 THEN /\ i > 1 => \E j \in 1..(i - 1) : EndsAt(new, j, i - 1)
                      /\ \A k \in DOMAIN new[i].calls :
                           i + k <= Len(new) => new[i + k] = ToolMessage(new[i].calls[k])
                 ELSE \E j \in 1..(i - 1) : IsResponse(new, j) /\ i - j <= Len(new[j].calls)
    BY <1>3 DEF IsConversation
  <2>8. CASE i = L + 1
    BY <2>3, <2>4, <2>5, <2>8
  <2>9. CASE i # L + 1
    <3>1. i \in 1..L
      BY <1>3, <2>9
    <3>2. QED
      BY <2>1, <2>2, <2>6, <3>1
  <2>10. QED
    BY <2>8, <2>9
<1>8. BlocksApart(new)
  <2>1. SUFFICES ASSUME NEW i \in Responses(new), NEW j \in Responses(new), i < j
                 PROVE  i + Len(new[i].calls) < j
    BY DEF BlocksApart
  <2>2. i \in Responses(ms) /\ new[i] = ms[i]
    BY <1>2, <1>3, <1>5, <2>1
  <2>3. CASE j \in Responses(ms)
    BY <2>1, <2>2, <2>3 DEF BlocksApart
  <2>4. CASE j = L + 1
    BY <1>3, <1>5, <1>6, <2>2, <2>4
  <2>5. QED
    BY <1>2, <2>3, <2>4
<1>9. IsLatest(new, L + 1)
  BY <1>2, <1>3, <1>5 DEF IsLatest
<1>10. QED
  BY <1>7, <1>8, <1>9 DEF new, m

\* The next call of the last response is answered.
LEMMA AnswerKeepsShape ==
  ASSUME NEW ms \in Seq(Messages), IsConversation(ms), BlocksApart(ms),
         NEW j \in DOMAIN ms, IsLatest(ms, j), Len(ms) < j + Len(ms[j].calls),
         NEW c \in Calls, c = ms[j].calls[(Len(ms) - j) + 1]
  PROVE  LET new == Append(ms, ToolMessage(c)) IN
         /\ IsConversation(new) /\ BlocksApart(new)
         /\ IsLatest(new, j) /\ new[j] = ms[j]
<1> DEFINE m == ToolMessage(c)
           new == Append(ms, m)
           L == Len(ms)
<1>1. m \in Messages /\ ~ FromModel(m)
  BY NewMessages
<1>2. Responses(new) = Responses(ms)
  BY AnswerCounts
<1> HIDE DEF m
<1>3. /\ L \in Nat /\ DOMAIN ms = 1..L /\ Len(new) = L + 1 /\ DOMAIN new = 1..(L + 1)
      /\ \A i \in 1..L : new[i] = ms[i]
      /\ new[L + 1] = m
  BY <1>1, Appended
<1> HIDE DEF new
<1>5. \A i \in Responses(ms) : i \in 1..L /\ FromModel(ms[i]) /\ Len(ms[i].calls) \in Nat
                               /\ DOMAIN ms[i].calls = 1..Len(ms[i].calls)
  <2>1. \A i \in Responses(ms) : i \in 1..L /\ ms[i] \in Messages /\ FromModel(ms[i])
    BY <1>3 DEF Responses, IsResponse
  <2>2. QED
    BY <2>1, MessageForm, BatchIsSeq
<1>6. j \in Responses(ms) /\ j \in 1..L /\ Len(ms[j].calls) \in Nat
  BY <1>5 DEF IsLatest
\* No other response is still waiting for this answer.
<1>7. \A i \in Responses(ms) : i # j => i + Len(ms[i].calls) <= L
  <2>1. SUFFICES ASSUME NEW i \in Responses(ms), i # j PROVE i + Len(ms[i].calls) <= L
    OBVIOUS
  <2>2. i <= j
    BY <2>1 DEF IsLatest
  <2>3. i < j => i + Len(ms[i].calls) < j
    BY <1>6, <2>1 DEF BlocksApart
  <2>4. i \in Nat /\ Len(ms[i].calls) \in Nat
    BY <1>5, <2>1
  <2>5. j \in Nat /\ j <= L
    BY <1>3, <1>6
  <2>6. QED
    BY <1>3, <2>1, <2>2, <2>3, <2>4, <2>5, BlockEnd
<1>8. IsConversation(new)
  <2>1. ASSUME NEW i \in 1..L, IsResponse(ms, i)
        PROVE  /\ i > 1 => \E h \in 1..(i - 1) : EndsAt(new, h, i - 1)
               /\ \A k \in DOMAIN new[i].calls :
                    i + k <= Len(new) => new[i + k] = ToolMessage(new[i].calls[k])
    <3>1. new[i] = ms[i] /\ i \in Responses(ms)
      BY <1>3, <2>1 DEF Responses
    <3>2. ASSUME NEW k \in DOMAIN ms[i].calls, i + k <= L + 1
          PROVE  new[i + k] = ToolMessage(ms[i].calls[k])
      <4>1. k \in 1..Len(ms[i].calls) /\ k \in Nat
        BY <1>5, <3>1, <3>2
      <4>2. CASE i + k <= L
        <5>1. ms[i + k] = ToolMessage(ms[i].calls[k])
          BY <1>3, <2>1, <3>2, <4>2 DEF IsConversation
        <5>2. i + k \in 1..L
          BY <1>3, <4>1, <4>2
        <5>3. QED
          BY <1>3, <5>1, <5>2
      <4>3. CASE i + k = L + 1
        <5>1. i = j
          BY <1>3, <1>5, <1>7, <3>1, <4>1, <4>3
        <5>2. k = (L - j) + 1
          BY <1>3, <1>6, <4>1, <4>3, <5>1
        <5>3. QED
          BY <1>3, <4>3, <5>1, <5>2 DEF m
      <4>4. i + k \in Nat /\ (i + k <= L \/ i + k = L + 1)
        <5>1. i \in Nat /\ L \in Nat
          BY <1>3, <2>1
        <5>2. QED
          BY <3>2, <4>1, <5>1
      <4>5. QED
        BY <4>2, <4>3, <4>4
    <3>3. i > 1 => \E h \in 1..(i - 1) : EndsAt(ms, h, i - 1)
      BY <1>3, <2>1 DEF IsConversation
    <3>4. \A h \in 1..(i - 1) : new[h] = ms[h]
      BY <1>3
    <3>5. QED
      BY <1>3, <3>1, <3>2, <3>3, <3>4 DEF EndsAt, IsResponse
  <2>2. ASSUME NEW i \in 1..L, ~ IsResponse(ms, i)
        PROVE  \E h \in 1..(i - 1) : IsResponse(new, h) /\ i - h <= Len(new[h].calls)
    <3>1. PICK h \in 1..(i - 1) : IsResponse(ms, h) /\ i - h <= Len(ms[h].calls)
      BY <1>3, <2>2 DEF IsConversation
    <3>2. new[h] = ms[h]
      BY <1>3
    <3>3. QED
      BY <3>1, <3>2 DEF IsResponse
  <2>3. \E h \in 1..L : IsResponse(new, h) /\ (L + 1) - h <= Len(new[h].calls)
    BY <1>3, <1>5, <1>6 DEF IsResponse
  <2>4. ~ IsResponse(new, L + 1) /\ (L + 1) - 1 = L
    BY <1>1, <1>3 DEF IsResponse
  <2>5. \A i \in 1..L : IsResponse(new, i) <=> IsResponse(ms, i)
    BY <1>3 DEF IsResponse
  <2>6. SUFFICES ASSUME NEW i \in 1..(L + 1)
        PROVE  IF IsResponse(new, i)
                 THEN /\ i > 1 => \E h \in 1..(i - 1) : EndsAt(new, h, i - 1)
                      /\ \A k \in DOMAIN new[i].calls :
                           i + k <= Len(new) => new[i + k] = ToolMessage(new[i].calls[k])
                 ELSE \E h \in 1..(i - 1) : IsResponse(new, h) /\ i - h <= Len(new[h].calls)
    BY <1>3 DEF IsConversation
  <2>7. CASE i = L + 1
    BY <2>3, <2>4, <2>7
  <2>8. CASE i # L + 1
    <3>1. i \in 1..L
      BY <1>3, <2>8
    <3>2. QED
      BY <2>1, <2>2, <2>5, <3>1
  <2>9. QED
    BY <2>7, <2>8
<1>9. \A i \in Responses(ms) : new[i] = ms[i]
  BY <1>3, <1>5
<1>10. BlocksApart(new)
  BY <1>2, <1>9 DEF BlocksApart
<1>11. IsLatest(new, j) /\ new[j] = ms[j]
  BY <1>2, <1>6, <1>9 DEF IsLatest
<1>12. QED
  BY <1>8, <1>10, <1>11 DEF new, m

-----------------------------------------------------------------------------
(* Init and the actions.                                                   *)

\* An empty conversation.
LEMMA EmptyConversation ==
  ASSUME NEW ms, ms = << >>
  PROVE  /\ ms \in Seq(Messages)
         /\ IsConversation(ms) /\ BlocksApart(ms)
         /\ Responses(ms) = {} /\ Cardinality(Responses(ms)) = 0
         /\ \A tr : tr = << >> => IsAnswered(ms, tr) /\ NoRecordIn(tr) /\ tr \in Seq(Calls)
<1>1. DOMAIN ms = {} /\ Len(ms) = 0 /\ ms \in Seq(Messages)
  OBVIOUS
<1>2. Responses(ms) = {} /\ AnswersUpTo(ms, 0) = {}
  BY <1>1 DEF Responses, AnswersUpTo
<1>3. Cardinality({}) = 0
  BY FS_EmptySet
<1>4. \A tr : tr = << >> => DOMAIN tr = {} /\ Len(tr) = 0 /\ tr \in Seq(Calls)
  OBVIOUS
<1>5. QED
  BY <1>1, <1>2, <1>3, <1>4 DEF IsConversation, BlocksApart, IsAnswered, NoRecordIn

LEMMA InitAgentInv == AgentInit => AgentInv
<1> SUFFICES ASSUME AgentInit PROVE AgentInv
  OBVIOUS
<1>1. pc = "ask" /\ messages = << >> /\ llmCallCount = 0 /\ pending = << >> /\ trace = << >>
      /\ flushed = {} /\ returned = None /\ committed = {} /\ deliveries = 1
  BY DEF AgentInit
<1>2. AgentTypeOK
  BY <1>1, EmptyConversation, AgentLoopAssumption DEF AgentTypeOK
<1>3. PendingIsTheRest /\ NoRecordAnswered /\ TraceIsAnswered
  BY <1>1, EmptyConversation DEF PendingIsTheRest, NoRecordAnswered, TraceIsAnswered
<1>4. QED
  BY <1>1, <1>2, <1>3, EmptyConversation DEF AgentInv

\* A response that is not empty is handled from its first call.
LEMMA AskKeepsAgentInv ==
  ASSUME AgentInv, Ask
  PROVE  AgentInv'
<1> DEFINE L == Len(messages)
<1>1. PICK calls \in Batches :
        /\ messages' = Append(messages, Response(calls))
        /\ pending' = calls
        /\ pc' = IF calls = << >> THEN "failed" ELSE "handle"
  BY DEF Ask
<1>2. /\ pc = "ask" /\ llmCallCount < MaxSteps /\ llmCallCount' = llmCallCount + 1
      /\ UNCHANGED <<trace, flushed, returned, committed, deliveries>>
  BY DEF Ask
<1>3. /\ AgentTypeOK /\ IsConversation(messages) /\ BlocksApart(messages)
      /\ PendingIsTheRest /\ NoRecordAnswered /\ TraceIsAnswered
      /\ llmCallCount = Cardinality(Responses(messages)) /\ committed = {}
  BY <1>2 DEF AgentInv
<1>4. messages \in Seq(Messages) /\ calls \in Seq(Calls)
  BY <1>3, BatchIsSeq DEF AgentTypeOK
<1>5. /\ Response(calls) \in Messages /\ FromModel(Response(calls))
      /\ ~ FromTool(Response(calls)) /\ Response(calls).calls = calls
  BY NewMessages
<1>6. /\ messages' \in Seq(Messages) /\ L \in Nat /\ DOMAIN messages = 1..L
      /\ Len(messages') = L + 1 /\ DOMAIN messages' = 1..(L + 1)
      /\ \A i \in 1..L : messages'[i] = messages[i]
      /\ messages'[L + 1] = Response(calls)
  BY <1>1, <1>4, <1>5, Appended
<1>7. pc' \in { "failed", "handle" } /\ (pc' = "handle" => calls # << >>)
  BY <1>1
<1>8. AgentTypeOK'
  <2>1. MaxSteps \in Nat
    BY AgentLoopAssumption
  <2>2. llmCallCount' \in 0..MaxSteps
    BY <1>2, <1>3, <2>1 DEF AgentTypeOK
  <2>3. QED
    BY <1>1, <1>2, <1>3, <1>4, <1>6, <1>7, <2>2 DEF AgentTypeOK
<1>9. IsConversation(messages') /\ BlocksApart(messages') /\ IsLatest(messages', L + 1)
  <2>1. messages # << >> =>
          \E j \in DOMAIN messages : IsLatest(messages, j) /\ EndsAt(messages, j, Len(messages))
    BY <1>2, <1>3 DEF PendingIsTheRest
  <2>2. QED
    BY <1>1, <1>3, <1>4, <2>1, ResponseKeepsShape
<1>10. PendingIsTheRest'
  <2>1. messages'[L + 1].calls = calls /\ L + 1 \in DOMAIN messages' /\ Len(calls) \in Nat
    BY <1>4, <1>5, <1>6
  <2>2. Len(messages') + Len(calls) = (L + 1) + Len(messages'[L + 1].calls)
    BY <1>6, <2>1
  <2>3. \A k \in DOMAIN calls : calls[k] = messages'[L + 1].calls[(Len(messages') - (L + 1)) + k]
    BY <1>4, <1>6, <2>1
  <2>4. QED
    BY <1>1, <1>7, <1>9, <2>1, <2>2, <2>3 DEF PendingIsTheRest
<1>11. NoRecordAnswered'
  BY <1>3, <1>5, <1>6 DEF NoRecordAnswered
<1>12. TraceIsAnswered'
  <2>1. IsAnswered(messages, trace) /\ NoRecordIn(trace) /\ flushed = {} /\ returned = None
    BY <1>2, <1>3 DEF TraceIsAnswered
  <2>2. IsAnswered(messages', trace)
    BY <1>1, <1>4, <2>1, ResponseKeepsAnswers
  <2>3. QED
    BY <1>2, <1>7, <2>1, <2>2 DEF TraceIsAnswered
<1>13. llmCallCount' = Cardinality(Responses(messages'))
  BY <1>1, <1>2, <1>3, <1>4, ResponseCounts
<1>14. (pc' # "committed" => committed' = {}) /\ (pc' = "committed" => committed' = flushed')
  BY <1>2, <1>3, <1>7
<1>15. QED
  BY <1>8, <1>9, <1>10, <1>11, <1>12, <1>13, <1>14 DEF AgentInv

\* Where the next call to be handled stands.
LEMMA NextCall ==
  ASSUME AgentInv, pc \in { "handle", "decided" }
  PROVE  /\ Head(pending) \in Calls /\ Tail(pending) \in Seq(Calls)
         /\ \E j \in DOMAIN messages :
              /\ IsLatest(messages, j)
              /\ Len(messages) < j + Len(messages[j].calls)
              /\ Head(pending) = messages[j].calls[(Len(messages) - j) + 1]
              /\ Len(messages) + 1 + Len(Tail(pending)) = j + Len(messages[j].calls)
              /\ \A k \in DOMAIN Tail(pending) :
                   Tail(pending)[k] = messages[j].calls[((Len(messages) + 1) - j) + k]
<1>1. /\ pending \in Seq(Calls) /\ pending # << >> /\ messages \in Seq(Messages)
      /\ PendingIsTheRest
  BY DEF AgentInv, AgentTypeOK, PendingIsTheRest
<1>2. PICK j \in DOMAIN messages :
        /\ IsLatest(messages, j)
        /\ Len(messages) + Len(pending) = j + Len(messages[j].calls)
        /\ \A k \in DOMAIN pending : pending[k] = messages[j].calls[(Len(messages) - j) + k]
  BY <1>1 DEF PendingIsTheRest
<1>3. /\ Len(pending) \in Nat \ { 0 } /\ Len(Tail(pending)) = Len(pending) - 1
      /\ Head(pending) = pending[1] /\ Head(pending) \in Calls /\ Tail(pending) \in Seq(Calls)
      /\ DOMAIN pending = 1..Len(pending) /\ DOMAIN Tail(pending) = 1..(Len(pending) - 1)
      /\ \A k \in 1..(Len(pending) - 1) : Tail(pending)[k] = pending[k + 1]
  BY <1>1
<1>4. Len(messages) \in Nat /\ j \in 1..Len(messages)
  BY <1>1, <1>2
<1>5. messages[j] \in Messages /\ FromModel(messages[j])
  BY <1>1, <1>2 DEF IsLatest, Responses, IsResponse
<1>6. Len(messages[j].calls) \in Nat
  BY <1>5, MessageForm, BatchIsSeq
<1>7. Head(pending) = messages[j].calls[(Len(messages) - j) + 1]
  <2>1. 1 \in DOMAIN pending
    BY <1>3
  <2>2. QED
    BY <1>2, <1>3, <2>1
<1>8. ASSUME NEW k \in DOMAIN Tail(pending)
      PROVE  Tail(pending)[k] = messages[j].calls[((Len(messages) + 1) - j) + k]
  <2>1. k \in 1..(Len(pending) - 1) /\ k + 1 \in DOMAIN pending
    BY <1>3, <1>8
  <2>2. (Len(messages) - j) + (k + 1) = ((Len(messages) + 1) - j) + k
    BY <1>4, <2>1
  <2>3. pending[k + 1] = messages[j].calls[(Len(messages) - j) + (k + 1)]
    BY <1>2, <2>1
  <2>4. QED
    BY <1>3, <2>1, <2>2, <2>3
<1>9. /\ Len(messages) < j + Len(messages[j].calls)
      /\ Len(messages) + 1 + Len(Tail(pending)) = j + Len(messages[j].calls)
  BY <1>2, <1>3, <1>4, <1>6
<1>10. QED
  BY <1>2, <1>3, <1>7, <1>8, <1>9

LEMMA AnswerKeepsAgentInv ==
  ASSUME AgentInv, Answer
  PROVE  AgentInv'
<1> DEFINE L == Len(messages)
           call == Head(pending)
<1>1. /\ pc = "handle" /\ ~ IsRecord(call)
      /\ trace' = Append(trace, call)
      /\ messages' = Append(messages, ToolMessage(call))
      /\ pending' = Tail(pending)
      /\ pc' = IF Tail(pending) = << >> THEN "ask" ELSE "handle"
      /\ UNCHANGED <<llmCallCount, flushed, returned, committed, deliveries>>
  BY DEF Answer
<1>2. /\ AgentTypeOK /\ IsConversation(messages) /\ BlocksApart(messages)
      /\ NoRecordAnswered /\ TraceIsAnswered
      /\ llmCallCount = Cardinality(Responses(messages)) /\ committed = {}
  BY <1>1 DEF AgentInv
<1>3. messages \in Seq(Messages) /\ trace \in Seq(Calls)
  BY <1>2 DEF AgentTypeOK
<1>4. PICK j \in DOMAIN messages :
        /\ IsLatest(messages, j)
        /\ Len(messages) < j + Len(messages[j].calls)
        /\ call = messages[j].calls[(Len(messages) - j) + 1]
        /\ Len(messages) + 1 + Len(Tail(pending)) = j + Len(messages[j].calls)
        /\ \A k \in DOMAIN Tail(pending) :
             Tail(pending)[k] = messages[j].calls[((Len(messages) + 1) - j) + k]
  BY <1>1, NextCall
<1>5. call \in Calls /\ Tail(pending) \in Seq(Calls)
  BY <1>1, NextCall
<1> HIDE DEF call
<1>6. /\ ToolMessage(call) \in Messages /\ FromTool(ToolMessage(call))
      /\ ToolMessage(call).calls[1] = call
  BY <1>5, NewMessages
<1>7. /\ messages' \in Seq(Messages) /\ L \in Nat /\ DOMAIN messages = 1..L
      /\ Len(messages') = L + 1 /\ DOMAIN messages' = 1..(L + 1)
      /\ \A i \in 1..L : messages'[i] = messages[i]
      /\ messages'[L + 1] = ToolMessage(call)
  BY <1>1, <1>3, <1>6, Appended
<1>8. trace' \in Seq(Calls) /\ Len(trace) \in Nat /\ DOMAIN trace = 1..Len(trace)
      /\ DOMAIN trace' = 1..(Len(trace) + 1)
      /\ (\A i \in 1..Len(trace) : trace'[i] = trace[i]) /\ trace'[Len(trace) + 1] = call
  BY <1>1, <1>3, <1>5, Appended
<1>9. pc' \in { "ask", "handle" } /\ (pc' = "handle" <=> pending' # << >>)
  BY <1>1
<1>10. AgentTypeOK'
  BY <1>1, <1>2, <1>5, <1>7, <1>8, <1>9 DEF AgentTypeOK
<1>11. /\ IsConversation(messages') /\ BlocksApart(messages')
       /\ IsLatest(messages', j) /\ messages'[j] = messages[j]
  BY <1>1, <1>2, <1>3, <1>4, <1>5, AnswerKeepsShape
<1>12. PendingIsTheRest'
  <2>1. j \in DOMAIN messages' /\ Len(messages') = L + 1
    BY <1>4, <1>7
  <2>2. L + 1 + Len(pending') = j + Len(messages'[j].calls)
    BY <1>1, <1>4, <1>11
  <2>3. CASE pending' # << >>
    <3>1. \A k \in DOMAIN pending' :
            pending'[k] = messages'[j].calls[(Len(messages') - j) + k]
      BY <1>1, <1>4, <1>11, <2>1
    <3>2. QED
      BY <1>9, <1>11, <2>1, <2>2, <2>3, <3>1 DEF PendingIsTheRest
  <2>4. CASE pending' = << >>
    <3>1. L + 1 = j + Len(messages'[j].calls)
      BY <1>7, <2>2, <2>4
    <3>2. EndsAt(messages', j, Len(messages'))
      BY <1>11, <2>1, <3>1 DEF EndsAt, IsLatest, Responses
    <3>3. QED
      BY <1>9, <1>11, <2>1, <2>4, <3>2 DEF PendingIsTheRest
  <2>5. QED
    BY <2>3, <2>4
<1>13. NoRecordAnswered'
  BY <1>1, <1>2, <1>6, <1>7 DEF NoRecordAnswered, call
<1>14. TraceIsAnswered'
  <2>1. IsAnswered(messages, trace) /\ NoRecordIn(trace) /\ flushed = {} /\ returned = None
    BY <1>1, <1>2 DEF TraceIsAnswered
  <2>2. IsAnswered(messages', trace')
    BY <1>1, <1>3, <1>5, <2>1, AnswerAddsToTrace DEF call
  <2>3. NoRecordIn(trace')
    BY <1>1, <1>8, <2>1 DEF NoRecordIn, call
  <2>4. QED
    BY <1>1, <1>9, <2>1, <2>2, <2>3 DEF TraceIsAnswered
<1>15. llmCallCount' = Cardinality(Responses(messages'))
  BY <1>1, <1>2, <1>3, <1>5, AnswerCounts DEF call
<1>16. (pc' # "committed" => committed' = {}) /\ (pc' = "committed" => committed' = flushed')
  BY <1>1, <1>2, <1>9
<1>17. QED
  BY <1>10, <1>11, <1>12, <1>13, <1>14, <1>15, <1>16 DEF AgentInv

\* The row is written with the trace before the record is added to it.
LEMMA RecordKeepsAgentInv ==
  ASSUME AgentInv, Record
  PROVE  AgentInv'
<1> DEFINE call == Head(pending)
           row == Row(call)
<1>1. /\ pc = "handle" /\ pc' = "decided" /\ ~ call.raises /\ IsRecord(call)
      /\ flushed' = flushed \cup { row } /\ trace' = Append(trace, call)
      /\ returned' = call.action
      /\ UNCHANGED <<messages, llmCallCount, pending, committed, deliveries>>
  BY DEF Record
<1>2. /\ AgentTypeOK /\ IsConversation(messages) /\ BlocksApart(messages)
      /\ PendingIsTheRest /\ NoRecordAnswered /\ TraceIsAnswered
      /\ llmCallCount = Cardinality(Responses(messages)) /\ committed = {}
  BY <1>1 DEF AgentInv
<1>3. messages \in Seq(Messages) /\ trace \in Seq(Calls) /\ llmCallCount \in 0..MaxSteps
  BY <1>2 DEF AgentTypeOK
<1>4. flushed = {} /\ IsAnswered(messages, trace) /\ NoRecordIn(trace)
  BY <1>1, <1>2 DEF TraceIsAnswered
<1>5. call \in Calls
  BY <1>1, NextCall
<1>6. call \in RecordCalls /\ call.action \in Actions
  BY <1>1, <1>5 DEF Calls, IsRecord, ReadCalls, ReasoningCalls, ProposalCalls, UnknownCalls,
                    RecordCalls
<1>7. llmCallCount \in 1..MaxSteps
  <2>1. \E j : j \in Responses(messages)
    BY <1>1, NextCall DEF IsLatest
  <2>2. Cardinality(Responses(messages)) # 0
    BY <1>3, <2>1, Counts, FS_EmptySet
  <2>3. QED
    BY <1>2, <1>3, <2>2, AgentLoopAssumption
<1>8. row \in Rows /\ row.action = call.action /\ row.trace = trace /\ row.calls = llmCallCount
  BY <1>3, <1>6, <1>7 DEF Row, Rows
<1>9. trace' \in Seq(Calls)
  BY <1>1, <1>3, <1>5
<1> HIDE DEF call, row
<1>10. flushed' = { row }
  BY <1>1, <1>4
<1>11. AgentTypeOK'
  BY <1>1, <1>2, <1>6, <1>8, <1>9, <1>10 DEF AgentTypeOK
<1>12. PendingIsTheRest' /\ NoRecordAnswered'
  BY <1>1, <1>2 DEF PendingIsTheRest, NoRecordAnswered
<1>13. TraceIsAnswered'
  <2>1. row \in flushed' /\ call = Head(pending')
    BY <1>1, <1>10 DEF call
  <2>2. trace' = Append(row.trace, call) /\ row.action = returned' /\ row.calls = llmCallCount'
        /\ call.action = returned' /\ IsAnswered(messages', row.trace) /\ NoRecordIn(row.trace)
    BY <1>1, <1>4, <1>8
  <2>3. QED
    BY <1>1, <1>6, <1>10, <2>1, <2>2 DEF TraceIsAnswered
<1>14. QED
  BY <1>1, <1>2, <1>11, <1>12, <1>13 DEF AgentInv

LEMMA CommitKeepsAgentInv ==
  ASSUME AgentInv, CommitDecision
  PROVE  AgentInv'
<1>1. /\ pc = "decided" /\ pc' = "committed" /\ committed' = committed \cup flushed
      /\ UNCHANGED <<messages, llmCallCount, pending, trace, flushed, returned, deliveries>>
  BY DEF CommitDecision
<1>2. committed = {} /\ committed' = flushed
  BY <1>1 DEF AgentInv
<1>3. AgentTypeOK' /\ PendingIsTheRest' /\ NoRecordAnswered'
  BY <1>1, <1>2 DEF AgentInv, AgentTypeOK, PendingIsTheRest, NoRecordAnswered
<1>4. TraceIsAnswered'
  BY <1>1 DEF AgentInv, TraceIsAnswered
<1>5. QED
  BY <1>1, <1>2, <1>3, <1>4 DEF AgentInv

\* What ends without a decision, and what starts over, leaves none.
LEMMA FailureKeepsAgentInv ==
  ASSUME AgentInv, GiveUp \/ Raise \/ FailAgent
  PROVE  AgentInv'
<1>1. /\ pc # "committed" /\ pc' = "failed"
      /\ UNCHANGED <<messages, llmCallCount, pending, trace, flushed, returned, committed, deliveries>>
  BY DEF GiveUp, Raise, FailAgent
<1>2. AgentTypeOK' /\ PendingIsTheRest' /\ NoRecordAnswered' /\ TraceIsAnswered'
  BY <1>1 DEF AgentInv, AgentTypeOK, PendingIsTheRest, NoRecordAnswered, TraceIsAnswered
<1>3. QED
  BY <1>1, <1>2 DEF AgentInv

LEMMA RedeliverKeepsAgentInv ==
  ASSUME AgentInv, Redeliver
  PROVE  AgentInv'
<1>1. /\ pc # "committed" /\ pc' = "ask" /\ UNCHANGED committed
      /\ deliveries < MaxDeliveries /\ deliveries' = deliveries + 1
      /\ messages' = << >> /\ llmCallCount' = 0 /\ pending' = << >> /\ trace' = << >>
      /\ flushed' = {} /\ returned' = None
  BY DEF Redeliver, Fresh
<1>2. deliveries' \in 1..MaxDeliveries
  BY <1>1, AgentLoopAssumption DEF AgentInv, AgentTypeOK
<1>3. AgentTypeOK'
  BY <1>1, <1>2, EmptyConversation, AgentLoopAssumption DEF AgentInv, AgentTypeOK
<1>4. PendingIsTheRest' /\ NoRecordAnswered' /\ TraceIsAnswered'
  BY <1>1, EmptyConversation DEF PendingIsTheRest, NoRecordAnswered, TraceIsAnswered
<1>5. QED
  BY <1>1, <1>3, <1>4, EmptyConversation DEF AgentInv

-----------------------------------------------------------------------------
(* The theorems.                                                           *)

\* AgentInv is an inductive invariant of the conversation.
THEOREM SpecAgentInv == AgentSpec => []AgentInv
<1>1. ASSUME AgentInv, [AgentNext]_agentVars PROVE AgentInv'
  <2>1. CASE AgentNext
    BY <1>1, <2>1, AskKeepsAgentInv, AnswerKeepsAgentInv, RecordKeepsAgentInv,
       CommitKeepsAgentInv, FailureKeepsAgentInv, RedeliverKeepsAgentInv DEF AgentNext, Turn
  <2>2. CASE UNCHANGED agentVars
    BY <1>1, <2>2 DEF agentVars, AgentInv, AgentTypeOK, PendingIsTheRest, NoRecordAnswered,
                      TraceIsAnswered
  <2>3. QED
    BY <1>1, <2>1, <2>2
<1>2. QED
  BY <1>1, InitAgentInv, PTL DEF AgentSpec

\* Whatever the model calls for, in any number of turns, it is never asked again
\* before each of its calls has its answer, in order.
THEOREM CallsAreAnswered == AgentSpec => []EveryCallIsAnswered
<1>1. AgentInv => EveryCallIsAnswered
  BY DEF AgentInv, EveryCallIsAnswered, PendingIsTheRest
<1>2. QED
  BY <1>1, SpecAgentInv, PTL

\* What is committed is the one row of the decision that propose returned, with
\* the trace of what was answered before it, after any number of redeliveries.
THEOREM DecisionIsOnRecord == AgentSpec => []RecordIsTheDecision
<1>1. ASSUME AgentInv PROVE RecordIsTheDecision
  <2>1. CASE pc # "committed"
    BY <1>1, <2>1 DEF AgentInv, RecordIsTheDecision
  <2>2. CASE pc = "committed"
    <3>1. PICK row \in flushed : \E call \in RecordCalls :
            /\ flushed = { row } /\ row.action = returned /\ row.calls = llmCallCount
            /\ IsAnswered(messages, row.trace) /\ NoRecordIn(row.trace)
      BY <1>1, <2>2 DEF AgentInv, TraceIsAnswered
    <3>2. committed = flushed /\ llmCallCount = Cardinality(Responses(messages))
      BY <1>1, <2>2 DEF AgentInv
    <3>3. QED
      BY <2>2, <3>1, <3>2 DEF RecordIsTheDecision, NoRecordIn
  <2>3. QED
    BY <2>1, <2>2
<1>2. QED
  BY <1>1, SpecAgentInv, PTL

\* The decision is the first record the model made, and all it had called for
\* before that was done and answered.
THEOREM FirstRecordIsTheDecision == AgentSpec => []FirstRecordCounts
<1>1. ASSUME AgentInv, pc = "decided"
      PROVE  /\ \E j \in Responses(messages) : Len(messages) < j + Len(messages[j].calls)
             /\ \A j \in Responses(messages) : \A k \in DOMAIN messages[j].calls :
                  LET call == messages[j].calls[k] IN
                  /\ j + k <= Len(messages) =>
                       ~ IsRecord(call) /\ messages[j + k] = ToolMessage(call)
                  /\ j + k = Len(messages) + 1 =>
                       /\ IsRecord(call) /\ call.action = returned
                       /\ trace[Len(trace)] = call
             /\ IsAnswered(messages, SubSeq(trace, 1, Len(trace) - 1))
  <2> DEFINE L == Len(messages)
  <2>1. PICK j \in DOMAIN messages :
          /\ IsLatest(messages, j)
          /\ L < j + Len(messages[j].calls)
          /\ Head(pending) = messages[j].calls[(L - j) + 1]
    BY <1>1, NextCall
  <2>2. PICK row \in flushed :
          /\ Head(pending) \in RecordCalls /\ Head(pending).action = returned
          /\ trace = Append(row.trace, Head(pending))
          /\ IsAnswered(messages, row.trace)
    BY <1>1 DEF AgentInv, TraceIsAnswered
  <2>3. row.trace \in Seq(Calls) /\ Head(pending) \in Calls
    BY <1>1, <2>2, NextCall DEF AgentInv, AgentTypeOK, Rows
  <2>4. trace[Len(trace)] = Head(pending) /\ SubSeq(trace, 1, Len(trace) - 1) = row.trace
    BY <2>2, <2>3
  <2>5. IsRecord(Head(pending))
    BY <2>2 DEF RecordCalls, IsRecord
  <2>6. /\ messages \in Seq(Messages) /\ L \in Nat /\ DOMAIN messages = 1..L
        /\ IsConversation(messages) /\ BlocksApart(messages) /\ NoRecordAnswered
    BY <1>1 DEF AgentInv, AgentTypeOK
  <2>7. \A i \in Responses(messages) : i \in 1..L /\ IsResponse(messages, i)
          /\ Len(messages[i].calls) \in Nat
          /\ messages[i].calls \in Seq(Calls)
          /\ DOMAIN messages[i].calls = 1..Len(messages[i].calls)
    <3>1. \A i \in Responses(messages) : i \in 1..L /\ messages[i] \in Messages
                                         /\ IsResponse(messages, i)
      BY <2>6 DEF Responses
    <3>2. QED
      BY <3>1, MessageForm, BatchIsSeq DEF IsResponse
  <2>8. ASSUME NEW i \in Responses(messages), NEW k \in DOMAIN messages[i].calls,
               i + k <= L
        PROVE  /\ ~ IsRecord(messages[i].calls[k])
               /\ messages[i + k] = ToolMessage(messages[i].calls[k])
    <3>1. messages[i + k] = ToolMessage(messages[i].calls[k])
      BY <2>6, <2>7, <2>8 DEF IsConversation
    <3>2. messages[i].calls[k] \in Calls /\ i + k \in 1..L
      BY <2>6, <2>7, <2>8
    <3>3. FromTool(messages[i + k]) /\ messages[i + k].calls[1] = messages[i].calls[k]
      BY <3>1, <3>2, NewMessages
    <3>4. QED
      BY <2>6, <3>1, <3>2, <3>3 DEF NoRecordAnswered
  <2>9. ASSUME NEW i \in Responses(messages), NEW k \in DOMAIN messages[i].calls,
               i + k = L + 1
        PROVE  messages[i].calls[k] = Head(pending)
    <3>1. j \in Responses(messages) /\ i <= j
      BY <2>1, <2>9 DEF IsLatest
    <3>2. k \in 1..Len(messages[i].calls)
      BY <2>7, <2>9
    <3>3. i < j => i + Len(messages[i].calls) < j
      BY <2>6, <2>9, <3>1 DEF BlocksApart
    <3>4. i = j
      BY <2>6, <2>7, <2>9, <3>1, <3>2, <3>3
    <3>5. k = (L - j) + 1
      BY <2>6, <2>7, <2>9, <3>1, <3>2, <3>4
    <3>6. QED
      BY <2>1, <3>4, <3>5
  <2>10. j \in Responses(messages)
    BY <2>1 DEF IsLatest
  <2>11. QED
    BY <2>1, <2>2, <2>4, <2>5, <2>8, <2>9, <2>10
<1>2. AgentInv => FirstRecordCounts
  BY <1>1 DEF FirstRecordCounts
<1>3. QED
  BY <1>2, SpecAgentInv, PTL
=============================================================================
