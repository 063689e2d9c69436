-------------------------- MODULE AgentLoopProofs --------------------------
(***************************************************************************)
(* Proofs about AgentLoop, for any limits, any number of runs, tool calls  *)
(* and tokens, any steering and any behaviour of the provider, the tools   *)
(* and the store.                                                          *)
(***************************************************************************)
EXTENDS AgentLoop, SequenceTheorems, TLAPS

\* A response, or the initial value of the variable.
LEMMA ResponseType ==
    ASSUME NEW r \in Response \cup {NoResponse}
    PROVE  /\ r.error \in BOOLEAN /\ r.length \in BOOLEAN /\ r.text \in BOOLEAN
           /\ r.calls \in Nat /\ r.cost \in Nat
           /\ r.error => ~r.length
<1>1. CASE r = NoResponse
  BY <1>1 DEF NoResponse
<1>2. CASE r = ErrorResponse
  <2>1. r = [error |-> TRUE, length |-> FALSE, text |-> FALSE, calls |-> 0, cost |-> 0]
    BY <1>2 DEF ErrorResponse, NoResponse
  <2>2. QED
    BY <2>1
<1>3. CASE r \in [error : {FALSE}, length : BOOLEAN, text : BOOLEAN,
                  calls : 0..MaxCalls, cost : 1..MaxCost]
  <2>1. r.calls \in 0..MaxCalls /\ r.cost \in 1..MaxCost
    BY <1>3
  <2>2. r.calls \in Nat /\ r.cost \in Nat
    BY <2>1, LoopAssumption
  <2>3. r.error \in {FALSE} /\ r.length \in BOOLEAN /\ r.text \in BOOLEAN
    BY <1>3
  <2>4. QED
    BY <2>2, <2>3, Zenon
<1>4. QED
  BY <1>1, <1>2, <1>3 DEF Response

LEMMA NoResponseFields == ~NoResponse.error /\ ~NoResponse.length
  BY DEF NoResponse

-----------------------------------------------------------------------------
(***************************************************************************)
(* The inductive invariant: what each place of the loop knows about the    *)
(* budget, the finalization and the text that would be returned.           *)
(***************************************************************************)
LoopTypes ==
    /\ run \in Nat /\ turn \in 0..MaxTurns
    /\ used \in Nat /\ spent \in Nat
    /\ resp \in Response \cup {NoResponse}
    /\ attempted \in BOOLEAN

\* Wherever a model call may come next, the budget has been checked since the
\* last one.
BudgetLeft ==
    MaxTokens > 0 /\ pc \in {"turn", "compact", "chat", "tools", "finalchat"} => used < MaxTokens

FinalizationIsLast == attempted => pc \in {"finalchat", "idle"}

\* The text in hand is that of the last turn, of the turn before while this
\* turn has not been judged, and never that of a turn that was cut off.
TextInHand ==
    /\ pc \in {"turn", "compact", "chat", "tools"} => ~resp.error /\ ~resp.length
    /\ pc \in {"turn", "tools", "finalize", "finalchat"} => finalText \in {0, turn}
    /\ pc \in {"compact", "chat", "respond"} => turn >= 1 /\ finalText \in {0, turn - 1}
    /\ pc = "after" =>
          \/ finalText \in {0, turn}
          \/ resp.error /\ turn >= 1 /\ finalText = turn - 1
    /\ pc \in {"after", "finalize", "finalchat"} /\ resp.length => finalText = 0

IInv ==
    /\ LoopTypes /\ BudgetLeft /\ FinalizationIsLast /\ TextInHand
    /\ MaxTokensRestored /\ AnswerIsLatest /\ CutOffTurnFailsClosed

LEMMA InitInv == Init => IInv
<1> SUFFICES ASSUME Init PROVE IInv
  OBVIOUS
<1>1. LoopTypes
  <2>1. run \in Nat /\ turn \in 0..MaxTurns /\ used \in Nat /\ spent \in Nat
    BY LoopAssumption DEF Init
  <2>2. resp \in Response \cup {NoResponse} /\ attempted \in BOOLEAN
    BY DEF Init
  <2>3. QED
    BY <2>1, <2>2 DEF LoopTypes
<1>2. BudgetLeft /\ FinalizationIsLast /\ MaxTokensRestored
  BY DEF Init, BudgetLeft, FinalizationIsLast, MaxTokensRestored
<1>3. TextInHand /\ AnswerIsLatest /\ CutOffTurnFailsClosed
  BY LoopAssumption DEF Init, TextInHand, AnswerIsLatest, CutOffTurnFailsClosed
<1>4. QED
  BY <1>1, <1>2, <1>3 DEF IInv

LEMMA RunInv == ASSUME IInv, Run PROVE IInv'
<1>1. LoopTypes'
  <2>1. run' \in Nat /\ turn' \in 0..MaxTurns /\ used' \in Nat /\ spent' \in Nat
    BY LoopAssumption DEF Run, IInv, LoopTypes
  <2>2. resp' \in Response \cup {NoResponse} /\ attempted' \in BOOLEAN
    BY DEF Run
  <2>3. QED
    BY <2>1, <2>2 DEF LoopTypes
<1>2. BudgetLeft' /\ FinalizationIsLast' /\ MaxTokensRestored'
  BY LoopAssumption DEF Run, IInv, BudgetLeft, FinalizationIsLast, MaxTokensRestored
<1>3. TextInHand'
  BY NoResponseFields DEF Run, TextInHand
<1>4. AnswerIsLatest' /\ CutOffTurnFailsClosed'
  BY DEF Run, AnswerIsLatest, CutOffTurnFailsClosed
<1>5. QED
  BY <1>1, <1>2, <1>3, <1>4 DEF IInv

\* Another thread and the clock touch nothing the invariant is about.
LEMMA OutsideInv ==
    ASSUME IInv, UNCHANGED <<pc, run, turn, resp, output, used, spent, finalVars>>
    PROVE  IInv'
  BY DEF IInv, LoopTypes, BudgetLeft, FinalizationIsLast, TextInHand, finalVars,
     MaxTokensRestored, AnswerIsLatest, CutOffTurnFailsClosed

LEMMA LoopStepInv == ASSUME IInv, LoopStep PROVE IInv'
<1> USE LoopAssumption DEF IInv, LoopTypes, BudgetLeft, FinalizationIsLast, TextInHand,
        MaxTokensRestored, AnswerIsLatest, CutOffTurnFailsClosed,
        convVars, limitVars, finalVars, steerVars, FinalTurn, Raised
<1>0. /\ resp.error \in BOOLEAN /\ resp.length \in BOOLEAN /\ resp.calls \in Nat
      /\ resp.error => ~resp.length
  BY ResponseType
<1>1. CASE BeginTurn
  BY <1>1 DEF BeginTurn
<1>2. CASE TurnsExhausted
  BY <1>2 DEF TurnsExhausted
<1>3. CASE BelowThreshold
  BY <1>3 DEF BelowThreshold
<1>4. CASE Compact
  BY <1>4 DEF Compact
<1>5. CASE Chat
  <2>1. PICK r \in Response : /\ resp' = r
                              /\ used' = used + r.cost /\ spent' = spent + r.cost
    BY <1>5 DEF Chat
  <2>2. used' \in Nat /\ spent' \in Nat
    BY <2>1, ResponseType
  <2>3. QED
    BY <1>5, <2>1, <2>2 DEF Chat
<1>6. CASE Raises
  BY <1>6 DEF Raises
<1>7. CASE ProviderError
  BY <1>0, <1>7 DEF ProviderError
<1>8. CASE LengthTruncated
  BY <1>8 DEF LengthTruncated
<1>9. CASE LimitReached
  BY <1>9 DEF LimitReached, Accepted, TurnText
<1>10. CASE Continue
  BY <1>0, <1>10 DEF Continue, Accepted, TurnText, OverBudget
<1>11. CASE ToolBatch
  BY <1>11 DEF ToolBatch
<1>12. CASE AfterLoop
  BY <1>0, <1>12 DEF AfterLoop, WantsFinalAnswer
<1>13. CASE SkipFinalization
  BY <1>13 DEF SkipFinalization
<1>14. CASE BeginFinalization
  BY <1>14 DEF BeginFinalization, OverBudget
<1>15. CASE FinalChat
  <2>1. PICK r \in Response :
          /\ used' = used + r.cost /\ spent' = spent + r.cost
          /\ output' \in {FinalTurn, finalText}
    BY <1>15 DEF FinalChat
  <2>2. used' \in Nat /\ spent' \in Nat
    BY <2>1, ResponseType
  <2>3. pc = "finalchat" /\ pc' = "idle" /\ maxTok' = "full"
        /\ UNCHANGED <<run, turn, resp, attempted>>
    BY <1>15 DEF FinalChat
  <2>4. QED
    BY <2>1, <2>2, <2>3
<1>16. CASE FinalChatRaises
  BY <1>16 DEF FinalChatRaises
<1>17. QED
  BY <1>1, <1>2, <1>3, <1>4, <1>5, <1>6, <1>7, <1>8, <1>9, <1>10, <1>11, <1>12,
     <1>13, <1>14, <1>15, <1>16 DEF LoopStep

LEMMA StepInv == IInv /\ [Next]_vars => IInv'
<1> SUFFICES ASSUME IInv, [Next]_vars PROVE IInv'
  OBVIOUS
<1>1. CASE Run
  BY <1>1, RunInv
<1>2. CASE \E s \in SteerMsg : Steer(s)
  BY <1>2, OutsideInv DEF Steer, limitVars
<1>3. CASE ClockExpires
  BY <1>3, OutsideInv DEF ClockExpires
<1>4. CASE LoopStep
  BY <1>4, LoopStepInv
<1>5. CASE UNCHANGED vars
  BY <1>5, OutsideInv DEF vars, limitVars
<1>6. QED
  BY <1>1, <1>2, <1>3, <1>4, <1>5 DEF Next

LEMMA Invariant == Spec => []IInv
  BY InitInv, StepInv, PTL DEF Spec
-----------------------------------------------------------------------------
\* An answer taken from a turn is the last turn's, or the one before when the
\* last ended in a provider error.
THEOREM AnswersAreLatest == Spec => []AnswerIsLatest
<1>1. IInv => AnswerIsLatest
  BY DEF IInv
<1>2. QED
  BY <1>1, Invariant, PTL

\* After a turn that was cut off by the token limit run() returns no turn's
\* text.
THEOREM CutOffTurnsFailClosed == Spec => []CutOffTurnFailsClosed
<1>1. IInv => CutOffTurnFailsClosed
  BY DEF IInv
<1>2. QED
  BY <1>1, Invariant, PTL

\* provider.max_tokens, lowered for the finalization call, is put back however
\* that call ends.
THEOREM MaxTokensIsRestored == Spec => []MaxTokensRestored
<1>1. IInv => MaxTokensRestored
  BY DEF IInv
<1>2. QED
  BY <1>1, Invariant, PTL

\* The tokens spent grow in three steps only.
LEMMA WhoSpends ==
    ASSUME IInv, [Next]_vars, run' = run, spent' > spent
    PROVE  pc \in {"compact", "chat", "finalchat"}
<1>1. spent \in Nat /\ run \in Nat
  BY DEF IInv, LoopTypes
<1>2. CASE Run
  BY <1>1, <1>2 DEF Run
<1>3. CASE LoopStep
  <2>1. CASE Compact \/ Chat \/ FinalChat
    BY <2>1 DEF Compact, Chat, FinalChat
  <2>2. CASE ~(Compact \/ Chat \/ FinalChat)
    <3>1. spent' = spent
      BY <1>3, <2>2 DEF LoopStep, BeginTurn, TurnsExhausted, BelowThreshold, Raises,
         ProviderError, LengthTruncated, LimitReached, Continue, ToolBatch, AfterLoop,
         SkipFinalization, BeginFinalization, FinalChatRaises, limitVars
    <3>2. QED
      BY <1>1, <3>1
  <2>3. QED
    BY <2>1, <2>2
<1>4. CASE (\E s \in SteerMsg : Steer(s)) \/ ClockExpires \/ UNCHANGED vars
  <2>1. spent' = spent
    BY <1>4 DEF Steer, ClockExpires, vars, limitVars
  <2>2. QED
    BY <1>1, <2>1
<1>5. QED
  BY <1>2, <1>3, <1>4 DEF Next

\* No turn, compaction or finalization calls the model once the tokens counted
\* have reached the budget.
THEOREM BudgetStopsCalls == Spec => NoCallBeyondBudget
<1>1. IInv /\ [Next]_vars
         => (MaxTokens > 0 /\ run' = run /\ spent' > spent => used < MaxTokens)
  BY WhoSpends DEF IInv, BudgetLeft
<1>2. QED
  BY <1>1, Invariant, PTL DEF Spec, NoCallBeyondBudget

\* After the finalization has been attempted nothing but its own end follows in
\* that run.
THEOREM FinalizationIsTheEnd == Spec => NothingAfterFinalization
<1> DEFINE Rest == attempted /\ run' = run =>
                     /\ attempted' /\ turn' = turn
                     /\ toolsRun' = toolsRun
                     /\ pc' = pc \/ pc' = "idle"
<1>1. IInv /\ [Next]_vars => Rest
  <2> SUFFICES ASSUME IInv, [Next]_vars, attempted, run' = run
               PROVE  /\ attempted' /\ turn' = turn
                      /\ toolsRun' = toolsRun
                      /\ pc' = pc \/ pc' = "idle"
    OBVIOUS
  <2>1. pc \in {"finalchat", "idle"} /\ run \in Nat
    BY DEF IInv, FinalizationIsLast, LoopTypes
  <2>2. CASE LoopStep
    BY <2>1, <2>2 DEF LoopStep, BeginTurn, TurnsExhausted, BelowThreshold, Compact, Chat,
       Raises, ProviderError, LengthTruncated, LimitReached, Accepted, Continue, ToolBatch,
       AfterLoop, SkipFinalization, BeginFinalization, FinalChat, FinalChatRaises, finalVars
  <2>3. CASE Run
    BY <2>1, <2>3 DEF Run
  <2>4. CASE (\E s \in SteerMsg : Steer(s)) \/ ClockExpires \/ UNCHANGED vars
    BY <2>4 DEF Steer, ClockExpires, vars, finalVars
  <2>5. QED
    BY <2>2, <2>3, <2>4 DEF Next
<1>2. QED
  BY <1>1, Invariant, PTL DEF Spec, NothingAfterFinalization
-----------------------------------------------------------------------------
(***************************************************************************)
(* The conversation.  It is put together from pieces that hold the answers *)
(* to their own tool calls: a message that is no tool's and asks for none, *)
(* and a turn that asks for tools with its results.  Two such conversations*)
(* one behind the other are one again.                                     *)
(***************************************************************************)
Message == [run : Nat, kind : UserRoles \cup {"system", "assistant", "tool"},
            turn : Nat, n : Nat \cup SteerMsg]
Conversation == Seq(Message)

\* `n' is a number where it says how many.
Counted(s) == \A k \in 1..Len(s) : s[k].kind \in {"assistant", "tool"} => s[k].n \in Nat
Complete(s) == s \in Conversation /\ Counted(s) /\ Answered(s)

LEMMA CompleteConcat ==
    ASSUME NEW s, NEW t, Complete(s), Complete(t)
    PROVE  Complete(s \o t)
<1> DEFINE u == s \o t
           n == Len(s)
           l == Len(t)
<1>1. /\ n \in Nat /\ l \in Nat /\ u \in Conversation /\ Len(u) = n + l
      /\ \A k \in 1..(n + l) : u[k] = IF k <= n THEN s[k] ELSE t[k - n]
  BY ConcatProperties, LenProperties DEF Complete, Conversation
<1> HIDE DEF u, n, l
<1>2. \A k \in 1..n : u[k] = s[k]
  BY <1>1
<1>3. \A k \in 1..l : u[n + k] = t[k]
  BY <1>1
<1>4. \A k \in 1..(n + l) : k \in 1..n \/ (k - n \in 1..l /\ k = n + (k - n))
  BY <1>1
<1>5. Counted(u)
  <2> SUFFICES ASSUME NEW k \in 1..(n + l), u[k].kind \in {"assistant", "tool"}
               PROVE  u[k].n \in Nat
    BY <1>1 DEF Counted
  <2>1. CASE k \in 1..n
    BY <1>2, <2>1 DEF Complete, Counted, n
  <2>2. CASE k - n \in 1..l
    <3>1. u[k] = t[k - n]
      BY <1>1, <1>3, <2>2
    <3> QED
      BY <2>2, <3>1 DEF Complete, Counted, l
  <2> QED
    BY <1>4, <2>1, <2>2
<1>6. Answered(u)
  <2> SUFFICES ASSUME NEW k \in 1..(n + l)
               PROVE  /\ u[k].kind = "tool" =>
                            \E j \in 1..(k - 1) : /\ j + u[k].n = k /\ u[j].kind = "assistant"
                                                  /\ u[j].turn = u[k].turn
                      /\ u[k].kind = "assistant" /\ u[k].n > 0 =>
                            \/ /\ k + u[k].n <= n + l
                               /\ \A i \in 1..u[k].n : u[k + i] = Reply(u[k], "tool", i)
                            \/ /\ k < n + l /\ u[k].n > 1
                               /\ u[k + 1] = Reply(u[k], "batch", u[k].n)
    BY <1>1 DEF Answered
  <2>1. CASE k \in 1..n
    <3>1. u[k] = s[k]
      BY <1>2, <2>1
    <3>2. ASSUME u[k].kind = "tool"
          PROVE  \E j \in 1..(k - 1) : /\ j + u[k].n = k /\ u[j].kind = "assistant"
                                       /\ u[j].turn = u[k].turn
      <4>1. PICK j \in 1..(k - 1) : j + s[k].n = k /\ s[j].kind = "assistant" /\ s[j].turn = s[k].turn
        BY <2>1, <3>1, <3>2 DEF Complete, Answered, n
      <4>2. u[j] = s[j]
        BY <1>1, <1>2, <2>1
      <4> QED
        BY <3>1, <4>1, <4>2
    <3>3. ASSUME u[k].kind = "assistant", u[k].n > 0
          PROVE  \/ /\ k + u[k].n <= n + l
                    /\ \A i \in 1..u[k].n : u[k + i] = Reply(u[k], "tool", i)
                 \/ /\ k < n + l /\ u[k].n > 1
                    /\ u[k + 1] = Reply(u[k], "batch", u[k].n)
      <4>1. s[k].n \in Nat
        BY <2>1, <3>1, <3>3 DEF Complete, Counted, n
      <4>2. CASE k + s[k].n <= n /\ \A i \in 1..s[k].n : s[k + i] = Reply(s[k], "tool", i)
        <5>1. \A i \in 1..s[k].n : u[k + i] = s[k + i]
          BY <1>1, <1>2, <2>1, <4>1, <4>2
        <5> QED
          BY <1>1, <2>1, <3>1, <4>1, <4>2, <5>1
      <4>3. CASE k < n /\ s[k].n > 1 /\ s[k + 1] = Reply(s[k], "batch", s[k].n)
        <5>1. u[k + 1] = s[k + 1]
          BY <1>1, <1>2, <2>1, <4>3
        <5> QED
          BY <1>1, <2>1, <3>1, <4>3, <5>1
      <4> QED
        BY <2>1, <3>1, <3>3, <4>2, <4>3 DEF Complete, Answered, n
    <3> QED
      BY <3>2, <3>3
  <2>2. CASE k - n \in 1..l
    <3> DEFINE h == k - n
    <3>1. h \in 1..l /\ k = n + h /\ u[k] = t[h]
      BY <1>1, <1>3, <2>2
    <3> HIDE DEF h
    <3>2. ASSUME u[k].kind = "tool"
          PROVE  \E j \in 1..(k - 1) : /\ j + u[k].n = k /\ u[j].kind = "assistant"
                                       /\ u[j].turn = u[k].turn
      <4>1. PICK j \in 1..(h - 1) : j + t[h].n = h /\ t[j].kind = "assistant" /\ t[j].turn = t[h].turn
        BY <3>1, <3>2 DEF Complete, Answered, l
      <4>2. t[h].n \in Nat
        BY <3>1, <3>2 DEF Complete, Counted, l
      <4>3. j \in 1..l /\ n + j \in 1..(k - 1)
        BY <1>1, <3>1, <4>1
      <4>4. u[n + j] = t[j]
        BY <1>3, <4>3
      <4>5. (n + j) + t[h].n = n + h
        <5>1. \A x \in Nat : j + x = h => (n + j) + x = n + h
          BY <1>1, <3>1, <4>3
        <5> QED
          BY <4>1, <4>2, <5>1
      <4> QED
        BY <3>1, <4>1, <4>3, <4>4, <4>5
    <3>3. ASSUME u[k].kind = "assistant", u[k].n > 0
          PROVE  \/ /\ k + u[k].n <= n + l
                    /\ \A i \in 1..u[k].n : u[k + i] = Reply(u[k], "tool", i)
                 \/ /\ k < n + l /\ u[k].n > 1
                    /\ u[k + 1] = Reply(u[k], "batch", u[k].n)
      <4>1. t[h].n \in Nat
        BY <3>1, <3>3 DEF Complete, Counted, l
      <4>2. CASE h + t[h].n <= l /\ \A i \in 1..t[h].n : t[h + i] = Reply(t[h], "tool", i)
        <5>1. \A i \in 1..t[h].n : h + i \in 1..l /\ k + i = n + (h + i)
          BY <1>1, <3>1, <4>1, <4>2
        <5>2. \A i \in 1..t[h].n : u[k + i] = t[h + i]
          BY <1>3, <5>1
        <5>3. k + t[h].n <= n + l
          BY <1>1, <3>1, <4>1, <4>2
        <5> QED
          BY <3>1, <4>2, <5>2, <5>3
      <4>3. CASE h < l /\ t[h].n > 1 /\ t[h + 1] = Reply(t[h], "batch", t[h].n)
        <5>1. h + 1 \in 1..l /\ k + 1 = n + (h + 1) /\ k < n + l
          <6>1. h < l
            BY <4>3
          <6> QED
            BY <1>1, <3>1, <6>1
        <5>2. u[k + 1] = t[h + 1]
          BY <1>3, <5>1
        <5> QED
          BY <3>1, <4>3, <5>1, <5>2
      <4> QED
        BY <3>1, <3>3, <4>2, <4>3 DEF Complete, Answered, l
    <3> QED
      BY <3>2, <3>3
  <2> QED
    BY <1>4, <2>1, <2>2
<1> QED
  BY <1>1, <1>5, <1>6 DEF Complete, u

\* A message that is no tool's and asks for none.
LEMMA CompleteQuiet ==
    ASSUME NEW m \in Message, m.kind # "tool", m.kind = "assistant" => m.n = 0
    PROVE  Complete(<<m>>)
<1>1. <<m>> \in Conversation /\ Len(<<m>>) = 1 /\ <<m>>[1] = m
  BY DEF Conversation
<1> QED
  BY <1>1 DEF Complete, Counted, Answered

LEMMA OneBefore ==
    ASSUME NEW m \in Message, NEW t \in Conversation, NEW d \in Nat, Len(t) = d
    PROVE  /\ <<m>> \o t \in Conversation /\ Len(<<m>> \o t) = 1 + d
           /\ (<<m>> \o t)[1] = m
           /\ \A i \in 1..d : (<<m>> \o t)[1 + i] = t[i]
           /\ \A k \in 1..(1 + d) : k = 1 \/ (k - 1 \in 1..d /\ (<<m>> \o t)[k] = t[k - 1])
<1> DEFINE s == <<m>>
           u == s \o t
<1>1. s \in Conversation /\ Len(s) = 1 /\ s[1] = m
  BY DEF Conversation
<1> HIDE DEF s
<1>2. /\ u \in Conversation /\ Len(u) = 1 + d
      /\ \A k \in 1..(1 + d) : u[k] = IF k <= 1 THEN s[k] ELSE t[k - 1]
  BY <1>1, ConcatProperties DEF Conversation
<1> HIDE DEF u
<1>3. /\ 1 \in 1..(1 + d)
      /\ \A i \in 1..d : 1 + i \in 1..(1 + d) /\ ~(1 + i <= 1) /\ (1 + i) - 1 = i
      /\ \A k \in 1..(1 + d) : k = 1 \/ (k - 1 \in 1..d /\ ~(k <= 1))
  OBVIOUS
<1>4. u[1] = m
  BY <1>1, <1>2, <1>3
<1>5. \A i \in 1..d : u[1 + i] = t[i]
  BY <1>2, <1>3
<1>6. \A k \in 1..(1 + d) : k = 1 \/ (k - 1 \in 1..d /\ u[k] = t[k - 1])
  BY <1>2, <1>3
<1> QED
  BY <1>2, <1>4, <1>5, <1>6 DEF u, s

LEMMA TwoMessages ==
    ASSUME NEW x \in Message, NEW y \in Message
    PROVE  /\ <<x>> \o <<y>> \in Conversation /\ Len(<<x>> \o <<y>>) = 2
           /\ (<<x>> \o <<y>>)[1] = x /\ (<<x>> \o <<y>>)[2] = y
<1> DEFINE s == <<x>>
           t == <<y>>
           u == s \o t
<1>1. /\ s \in Seq(Message) /\ Len(s) = 1 /\ s[1] = x
      /\ t \in Seq(Message) /\ Len(t) = 1 /\ t[1] = y
  OBVIOUS
<1> HIDE DEF s, t
<1>2. /\ u \in Seq(Message) /\ Len(u) = Len(s) + Len(t)
      /\ \A k \in 1..(Len(s) + Len(t)) : u[k] = IF k <= Len(s) THEN s[k] ELSE t[k - Len(s)]
  BY <1>1, ConcatProperties
<1> HIDE DEF u
<1>3. Len(u) = 2 /\ u[1] = x /\ u[2] = y
  BY <1>1, <1>2
<1> QED
  BY <1>2, <1>3 DEF u, s, t, Conversation

\* A turn that asks for tools, and its results: one by one, or as a batch.
LEMMA CompleteTurn ==
    ASSUME NEW m \in Message, m.kind = "assistant", m.n \in Nat \ {0}
    PROVE  /\ Complete(<<m>> \o [i \in 1..m.n |-> Reply(m, "tool", i)])
           /\ m.n > 1 => Complete(<<m>> \o <<Reply(m, "batch", m.n)>>)
<1> DEFINE c == m.n
<1>1. <<m>> \in Conversation /\ Len(<<m>>) = 1 /\ <<m>>[1] = m
  BY DEF Conversation
<1>2. /\ \A i \in 1..c : /\ Reply(m, "tool", i) \in Message
                         /\ Reply(m, "tool", i).kind = "tool" /\ Reply(m, "tool", i).n = i
                         /\ Reply(m, "tool", i).turn = m.turn
      /\ Reply(m, "batch", c) \in Message /\ Reply(m, "batch", c).kind = "batch"
  BY DEF Reply, Message, UserRoles
<1>3. Complete(<<m>> \o [i \in 1..c |-> Reply(m, "tool", i)])
  <2> DEFINE t == [i \in 1..c |-> Reply(m, "tool", i)]
             u == <<m>> \o t
  <2>1. t \in Conversation /\ Len(t) = c /\ \A i \in 1..c : t[i] = Reply(m, "tool", i)
    BY <1>2, IsASeq DEF Conversation
  <2> HIDE DEF t
  <2>2. u \in Conversation /\ Len(u) = 1 + c
    BY <2>1, OneBefore
  <2>3. u[1] = m /\ \A i \in 1..c : u[1 + i] = Reply(m, "tool", i)
    BY <2>1, OneBefore
  <2>4. \A k \in 1..(1 + c) : k = 1 \/ (k - 1 \in 1..c /\ u[k] = Reply(m, "tool", k - 1))
    BY <2>1, OneBefore
  <2> HIDE DEF u
  <2>5. Counted(u)
    <3>1. \A k \in 1..(1 + c) : u[k].kind \in {"assistant", "tool"} => u[k].n \in Nat
      BY <1>2, <2>3, <2>4
    <3> QED
      BY <2>2, <3>1 DEF Counted
  <2>6. ASSUME NEW k \in 1..(1 + c), u[k].kind = "tool"
        PROVE  \E j \in 1..(k - 1) : j + u[k].n = k /\ u[j].kind = "assistant" /\ u[j].turn = u[k].turn
    <3>1. k - 1 \in 1..c /\ u[k].n = k - 1 /\ u[k].turn = m.turn
      BY <1>2, <2>3, <2>4, <2>6
    <3>2. 1 \in 1..(k - 1) /\ 1 + u[k].n = k
      BY <3>1
    <3> QED
      BY <2>3, <3>1, <3>2
  <2>7. ASSUME NEW k \in 1..(1 + c), u[k].kind = "assistant"
        PROVE  k + u[k].n <= 1 + c /\ \A i \in 1..u[k].n : u[k + i] = Reply(u[k], "tool", i)
    <3>1. k = 1
      BY <1>2, <2>4, <2>7
    <3> QED
      BY <2>3, <3>1
  <2>8. Answered(u)
    BY <2>2, <2>6, <2>7 DEF Answered
  <2> QED
    BY <2>2, <2>5, <2>8 DEF Complete, u, t
<1>4. ASSUME c > 1 PROVE Complete(<<m>> \o <<Reply(m, "batch", c)>>)
  <2> DEFINE t == <<Reply(m, "batch", c)>>
             u == <<m>> \o t
  <2>1. t \in Conversation /\ Len(t) = 1 /\ t[1] = Reply(m, "batch", c)
    BY <1>2 DEF Conversation
  <2> HIDE DEF t
  <2>2. /\ u \in Conversation /\ Len(u) = 2
        /\ u[1] = m /\ u[2] = Reply(m, "batch", c)
    BY <1>2, TwoMessages DEF t
  <2> HIDE DEF u
  <2>3. Counted(u)
    BY <1>2, <2>2 DEF Counted
  <2>4. Answered(u)
    BY <1>2, <1>4, <2>2 DEF Answered
  <2> QED
    BY <2>2, <2>3, <2>4 DEF Complete, u, t
<1> QED
  BY <1>3, <1>4

\* One conversation behind another that is not empty.
LEMMA Extended ==
    ASSUME NEW s, NEW t, s \in Conversation, t \in Conversation, Len(s) >= 1
    PROVE  /\ s \o t \in Conversation /\ Len(s \o t) >= 1 /\ (s \o t)[1] = s[1]
           /\ Complete(s) /\ Complete(t) => Complete(s \o t)
<1>1. /\ Len(s) \in Nat /\ Len(t) \in Nat
      /\ s \o t \in Conversation /\ Len(s \o t) = Len(s) + Len(t)
      /\ \A k \in 1..(Len(s) + Len(t)) : (s \o t)[k] = IF k <= Len(s) THEN s[k] ELSE t[k - Len(s)]
  BY ConcatProperties, LenProperties DEF Conversation
<1>2. (s \o t)[1] = s[1] /\ Len(s \o t) >= 1
  BY <1>1
<1> QED
  BY <1>1, <1>2, CompleteConcat

LEMMA LastOne ==
    ASSUME NEW s \in Conversation, NEW m \in Message
    PROVE  (s \o <<m>>)[Len(s \o <<m>>)] = m
<1> DEFINE t == <<m>>
<1>1. t \in Conversation /\ Len(t) = 1 /\ t[1] = m
  BY DEF Conversation
<1> HIDE DEF t
<1> DEFINE n == Len(s)
           l == Len(t)
           u == s \o t
<1>2. n \in Nat /\ l = 1
  BY <1>1, LenProperties DEF Conversation
<1>3. /\ Len(u) = n + l
      /\ \A k \in 1..(n + l) : u[k] = IF k <= n THEN s[k] ELSE t[k - n]
  BY <1>1, ConcatProperties DEF Conversation
<1> HIDE DEF n, l, u
<1>4. n + l \in 1..(n + l) /\ ~(n + l <= n) /\ (n + l) - n = 1
  BY <1>2
<1>5. u[Len(u)] = t[1]
  BY <1>3, <1>4
<1> QED
  BY <1>1, <1>5 DEF t, u

Request == Msg("assistant", turn, resp.calls)

Talk ==
    /\ messages \in Conversation /\ inbox \in Seq(SteerMsg) /\ steering \in SteerMsg \cup {Null}
    /\ pc # "idle" => Len(messages) >= 1 /\ messages[1] = System
    /\ pc \notin {"idle", "tools"} => Complete(messages)
    /\ pc = "tools" => resp.calls > 0 /\ \E f : Complete(f) /\ messages = f \o <<Request>>
    /\ pc \in {"compact", "chat"} /\ steering # Null =>
          messages[Len(messages)] = Msg("steer", turn, steering)

LEMMA Kinds ==
    ASSUME IInv, NEW n \in Nat \cup SteerMsg, NEW m \in Nat,
           NEW kind \in UserRoles \cup {"system", "assistant", "tool"}
    PROVE  Msg(kind, m, n) \in Message /\ Msg(kind, m, n).kind = kind /\ Msg(kind, m, n).n = n
  BY DEF IInv, LoopTypes, Message, Msg

LEMMA SystemMessage == System \in Message /\ System.kind = "system"
  BY DEF System, Message

LEMMA TurnsAreNat == IInv => turn \in Nat
  BY LoopAssumption DEF IInv, LoopTypes

\* The messages stay as they are, or something complete is put behind them.
LEMMA SteadyTalk ==
    ASSUME Talk, UNCHANGED <<messages, inbox, run, turn>>, pc \notin {"idle", "tools"}, pc' # "tools",
           steering' \in SteerMsg \cup {Null},
           pc' \in {"compact", "chat"} => pc \in {"compact", "chat"} /\ steering' = steering
    PROVE  Talk'
  BY DEF Talk, Complete, Counted, Answered, Reply, Msg

LEMMA LongerTalk ==
    ASSUME Talk, NEW t, Complete(t), messages' = messages \o t, UNCHANGED <<inbox, steering>>,
           pc \notin {"idle", "tools"}, pc' \notin {"tools", "compact", "chat"}
    PROVE  Talk'
<1>1. /\ messages' \in Conversation /\ Len(messages') >= 1 /\ messages'[1] = System
      /\ Complete(messages')
  BY Extended DEF Talk, Complete
<1> QED
  BY <1>1 DEF Talk, Complete, Counted, Answered, Reply

LEMMA RunTalk == ASSUME IInv, Talk, Run PROVE Talk'
<1> DEFINE x == System
           y == [run |-> run', kind |-> "user", turn |-> 0, n |-> 0]
           s == <<x, y>>
<1>1. run' \in Nat
  BY DEF Run, IInv, LoopTypes
<1>2. /\ x \in Message /\ x.kind = "system"
      /\ y \in Message /\ y.kind = "user"
  BY <1>1, SystemMessage DEF Message, UserRoles
<1> HIDE DEF x, y
<1>3. s \in Conversation /\ Len(s) = 2 /\ s[1] = x /\ s[2] = y
  BY <1>2 DEF Conversation
<1> HIDE DEF s
<1>4. \A k \in 1..Len(s) : s[k].kind \notin {"assistant", "tool"}
  BY <1>2, <1>3
<1>5. Complete(s)
  BY <1>3, <1>4 DEF Complete, Counted, Answered
<1>6. messages' = s /\ pc' = "turn" /\ inbox' = inbox /\ steering' = Null
  BY DEF Run, x, y, s
<1>7. Complete(messages)'
  BY <1>5, <1>6 DEF Complete, Counted, Answered, Reply
<1>8. messages'[1] = System /\ Len(messages') >= 1
  BY <1>3, <1>6 DEF x
<1>9. inbox' \in Seq(SteerMsg)
  BY <1>6 DEF Talk
<1> QED
  BY <1>3, <1>6, <1>7, <1>8, <1>9 DEF Talk

LEMMA BeginTurnTalk == ASSUME IInv, Talk, BeginTurn PROVE Talk'
<1>1. /\ pc = "turn" /\ pc' = "compact" /\ turn' = turn + 1 /\ turn' \in Nat /\ run' = run
  BY TurnsAreNat DEF BeginTurn
<1>2. CASE inbox = <<>>
  BY <1>1, <1>2 DEF BeginTurn, Talk, Complete, Counted, Answered, Reply
<1>3. CASE inbox # <<>>
  <2> DEFINE h == Head(inbox)
             m == Msg("steer", turn', h)
             s == messages \o <<m>>
  <2>1. h \in SteerMsg /\ Tail(inbox) \in Seq(SteerMsg)
    BY <1>3, HeadTailProperties DEF Talk
  <2>2. m \in Message /\ m.kind = "steer"
    BY <1>1, <2>1 DEF IInv, LoopTypes, Message, Msg, UserRoles
  <2>3. messages' = s /\ steering' = h /\ inbox' = Tail(inbox)
    BY <1>3 DEF BeginTurn, Extend
  <2>4. m = [run |-> run, kind |-> "steer", turn |-> turn', n |-> h]
    BY DEF Msg
  <2> HIDE DEF m, h
  <2>5. Complete(<<m>>)
    BY <2>2, CompleteQuiet
  <2>6. s \in Conversation /\ Len(s) >= 1 /\ s[1] = System /\ Complete(s)
    BY <1>1, <2>5, Extended DEF Talk, Complete
  <2>7. s[Len(s)] = m
    BY <2>2, LastOne DEF Talk
  <2>8. m = Msg("steer", turn, steering)'
    BY <1>1, <2>3, <2>4 DEF Msg
  <2> HIDE DEF s
  <2>9. Complete(messages)'
    BY <2>3, <2>6 DEF Complete, Counted, Answered, Reply
  <2> QED
    BY <1>1, <2>1, <2>3, <2>6, <2>7, <2>8, <2>9 DEF Talk
<1> QED
  BY <1>2, <1>3

\* The prompt, the summary, and the last message only if it is a user's.
LEMMA CompactTalk == ASSUME IInv, Talk, Compact PROVE Talk'
<1>1. /\ pc = "compact" /\ pc' = "chat"
      /\ UNCHANGED <<run, turn, inbox, steering, resp>>
  BY DEF Compact, steerVars
<1>2. CASE messages' = messages
  BY <1>1, <1>2 DEF Talk, Complete, Counted, Answered, Reply, Msg
<1>3. CASE \E ok \in BOOLEAN : messages' = Compacted(ok)
  <2> DEFINE last == messages[Len(messages)]
             start == <<System>>
  <2>1. PICK carryover : /\ carryover \in Message /\ carryover.kind = "carryover"
                         /\ messages' = (start \o <<carryover>>) \o IfOfKind(last, UserRoles)
    <3>1. PICK ok \in BOOLEAN : messages' = Compacted(ok)
      BY <1>3
    <3> DEFINE n == IF ok THEN 1 ELSE 0
               c == Msg("carryover", turn, n)
    <3>2. n \in Nat \cup SteerMsg /\ turn \in Nat
      BY TurnsAreNat
    <3> HIDE DEF n
    <3>3. c \in Message /\ c.kind = "carryover"
      BY <3>2, Kinds DEF UserRoles
    <3>4. IfOfKind(messages[1], {"system"}) = start
      BY <1>1, SystemMessage DEF Talk, IfOfKind
    <3>5. messages' = (start \o <<c>>) \o IfOfKind(last, UserRoles)
      BY <3>1, <3>4 DEF Compacted, n
    <3> HIDE DEF c
    <3> QED
      BY <3>3, <3>5
  <2>2. last \in Message
    <3>1. Len(messages) \in 1..Len(messages)
      BY <1>1, LenProperties DEF Talk, Conversation
    <3> QED
      BY <1>1, <3>1, ElementOfSeq DEF Talk, Conversation
  <2> DEFINE two == start \o <<carryover>>
  <2>3. two \in Conversation /\ Len(two) = 2 /\ two[1] = System
    BY <2>1, SystemMessage, TwoMessages
  <2>4. Complete(two)
    BY <2>1, SystemMessage, CompleteQuiet, CompleteConcat
  <2> HIDE DEF start, two, last
  <2>5. CASE last.kind \notin UserRoles
    <3>1. messages' = two /\ steering = Null
      <4>1. messages' = two \o <<>>
        BY <2>1, <2>5 DEF IfOfKind, two
      <4>2. two \o <<>> = two
        BY <2>3, ConcatEmptySeq DEF Conversation
      <4>3. steering # Null => last.kind = "steer"
        BY <1>1 DEF Talk, Msg, last
      <4> QED
        BY <2>5, <4>1, <4>2, <4>3 DEF UserRoles
    <3> QED
      <4>1. Complete(messages)'
        BY <2>4, <3>1 DEF Complete, Counted, Answered, Reply
      <4> QED
        BY <1>1, <2>3, <3>1, <4>1 DEF Talk
  <2>6. CASE last.kind \in UserRoles
    <3>1. messages' = two \o <<last>>
      BY <2>1, <2>6 DEF IfOfKind, two
    <3>2. Complete(<<last>>)
      BY <2>2, <2>6, CompleteQuiet DEF UserRoles
    <3> DEFINE s == two \o <<last>>
    <3>3. s \in Conversation /\ Len(s) >= 1 /\ s[1] = System /\ Complete(s)
      BY <2>3, <2>4, <3>2, Extended DEF Complete
    <3>4. s[Len(s)] = last
      BY <2>2, <2>3, LastOne
    <3> HIDE DEF s
    <3>5. messages' = s
      BY <3>1 DEF s
    <3>6. Complete(messages)'
      BY <3>3, <3>5 DEF Complete, Counted, Answered, Reply
    <3>7. steering' # Null => messages'[Len(messages')] = Msg("steer", turn, steering)'
      BY <1>1, <3>4, <3>5 DEF Talk, Msg, last
    <3> QED
      BY <1>1, <3>3, <3>5, <3>6, <3>7 DEF Talk
  <2> QED
    BY <2>5, <2>6
<1> QED
  BY <1>2, <1>3 DEF Compact

\* The results go behind the request they answer.
LEMMA ToolBatchTalk == ASSUME IInv, Talk, ToolBatch PROVE Talk'
<1>1. /\ pc = "tools" /\ pc' = "turn" /\ UNCHANGED <<run, turn, inbox, steering, resp>>
  BY DEF ToolBatch, steerVars
<1>2. resp.calls \in Nat \ {0} /\ turn \in Nat
  BY <1>1, ResponseType, TurnsAreNat DEF Talk, IInv, LoopTypes
<1> DEFINE m == Request
<1>3. m \in Message /\ m.kind = "assistant" /\ m.n = resp.calls
  BY <1>2, Kinds DEF Request
<1>4. PICK f : Complete(f) /\ messages = f \o <<m>>
  BY <1>1 DEF Talk
<1>5. PICK t : Complete(<<m>> \o t) /\ t \in Conversation /\ messages' = messages \o t
  <2>1. CASE Coalesce /\ resp.calls > 1
    <3>1. messages' = messages \o <<Msg("batch", turn, resp.calls)>>
      BY <2>1 DEF ToolBatch, Extend
    <3>2. Msg("batch", turn, resp.calls) = Reply(m, "batch", m.n)
      BY <1>3 DEF Reply, Request, Msg
    <3>3. Msg("batch", turn, resp.calls) \in Message
      BY <1>2, Kinds DEF UserRoles
    <3>4. <<Msg("batch", turn, resp.calls)>> \in Conversation
      BY <3>3 DEF Conversation
    <3> QED
      BY <1>2, <1>3, <2>1, <3>1, <3>2, <3>4, CompleteTurn
  <2>2. CASE ~(Coalesce /\ resp.calls > 1)
    <3> DEFINE t == [i \in 1..resp.calls |-> Msg("tool", turn, i)]
    <3>1. messages' = messages \o t
      BY <2>2 DEF ToolBatch, Extend
    <3>2. t = [i \in 1..m.n |-> Reply(m, "tool", i)]
      BY <1>3 DEF Reply, Request, Msg
    <3>3. \A i \in 1..resp.calls : Msg("tool", turn, i) \in Message
      BY <1>2, Kinds
    <3>4. t \in Conversation
      BY <1>2, <3>3, IsASeq DEF Conversation
    <3> HIDE DEF t
    <3> QED
      BY <1>2, <1>3, <3>1, <3>2, <3>4, CompleteTurn
  <2> QED
    BY <2>1, <2>2
<1>6. <<m>> \in Conversation
  BY <1>3 DEF Conversation
<1> HIDE DEF m
<1>7. messages' = f \o (<<m>> \o t)
  BY <1>4, <1>5, <1>6, ConcatAssociative DEF Complete, Conversation
<1>8. Complete(messages')
  BY <1>4, <1>5, <1>7, CompleteConcat
<1>9. /\ messages' \in Conversation /\ Len(messages') >= 1 /\ messages'[1] = System
  BY <1>1, <1>5, Extended DEF Talk
<1>10. Complete(messages)'
  BY <1>8 DEF Complete, Counted, Answered, Reply
<1> QED
  BY <1>1, <1>9, <1>10 DEF Talk

LEMMA ContinueTalk == ASSUME IInv, Talk, Continue PROVE Talk'
<1>1. /\ pc = "respond" /\ UNCHANGED <<run, turn, inbox, steering, resp>>
      /\ messages' = messages \o <<Request>>
      /\ pc' = "tools" => resp.calls > 0
      /\ pc' # "tools" => ~(resp.calls > 0)
      /\ pc' \in {"tools", "finalize", "after"}
  BY DEF Continue, Accepted, Extend, steerVars, Request
<1>2. resp.calls \in Nat /\ turn \in Nat
  BY ResponseType, TurnsAreNat DEF IInv, LoopTypes
<1>3. Request \in Message /\ Request.kind = "assistant" /\ Request.n = resp.calls
  BY <1>2, Kinds DEF Request
<1>4. CASE pc' # "tools"
  <2>1. Complete(<<Request>>)
    BY <1>1, <1>2, <1>3, <1>4, CompleteQuiet
  <2> QED
    BY <1>1, <1>4, <2>1, LongerTalk
<1>5. CASE pc' = "tools"
  <2>1. <<Request>> \in Conversation
    BY <1>3 DEF Conversation
  <2>2. messages' \in Conversation /\ Len(messages') >= 1 /\ messages'[1] = System
    BY <1>1, <2>1, Extended DEF Talk
  <2>3. Request' = Request
    BY <1>1 DEF Request, Msg
  <2>4. Complete(messages) /\ messages' = messages \o <<Request'>>
    BY <1>1, <2>3 DEF Talk
  <2>5. \E f : Complete(f) /\ messages' = f \o <<Request'>>
    BY <2>4
  <2> QED
    BY <1>1, <1>5, <2>2, <2>5 DEF Talk, Complete, Counted, Answered, Reply
<1> QED
  BY <1>4, <1>5

\* What Talk looks at stays as it is.
LEMMA SameTalk ==
    ASSUME Talk, UNCHANGED <<pc, run, turn, resp, messages, steering>>, inbox' \in Seq(SteerMsg)
    PROVE  Talk'
<1>1. Request' = Request /\ Msg("steer", turn, steering)' = Msg("steer", turn, steering)
  BY DEF Request, Msg
<1>2. Complete(messages) => Complete(messages)'
  BY DEF Complete, Counted, Answered, Reply
<1>3. (\E f : Complete(f) /\ messages = f \o <<Request>>) =>
          (\E f : Complete(f) /\ messages = f \o <<Request>>)'
  <2>1. ASSUME NEW f, Complete(f) /\ messages = f \o <<Request>>
        PROVE  (Complete(f) /\ messages = f \o <<Request>>)'
    <3>1. messages' = f \o <<Request'>>
      BY <1>1, <2>1
    <3> QED
      BY <2>1, <3>1 DEF Complete, Counted, Answered, Reply
  <2> QED
    BY <2>1
<1> QED
  BY <1>1, <1>2, <1>3 DEF Talk

LEMMA StepTalk == ASSUME IInv, Talk, [Next]_vars PROVE Talk'
<1>1. CASE UNCHANGED vars
  BY <1>1, SameTalk DEF vars, convVars, steerVars, Talk
<1>2. ASSUME NEW s \in SteerMsg, Steer(s) PROVE Talk'
  <2>1. inbox' \in Seq(SteerMsg)
    BY <1>2, AppendProperties DEF Steer, Talk
  <2> QED
    BY <1>2, <2>1, SameTalk DEF Steer, convVars
<1>3. CASE ClockExpires
  BY <1>3, SameTalk DEF ClockExpires, convVars, steerVars, Talk
<1>4. CASE LoopStep
  <2>1. CASE BeginTurn
    BY <2>1, BeginTurnTalk
  <2>2. CASE Compact
    BY <2>2, CompactTalk
  <2>3. CASE Continue
    BY <2>3, ContinueTalk
  <2>4. CASE ToolBatch
    BY <2>4, ToolBatchTalk
  <2>5. CASE TurnsExhausted \/ BelowThreshold \/ Chat \/ ProviderError \/ LengthTruncated \/ LimitReached
             \/ AfterLoop \/ SkipFinalization \/ FinalChatRaises
    <3>1. /\ UNCHANGED <<messages, inbox, run, turn, steering>>
          /\ pc \notin {"idle", "tools"} /\ pc' # "tools"
          /\ pc' \in {"compact", "chat"} => pc \in {"compact", "chat"}
      BY <2>5 DEF TurnsExhausted, BelowThreshold, Chat, ProviderError, LengthTruncated, LimitReached,
         Accepted, AfterLoop, SkipFinalization, FinalChatRaises, convVars, steerVars
    <3> QED
      BY <3>1, SteadyTalk DEF Talk
  <2>6. CASE Raises
    BY <2>6 DEF Raises, Talk, convVars, steerVars
  <2>7. CASE BeginFinalization
    <3> DEFINE m == Msg("finalprompt", turn, 0)
    <3>1. /\ pc = "finalize" /\ pc' = "finalchat" /\ messages' = messages \o <<m>>
          /\ UNCHANGED <<inbox, steering>>
      BY <2>7 DEF BeginFinalization, Extend, steerVars
    <3>2. m \in Message /\ m.kind = "finalprompt"
      BY Kinds, TurnsAreNat DEF UserRoles
    <3>3. Complete(<<m>>)
      BY <3>2, CompleteQuiet
    <3> QED
      BY <3>1, <3>3, LongerTalk
  <2>8. CASE FinalChat
    <3> DEFINE m == Msg("assistant", FinalTurn, 0)
    <3>1. /\ pc = "finalchat" /\ pc' = "idle" /\ UNCHANGED <<inbox, steering, run, turn>>
          /\ messages' = messages \/ messages' = messages \o <<m>>
      BY <2>8 DEF FinalChat, Extend, steerVars
    <3>2. m \in Message /\ m.kind = "assistant" /\ m.n = 0
      BY LoopAssumption, Kinds DEF FinalTurn
    <3>3. Complete(<<m>>)
      BY <3>2, CompleteQuiet
    <3>4. CASE messages' = messages
      BY <3>1, <3>4, SteadyTalk DEF Talk
    <3> QED
      BY <3>1, <3>3, <3>4, LongerTalk
  <2> QED
    BY <1>4, <2>1, <2>2, <2>3, <2>4, <2>5, <2>6, <2>7, <2>8 DEF LoopStep
<1>5. CASE Run
  BY <1>5, RunTalk
<1> QED
  BY <1>1, <1>2, <1>3, <1>4, <1>5 DEF Next

LEMMA TalkInvariant == Spec => []Talk
<1>1. Init => Talk
  BY DEF Init, Talk, Conversation
<1>2. IInv /\ Talk /\ [Next]_vars => Talk'
  BY StepTalk
<1> QED
  BY <1>1, <1>2, Invariant, PTL DEF Spec

\* Every request is a legal conversation, after compaction, steering, coalescing
\* and finalization too.
THEOREM ToolCallsAreAnswered == Spec => []ToolCallsAnswered
<1>1. Talk => ToolCallsAnswered
  BY DEF Talk, ToolCallsAnswered, AtModelCall, Complete
<1> QED
  BY <1>1, TalkInvariant, PTL

\* A steering message is the last thing the model reads in the turn it was taken in.
THEOREM SteeringIsRead == Spec => []SteeringReachesModel
<1>1. Talk => SteeringReachesModel
  BY DEF Talk, SteeringReachesModel
<1> QED
  BY <1>1, TalkInvariant, PTL
-----------------------------------------------------------------------------
LEMMA ElementsOfBoth ==
    ASSUME NEW s \in Conversation, NEW t \in Conversation
    PROVE  ToSet(s \o t) = ToSet(s) \cup ToSet(t)
<1> DEFINE n == Len(s)
           l == Len(t)
           u == s \o t
<1>1. n \in Nat /\ l \in Nat /\ DOMAIN s = 1..n /\ DOMAIN t = 1..l
  BY LenProperties DEF Conversation
<1>2. /\ DOMAIN u = 1..(n + l)
      /\ \A k \in 1..(n + l) : u[k] = IF k <= n THEN s[k] ELSE t[k - n]
  BY ConcatProperties, LenProperties DEF Conversation
<1> HIDE DEF n, l, u
<1>3. ASSUME NEW k \in 1..(n + l) PROVE u[k] \in ToSet(s) \cup ToSet(t)
  <2>1. CASE k <= n
    BY <1>1, <1>2, <2>1 DEF ToSet
  <2>2. CASE ~(k <= n)
    <3>1. k - n \in 1..l /\ u[k] = t[k - n]
      BY <1>1, <1>2, <2>2
    <3> QED
      BY <1>1, <3>1 DEF ToSet
  <2> QED
    BY <2>1, <2>2
<1>4. ASSUME NEW k \in 1..n PROVE s[k] \in ToSet(u)
  <2>1. k \in 1..(n + l) /\ u[k] = s[k]
    BY <1>1, <1>2
  <2> QED
    BY <1>2, <2>1 DEF ToSet
<1>5. ASSUME NEW k \in 1..l PROVE t[k] \in ToSet(u)
  <2>1. n + k \in 1..(n + l) /\ ~(n + k <= n) /\ (n + k) - n = k
    BY <1>1
  <2>2. u[n + k] = t[k]
    BY <1>2, <2>1
  <2> QED
    BY <1>2, <2>1, <2>2 DEF ToSet
<1>6. ToSet(u) = ToSet(s) \cup ToSet(t)
  BY <1>1, <1>2, <1>3, <1>4, <1>5 DEF ToSet
<1> QED
  BY <1>6 DEF u

\* What is put behind the conversation is in it, and nothing else is new.
LEMMA ExtendedHistory ==
    ASSUME Talk, HistoryPreserved, NEW t \in Conversation, Extend(t), saved' = saved
    PROVE  HistoryPreserved'
<1>1. ToSet(messages \o t) = ToSet(messages) \cup ToSet(t)
  BY ElementsOfBoth DEF Talk
<1> QED
  BY <1>1 DEF HistoryPreserved, Extend

\* With a store that takes what it is given, compaction loses no message.
THEOREM CompactionLosesNothing ==
    ASSUME Store = "reliable" PROVE Spec => []HistoryPreserved
<1>1. Init => HistoryPreserved
  BY DEF Init, HistoryPreserved
<1>2. ASSUME IInv, Talk, HistoryPreserved, [Next]_vars PROVE HistoryPreserved'
  <2>1. CASE Run
    BY <2>1 DEF Run, HistoryPreserved
  <2>2. CASE UNCHANGED convVars
    BY <1>2, <2>2 DEF convVars, HistoryPreserved
  <2>3. CASE Compact
    <3>1. saved' = saved \cup ToSet(messages)
      BY <2>3 DEF Compact, SaveHistory
    <3>2. seen' \subseteq seen \cup ToSet(messages')
      BY <2>3 DEF Compact
    <3> QED
      BY <1>2, <3>1, <3>2 DEF HistoryPreserved
  <2>4. CASE BeginTurn
    <3>1. CASE inbox = <<>>
      BY <1>2, <2>4, <3>1 DEF BeginTurn, HistoryPreserved
    <3>2. CASE inbox # <<>>
      <4> DEFINE m == Msg("steer", turn', Head(inbox))
      <4>1. Extend(<<m>>) /\ saved' = saved
        BY <2>4, <3>2 DEF BeginTurn
      <4>2. turn' \in Nat /\ Head(inbox) \in SteerMsg
        BY <1>2, <2>4, <3>2, TurnsAreNat, HeadTailProperties DEF BeginTurn, Talk
      <4>3. m \in Message
        BY <1>2, <4>2 DEF IInv, LoopTypes, Message, Msg, UserRoles
      <4>4. <<m>> \in Conversation
        BY <4>3 DEF Conversation
      <4> QED
        BY <1>2, <4>1, <4>4, ExtendedHistory
    <3> QED
      BY <3>1, <3>2
  <2>5. CASE Continue
    <3>1. Extend(<<Request>>) /\ saved' = saved
      BY <2>5 DEF Continue, Request
    <3>2. resp.calls \in Nat /\ turn \in Nat
      BY <1>2, ResponseType, TurnsAreNat DEF IInv, LoopTypes
    <3>3. <<Request>> \in Conversation
      BY <1>2, <3>2, Kinds DEF Request, Conversation
    <3> QED
      BY <1>2, <3>1, <3>3, ExtendedHistory
  <2>6. CASE ToolBatch
    <3>1. resp.calls \in Nat /\ turn \in Nat
      BY <1>2, ResponseType, TurnsAreNat DEF IInv, LoopTypes
    <3>2. CASE Coalesce /\ resp.calls > 1
      <4> DEFINE m == Msg("batch", turn, resp.calls)
      <4>1. Extend(<<m>>) /\ saved' = saved
        BY <2>6, <3>2 DEF ToolBatch
      <4>2. m \in Message
        BY <1>2, <3>1, Kinds DEF UserRoles
      <4>3. <<m>> \in Conversation
        BY <4>2 DEF Conversation
      <4> QED
        BY <1>2, <4>1, <4>3, ExtendedHistory
    <3>3. CASE ~(Coalesce /\ resp.calls > 1)
      <4> DEFINE t == [i \in 1..resp.calls |-> Msg("tool", turn, i)]
      <4>1. Extend(t) /\ saved' = saved
        BY <2>6, <3>3 DEF ToolBatch
      <4>2. \A i \in 1..resp.calls : Msg("tool", turn, i) \in Message
        BY <1>2, <3>1, Kinds
      <4>3. t \in Conversation
        BY <3>1, <4>2, IsASeq DEF Conversation
      <4> QED
        BY <1>2, <4>1, <4>3, ExtendedHistory
    <3> QED
      BY <3>2, <3>3
  <2>7. CASE BeginFinalization
    <3> DEFINE m == Msg("finalprompt", turn, 0)
    <3>1. Extend(<<m>>) /\ saved' = saved
      BY <2>7 DEF BeginFinalization
    <3>2. m \in Message
      BY <1>2, Kinds, TurnsAreNat DEF UserRoles
    <3>3. <<m>> \in Conversation
      BY <3>2 DEF Conversation
    <3> QED
      BY <1>2, <3>1, <3>3, ExtendedHistory
  <2>8. CASE FinalChat
    <3> DEFINE m == Msg("assistant", FinalTurn, 0)
    <3>1. saved' = saved /\ (Extend(<<m>>) \/ UNCHANGED <<messages, seen>>)
      BY <2>8 DEF FinalChat
    <3>2. m \in Message
      BY <1>2, LoopAssumption, Kinds DEF FinalTurn
    <3>3. <<m>> \in Conversation
      BY <3>2 DEF Conversation
    <3> QED
      BY <1>2, <3>1, <3>3, ExtendedHistory DEF HistoryPreserved
  <2>9. CASE TurnsExhausted \/ BelowThreshold \/ Chat \/ Raises \/ ProviderError \/ LengthTruncated
             \/ LimitReached \/ AfterLoop \/ SkipFinalization \/ FinalChatRaises
    BY <2>2, <2>9 DEF TurnsExhausted, BelowThreshold, Chat, Raises, ProviderError, LengthTruncated,
       LimitReached, AfterLoop, SkipFinalization, FinalChatRaises
  <2> QED
    BY <1>2, <2>1, <2>2, <2>3, <2>4, <2>5, <2>6, <2>7, <2>8, <2>9
       DEF Next, LoopStep, Steer, ClockExpires, vars
<1> QED
  BY <1>1, <1>2, Invariant, TalkInvariant, PTL DEF Spec
=============================================================================
