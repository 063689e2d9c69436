----------------------------- MODULE AgentLoop -----------------------------
(***************************************************************************)
(* agent_framework/loop.py: one AgentLoop object.  Its thread alternates   *)
(* model calls and tool batches; another thread steers it through a queue; *)
(* the clock may pass max_wall_clock_seconds at any moment.  Tools and the *)
(* provider are black boxes: any response, and exceptions.                 *)
(*                                                                         *)
(* Data: a message is its role and what it stands for; a text is the turn  *)
(* whose response it is.  Whether a conversation is over the compaction    *)
(* threshold depends on the length of its texts and is left open.          *)
(* _hard_truncate is left out: _self_compact handles the exceptions of the *)
(* store and of the provider, the only ones that could lead there.         *)
(***************************************************************************)
EXTENDS Integers, Sequences, FiniteSets, SequencesExt

CONSTANTS MaxTurns,    \* max_turns
          MaxTokens,   \* max_total_tokens, 0 = unlimited
          HasDeadline, \* max_wall_clock_seconds > 0
          Finalize,    \* finalize_empty_tool_response
          Coalesce,    \* coalesce_results and provider.coalesce_tool_results
          Store,       \* the session store: "none", "reliable" or "failing"
          SteerMsg,    \* the messages another thread may steer with
          MaxRuns,     \* bound: calls of run() on this object
          MaxCalls,    \* bound: tool calls in one response
          MaxCost,     \* bound: tokens of one response
          Null

ASSUME LoopAssumption ==
    /\ MaxTurns \in Nat /\ MaxTokens \in Nat /\ MaxRuns \in Nat
    /\ MaxCalls \in Nat /\ MaxCost \in Nat \ {0}
    /\ HasDeadline \in BOOLEAN /\ Finalize \in BOOLEAN /\ Coalesce \in BOOLEAN
    /\ Store \in {"none", "reliable", "failing"}
    /\ Null \notin SteerMsg

VARIABLES
    pc,         \* where the loop's thread is
    run,        \* number of the current run()
    turn,       \* turn_count
    messages,   \* self.messages
    inbox,      \* steering_queue
    sent,       \* the steering messages put so far
    steering,   \* the one taken in this turn, or Null
    used,       \* total_usage
    spent,      \* tokens of every call made in this run, compaction included
    resp,       \* the local variable response
    toolsRun,   \* tools_executed
    attempted,  \* finalization_attempted
    rejected,   \* last_response_rejected
    finalText,  \* final_text: 0 when empty, else the source of the text
    output,     \* what the last run() returned, or Raised
    expired,    \* the wall clock limit has passed
    maxTok,     \* provider.max_tokens: "full" or "clamped"
    saved,      \* the messages of this run in the session store
    seen        \* every message the conversation of this run has held

convVars == <<messages, saved, seen>>
limitVars == <<used, spent, expired>>
finalVars == <<attempted, rejected, finalText, maxTok>>
steerVars == <<inbox, sent, steering>>
vars == <<pc, run, turn, resp, toolsRun, output, convVars, limitVars, finalVars, steerVars>>

FinalTurn == MaxTurns + 1   \* the source of a text of the finalization call
Raised == MaxTurns + 2      \* run() ended with an exception

Msg(kind, n, k) == [run |-> run, kind |-> kind, turn |-> n, n |-> k]
System == [run |-> 0, kind |-> "system", turn |-> 0, n |-> 0]
UserRoles == {"user", "steer", "batch", "carryover", "finalprompt"}

NoResponse == [error |-> FALSE, length |-> FALSE, text |-> FALSE, calls |-> 0, cost |-> 0]
ErrorResponse == [NoResponse EXCEPT !.error = TRUE]
Response == {ErrorResponse} \cup
    [error : {FALSE}, length : BOOLEAN, text : BOOLEAN, calls : 0..MaxCalls, cost : 1..MaxCost]

Extend(new) == /\ messages' = messages \o new
               /\ seen' = seen \cup ToSet(new)
\* mutant: the budget itself may still be spent on another call
OverBudgetStrict == MaxTokens > 0 /\ used > MaxTokens
OverBudget == MaxTokens > 0 /\ used >= MaxTokens
-----------------------------------------------------------------------------
Init ==
    /\ pc = "idle" /\ run = 0 /\ turn = 0
    /\ messages = <<>> /\ saved = {} /\ seen = {}
    /\ inbox = <<>> /\ sent = {} /\ steering = Null
    /\ used = 0 /\ spent = 0 /\ expired = FALSE
    /\ resp = NoResponse /\ toolsRun = FALSE /\ output = 0
    /\ attempted = FALSE /\ rejected = FALSE /\ finalText = 0
    /\ maxTok = "full"

\* run(): reset() and a fresh conversation.  The steering queue is not reset.
Run ==
    /\ pc = "idle" /\ run < MaxRuns
    /\ run' = run + 1 /\ turn' = 0 /\ pc' = "turn"
    /\ messages' = <<System, [run |-> run', kind |-> "user", turn |-> 0, n |-> 0]>>
    /\ seen' = ToSet(messages')
    /\ used' = 0 /\ spent' = 0 /\ expired' = FALSE
    /\ resp' = NoResponse /\ toolsRun' = FALSE /\ output' = 0
    /\ attempted' = FALSE /\ rejected' = FALSE /\ finalText' = 0
    /\ steering' = Null
    /\ saved' = {}
    /\ UNCHANGED <<maxTok, inbox, sent>>

\* Another thread: steering_queue.put().
Steer(s) ==
    /\ s \notin sent
    /\ sent' = sent \cup {s}
    /\ inbox' = Append(inbox, s)
    /\ UNCHANGED <<pc, run, turn, resp, toolsRun, output, convVars, limitVars, finalVars, steering>>

ClockExpires ==
    /\ HasDeadline /\ pc # "idle" /\ ~expired
    /\ expired' = TRUE
    /\ UNCHANGED <<pc, run, turn, resp, toolsRun, output, convVars, used, spent, finalVars, steerVars>>

\* The for statement, and one steering message if there is one.
BeginTurn ==
    /\ pc = "turn" /\ turn < MaxTurns
    /\ turn' = turn + 1
    /\ pc' = "compact"
    /\ \/ /\ inbox # <<>>
          /\ steering' = Head(inbox) /\ inbox' = Tail(inbox)
          /\ Extend(<<Msg("steer", turn', Head(inbox))>>)
       \/ /\ inbox = <<>>
          /\ steering' = Null
          /\ UNCHANGED <<inbox, messages, seen>>
    /\ UNCHANGED <<run, resp, toolsRun, output, saved, limitVars, finalVars, sent>>

TurnsExhausted ==
    /\ pc = "turn" /\ turn = MaxTurns
    /\ pc' = "after"
    /\ UNCHANGED <<run, turn, resp, toolsRun, output, convVars, limitVars, finalVars, steerVars>>

BelowThreshold ==
    /\ pc = "compact"
    /\ pc' = "chat"
    /\ UNCHANGED <<run, turn, resp, toolsRun, output, convVars, limitVars, finalVars, steerVars>>

\* mutant: only the messages that are dropped for sure are saved
SaveAllButLast == saved' = saved \cup ToSet(Front(messages))

\* The messages are appended to the store one by one; the first exception
\* ends it and is logged.
SaveHistory ==
    CASE Store = "none"     -> UNCHANGED saved
      [] Store = "reliable" -> saved' = saved \cup ToSet(messages)
      [] Store = "failing"  -> \E k \in 0..Len(messages) :
                                  saved' = saved \cup ToSet(SubSeq(messages, 1, k))

\* mutants: the last message is kept whatever its role; it is never kept
CompactedKeepsLast(ok) ==
    <<messages[1], Msg("carryover", turn, IF ok THEN 1 ELSE 0), messages[Len(messages)]>>
CompactedDropsLast(ok) ==
    <<messages[1], Msg("carryover", turn, IF ok THEN 1 ELSE 0)>>

IfOfKind(m, kinds) == IF m.kind \in kinds THEN <<m>> ELSE <<>>

\* What is left: the system prompt, the summary, and the last message if it
\* is a user's.  A failed call's summary is the provider's error text.
Compacted(ok) ==
    LET last == messages[Len(messages)]
        carryover == Msg("carryover", turn, IF ok THEN 1 ELSE 0)
    IN  IfOfKind(messages[1], {"system"}) \o <<carryover>> \o IfOfKind(last, UserRoles)

\* _self_compact(); its usage is not added to total_usage.
Compact ==
    /\ pc = "compact"
    /\ SaveHistory
    /\ \/ \E ok \in BOOLEAN, cost \in 1..MaxCost :
             /\ messages' = Compacted(ok)
             /\ seen' = seen \cup ToSet(messages')
             /\ spent' = spent + IF ok THEN cost ELSE 0
       \/ UNCHANGED <<messages, seen, spent>>  \* provider.chat raised: skipped
    /\ pc' = "chat"
    /\ UNCHANGED <<run, turn, resp, toolsRun, output, used, expired, finalVars, steerVars>>

\* The model call returns a response, usage included.
Chat ==
    /\ pc = "chat"
    /\ \E r \in Response :
          /\ resp' = r
          /\ used' = used + r.cost /\ spent' = spent + r.cost
    /\ pc' = "respond"
    /\ UNCHANGED <<run, turn, toolsRun, output, convVars, expired, attempted, rejected, finalText, maxTok, steerVars>>

\* An exception of the provider or of a tool batch leaves run().
Raises ==
    /\ pc \in {"chat", "tools"}
    /\ output' = Raised
    /\ pc' = "idle"
    /\ UNCHANGED <<run, turn, resp, toolsRun, convVars, limitVars, finalVars, steerVars>>

\* mutant: the loop tries the call again itself
ProviderErrorRetried ==
    /\ pc = "respond" /\ resp.error
    /\ pc' = "chat"
    /\ UNCHANGED <<run, turn, resp, toolsRun, output, convVars, limitVars, finalVars, steerVars>>

\* What follows a model call, in the order of the checks.
ProviderError ==
    /\ pc = "respond" /\ resp.error
    /\ pc' = "after"
    /\ UNCHANGED <<run, turn, resp, toolsRun, output, convVars, limitVars, finalVars, steerVars>>

\* mutant: the text that was cut off stands
LengthAccepted ==
    /\ pc = "respond" /\ ~resp.error /\ resp.length
    /\ finalText' = (IF resp.text THEN turn ELSE 0) /\ rejected' = TRUE
    /\ pc' = "after"
    /\ UNCHANGED <<run, turn, resp, toolsRun, output, convVars, limitVars, attempted, maxTok, steerVars>>

LengthTruncated ==
    /\ pc = "respond" /\ ~resp.error /\ resp.length
    /\ finalText' = 0 /\ rejected' = TRUE
    /\ pc' = "after"
    /\ UNCHANGED <<run, turn, resp, toolsRun, output, convVars, limitVars, attempted, maxTok, steerVars>>

Accepted == pc = "respond" /\ ~resp.error /\ ~resp.length
\* mutant: an empty text does not replace an earlier one
TurnTextSticky == IF resp.text THEN turn ELSE finalText
TurnText == IF resp.text THEN turn ELSE 0

LimitReached ==
    /\ Accepted
    /\ OverBudget \/ expired
    /\ finalText' = TurnText
    /\ pc' = "after"
    /\ UNCHANGED <<run, turn, resp, toolsRun, output, convVars, limitVars, attempted, rejected, maxTok, steerVars>>

\* The finalization that an empty answer after tools calls for.
WantsFinalAnswer == Finalize /\ ~attempted

Continue ==
    /\ Accepted
    /\ ~OverBudget /\ ~expired
    /\ finalText' = TurnText
    /\ Extend(<<Msg("assistant", turn, resp.calls)>>)
    /\ pc' = IF resp.calls > 0 THEN "tools"
             ELSE IF ~resp.text /\ toolsRun /\ WantsFinalAnswer THEN "finalize"
             ELSE "after"
    /\ UNCHANGED <<run, turn, resp, toolsRun, output, saved, limitVars, attempted, rejected, maxTok, steerVars>>

\* The whole batch has been executed; its results are appended.
ToolBatch ==
    /\ pc = "tools"
    /\ toolsRun' = TRUE
    /\ IF Coalesce /\ resp.calls > 1
       THEN Extend(<<Msg("batch", turn, resp.calls)>>)
       ELSE Extend([i \in 1..resp.calls |-> Msg("tool", turn, i)])
    /\ pc' = "turn"
    /\ UNCHANGED <<run, turn, resp, output, saved, limitVars, finalVars, steerVars>>

\* After the loop: finalize if the last response still asked for tools.
AfterLoop ==
    /\ pc = "after"
    /\ IF resp.calls > 0 /\ ~resp.error /\ WantsFinalAnswer
       THEN pc' = "finalize" /\ UNCHANGED output
       ELSE pc' = "idle" /\ output' = finalText
    /\ UNCHANGED <<run, turn, resp, toolsRun, convVars, limitVars, finalVars, steerVars>>

\* _finalize_empty_tool_response(), up to its model call.
SkipFinalization ==
    /\ pc = "finalize"
    /\ OverBudget \/ expired
    /\ attempted' = TRUE /\ rejected' = TRUE
    /\ pc' = "idle" /\ output' = finalText
    /\ UNCHANGED <<run, turn, resp, toolsRun, convVars, limitVars, finalText, maxTok, steerVars>>

BeginFinalization ==
    /\ pc = "finalize"
    /\ ~OverBudget /\ ~expired
    /\ attempted' = TRUE
    /\ Extend(<<Msg("finalprompt", turn, 0)>>)
    /\ maxTok' = IF MaxTokens > 0 THEN "clamped" ELSE maxTok
    /\ pc' = "finalchat"
    /\ UNCHANGED <<run, turn, resp, toolsRun, output, saved, limitVars, rejected, finalText, steerVars>>

\* mutant: tool calls of the finalization are executed
FinalChatRunsTools ==
    /\ pc = "finalchat"
    /\ maxTok' = "full"
    /\ \E r \in Response :
          /\ resp' = r
          /\ used' = used + r.cost /\ spent' = spent + r.cost
    /\ pc' = IF resp'.calls > 0 THEN "tools" ELSE "idle"
    /\ UNCHANGED <<run, turn, toolsRun, output, convVars, expired, attempted, rejected, finalText, steerVars>>

\* The tool-free call.  A text it yields replaces final_text, nothing else
\* does: in the loop final_text is empty when it is called.
FinalChat ==
    /\ pc = "finalchat"
    /\ maxTok' = "full"
    /\ \E r \in Response :
          LET reject == \/ MaxTokens > 0 /\ used + r.cost > MaxTokens
                        \/ r.error
                        \/ r.calls > 0
              text == IF r.text /\ ~reject THEN FinalTurn ELSE finalText
          IN  /\ used' = used + r.cost /\ spent' = spent + r.cost
              /\ rejected' = (rejected \/ reject)
              /\ finalText' = text /\ output' = text
              /\ IF reject THEN UNCHANGED <<messages, seen>>
                           ELSE Extend(<<Msg("assistant", FinalTurn, 0)>>)
    /\ pc' = "idle"
    /\ UNCHANGED <<run, turn, resp, toolsRun, saved, expired, attempted, steerVars>>

FinalChatRaises ==
    /\ pc = "finalchat"
    /\ maxTok' = "full"
    /\ output' = Raised
    /\ pc' = "idle"
    /\ UNCHANGED <<run, turn, resp, toolsRun, convVars, limitVars, attempted, rejected, finalText, steerVars>>

LoopStep ==
    \/ BeginTurn \/ TurnsExhausted \/ BelowThreshold \/ Compact \/ Chat \/ Raises
    \/ ProviderError \/ LengthTruncated \/ LimitReached \/ Continue \/ ToolBatch
    \/ AfterLoop \/ SkipFinalization \/ BeginFinalization \/ FinalChat \/ FinalChatRaises

Next == Run \/ (\E s \in SteerMsg : Steer(s)) \/ ClockExpires \/ LoopStep

Spec == Init /\ [][Next]_vars

\* The loop's thread runs and every call it makes comes back (the provider's
\* HTTP client has a timeout and its retries are bounded).
FairSpec == Spec /\ WF_vars(LoopStep)
-----------------------------------------------------------------------------
TypeOK ==
    /\ pc \in {"idle", "turn", "compact", "chat", "respond", "tools", "after",
               "finalize", "finalchat"}
    /\ run \in 0..MaxRuns /\ turn \in 0..MaxTurns
    /\ \A k \in 1..Len(messages) :
          messages[k].kind \in UserRoles \cup {"system", "assistant", "tool"}
    /\ sent \subseteq SteerMsg /\ inbox \in Seq(SteerMsg)
    /\ steering \in SteerMsg \cup {Null}
    /\ used \in Nat /\ spent \in Nat /\ used <= spent
    /\ resp \in Response \cup {NoResponse}
    /\ {toolsRun, attempted, rejected, expired} \subseteq BOOLEAN
    /\ finalText \in 0..FinalTurn /\ output \in 0..Raised
    /\ maxTok \in {"full", "clamped"}

AtModelCall == pc \in {"chat", "finalchat"}

Reply(m, kind, n) == [run |-> m.run, kind |-> kind, turn |-> m.turn, n |-> n]

Answered(s) ==
    \A k \in 1..Len(s) :
       LET m == s[k] IN
       /\ m.kind = "tool" =>
             \E j \in 1..(k - 1) : /\ j + m.n = k
                                   /\ s[j].kind = "assistant"
                                   /\ s[j].turn = m.turn
       /\ m.kind = "assistant" /\ m.n > 0 =>
             \/ /\ k + m.n <= Len(s)
                /\ \A i \in 1..m.n : s[k + i] = Reply(m, "tool", i)
             \/ /\ k < Len(s) /\ m.n > 1
                /\ s[k + 1] = Reply(m, "batch", m.n)

\* Every request the provider gets is a legal conversation: the system prompt
\* first, each tool result behind the assistant message that asked for it,
\* and every call of an assistant message answered - after compaction,
\* steering and finalization too.
ToolCallsAnswered == AtModelCall => messages[1] = System /\ Answered(messages)

\* A steering message taken from the queue is the last thing the model reads
\* in that very turn: compaction, which comes in between, keeps it.
SteeringReachesModel ==
    pc = "chat" /\ steering # Null =>
        messages[Len(messages)] = Msg("steer", turn, steering)

\* Compaction loses nothing for good: a message that is no longer in the
\* conversation is in the session store ("preserves the full history in the
\* session store for later recall", _self_compact docstring).
HistoryPreserved == seen \subseteq saved \cup ToSet(messages)

\* Once the tokens counted have reached the budget no model call follows in
\* that run: not a turn, not a compaction, not a finalization.
NoCallBeyondBudget ==
    [][MaxTokens > 0 /\ run' = run /\ spent' > spent => used < MaxTokens]_vars

\* After finalization has been attempted the run is over: no tool batch runs,
\* no turn begins and no second finalization is made.
NothingAfterFinalization ==
    [][attempted /\ run' = run =>
          /\ attempted' /\ turn' = turn
          /\ toolsRun' = toolsRun
          /\ pc' = pc \/ pc' = "idle"]_vars

\* A turn that was cut off by the token limit fails closed ("instead of returning
\* a possibly-incomplete answer"): after it run() returns nothing, or what the
\* finalization said, never that text or an earlier one.  The finalization's own
\* text is returned even when it was cut off.
CutOffTurnFailsClosed ==
    pc = "idle" /\ resp.length => output \notin 1..MaxTurns

\* An answer taken from a turn is the text of the last turn; only when that
\* turn ended in a provider error it is the text of the turn before.  It is
\* never older: an empty answer is returned as an empty answer.
AnswerIsLatest ==
    pc = "idle" /\ output \in 1..MaxTurns =>
        output = turn \/ (resp.error /\ output = turn - 1)

\* The provider's max_tokens is back at its configured value whenever the
\* finalization call is not in flight, however that call ended.
MaxTokensRestored == pc # "finalchat" => maxTok = "full"

\* run() ends, however much it is steered: its turns are bounded and every
\* limit only shortens it.
RunEnds == (pc # "idle") ~> (pc = "idle")
=============================================================================
