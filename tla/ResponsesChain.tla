--------------------------- MODULE ResponsesChain ---------------------------
(***************************************************************************)
(* agent_framework/providers.py: one OpenAIProvider in "responses" mode    *)
(* and the AgentLoops that call it.  The provider keeps the id of the last *)
(* response and sends only what came after it; the service joins that to   *)
(* the conversation it stored under the id.  AgentLoop is reduced to what  *)
(* it does to its messages between two calls.                              *)
(*                                                                         *)
(* Loops run in threads: between a provider's check of its key, its        *)
(* reading of the chain, the call and the saving of the new id, another    *)
(* loop may run.  Exclusive loops take turns instead, a run each, which is *)
(* what a ModelPool slot of max_concurrent 1 gives.                        *)
(***************************************************************************)
EXTENDS Retry, Sequences, SequencesExt

CONSTANTS Loop,
          Prompt,     \* Prompt[l]: the user message loop l is run with
          Exclusive,  \* the loops use the provider one run at a time
          MaxRuns,    \* bound: runs per loop
          MaxTurns,   \* max_turns
          MaxAnswers  \* bound: responses the service gives

ASSUME ChainAssumption ==
    /\ MaxRetries \in Nat /\ MaxRuns \in Nat /\ MaxTurns \in Nat /\ MaxAnswers \in Nat
    /\ Exclusive \in BOOLEAN /\ DOMAIN Prompt = Loop

VARIABLES
    lpc,         \* where each loop is
    runs, turns, \* runs started and turns taken in this run, per loop
    conv,        \* AgentLoop.messages
    asking,      \* what the call is for: "turn", "compact" or "final"
    attempt,     \* how often the call has failed
    req,         \* the request in flight: prev, input, instructions
    reply,       \* the id of the response that came back
    chain,       \* the provider: id, key, count, instructions
    stored       \* the service: the conversation of each response id

vars == <<lpc, runs, turns, conv, asking, attempt, req, reply, chain, stored>>

System == [role |-> "system", text |-> "system", call |-> FALSE]
Summarizer == [System EXCEPT !.text = "summarizer"]
Text(role, t) == [role |-> role, text |-> t, call |-> FALSE]

NoChain == [id |-> 0, key |-> <<>>, count |-> 0, instructions |-> <<>>]
NoRequest == [prev |-> 0, input |-> <<>>, instructions |-> <<>>]

Key(messages) == SubSeq(messages, 1, 2)

\* What a loop over the messages takes, those at some places, in their order.
Pick(messages, places) ==
    LET upto[i \in 0..Len(messages)] ==
          IF i = 0 THEN <<>>
          ELSE IF i \in places THEN Append(upto[i - 1], messages[i]) ELSE upto[i - 1]
    IN  upto[Len(messages)]

IsInstruction(m) == m.role = "system" /\ m.text # ""
Instructions(messages) == Pick(messages, {i \in DOMAIN messages : IsInstruction(messages[i])})

\* A message with neither text nor tool calls becomes no item, a tool's always does.
IsItem(m) == m.role = "tool" \/ (m.role # "system" /\ (m.text # "" \/ m.call))
Items(messages) == Pick(messages, {i \in DOMAIN messages : IsItem(messages[i])})

\* The service has its own output already: only results and users' texts.
IsNew(m) == m.role = "tool" \/ (m.role = "user" /\ m.text # "")
NewItems(messages, count) ==
    Pick(messages, {i \in count + 1..Len(messages) : IsNew(messages[i])})

\* What the service puts together for a request.
Context(r) == (IF r.prev = 0 THEN <<>> ELSE stored[r.prev]) \o r.input

\* The conversation a call is about.  The summarising call has one of its own.
Talk(l) ==
    IF asking[l] = "compact"
    THEN <<Summarizer, Text("user", <<"summarise", l, runs[l], turns[l]>>)>>
    ELSE conv[l]
-----------------------------------------------------------------------------
Init ==
    /\ lpc = [l \in Loop |-> "idle"]
    /\ runs = [l \in Loop |-> 0] /\ turns = [l \in Loop |-> 0]
    /\ conv = [l \in Loop |-> <<>>] /\ asking = [l \in Loop |-> "turn"]
    /\ attempt = [l \in Loop |-> 0]
    /\ req = [l \in Loop |-> NoRequest] /\ reply = [l \in Loop |-> 0]
    /\ chain = NoChain /\ stored = <<>>

\* AgentLoop.run: reset_conversation(), then a fresh conversation.
Start(l) ==
    /\ lpc[l] = "idle" /\ runs[l] < MaxRuns
    /\ Exclusive => \A m \in Loop : lpc[m] = "idle"
    /\ runs' = [runs EXCEPT ![l] = @ + 1] /\ turns' = [turns EXCEPT ![l] = 0]
    /\ conv' = [conv EXCEPT ![l] = <<System, Text("user", Prompt[l])>>]
    /\ chain' = NoChain
    /\ lpc' = [lpc EXCEPT ![l] = "turn"]
    /\ UNCHANGED <<asking, attempt, req, reply, stored>>

\* A turn: perhaps steered, perhaps compacting first.
Turn(l) ==
    /\ lpc[l] = "turn" /\ turns[l] < MaxTurns
    /\ turns' = [turns EXCEPT ![l] = @ + 1]
    /\ \E steer \in {<<>>, <<Text("user", <<"steer", l, runs[l], turns[l]>>)>>} :
          conv' = [conv EXCEPT ![l] = @ \o steer]
    /\ \E what \in {"turn", "compact"} : asking' = [asking EXCEPT ![l] = what]
    /\ lpc' = [lpc EXCEPT ![l] = "check"]
    /\ UNCHANGED <<runs, attempt, req, reply, chain, stored>>

\* mutant: the instructions stay those of the first conversation
CheckKeyOnly(l) ==
    /\ lpc[l] = "check"
    /\ chain' = IF Key(Talk(l)) = chain.key THEN chain
                ELSE [chain EXCEPT !.id = 0, !.count = 0, !.key = Key(Talk(l)),
                                   !.instructions = IF @ = <<>> THEN Instructions(Talk(l)) ELSE @]
    /\ lpc' = [lpc EXCEPT ![l] = "build"]
    /\ UNCHANGED <<runs, turns, conv, asking, attempt, req, reply, stored>>

\* _reset_responses_state
CheckKey(l) ==
    /\ lpc[l] = "check"
    /\ chain' = IF Key(Talk(l)) = chain.key THEN chain
                ELSE [id |-> 0, count |-> 0, key |-> Key(Talk(l)),
                      instructions |-> Instructions(Talk(l))]
    /\ lpc' = [lpc EXCEPT ![l] = "build"]
    /\ UNCHANGED <<runs, turns, conv, asking, attempt, req, reply, stored>>

\* The request is built from the chain as it is now.
Build(l) ==
    /\ lpc[l] = "build"
    /\ req' = [req EXCEPT ![l] =
          [prev |-> chain.id,
           input |-> IF chain.id = 0 THEN Items(Talk(l)) ELSE NewItems(Talk(l), chain.count),
           instructions |-> chain.instructions]]
    /\ lpc' = [lpc EXCEPT ![l] = "flight"]
    /\ UNCHANGED <<runs, turns, conv, asking, attempt, reply, chain, stored>>

Answers == {"text", "calls", "empty"}
Output(l, kind) ==
    [role |-> "assistant", call |-> kind = "calls",
     text |-> IF kind = "empty" THEN "" ELSE <<kind, l, runs[l], turns[l], asking[l]>>]

\* The service answers and stores the conversation under the next id.
Stores(l, kind) ==
    /\ Len(stored) < MaxAnswers
    /\ stored' = Append(stored, Context(req[l]) \o Items(<<Output(l, kind)>>))

\* retry_call is over, with a response or an exception.
Returned(l) ==
    /\ req' = [req EXCEPT ![l] = NoRequest]
    /\ attempt' = [attempt EXCEPT ![l] = 0]

\* The call succeeds; the id comes back.
Answer(l) ==
    /\ lpc[l] = "flight"
    /\ \E kind \in Answers :
          /\ Stores(l, kind)
          /\ reply' = [reply EXCEPT ![l] = [id |-> Len(stored'), kind |-> kind]]
    /\ Returned(l)
    /\ lpc' = [lpc EXCEPT ![l] = "reply"]
    /\ UNCHANGED <<runs, turns, conv, asking, chain>>

\* The call raises, perhaps after the service has stored an answer.
Loses(l, kind) == UNCHANGED stored \/ (kind \in MayHaveAnswered /\ Stores(l, "text"))

\* Mutant: a retry starts a conversation of its own
RetryAfresh(l) ==
    /\ lpc[l] = "flight"
    /\ \E kind \in Kinds : Again(kind, attempt[l]) /\ Loses(l, kind)
    /\ attempt' = [attempt EXCEPT ![l] = @ + 1]
    /\ req' = [req EXCEPT ![l].prev = 0]
    /\ UNCHANGED <<lpc, runs, turns, conv, asking, reply, chain>>

\* retry_call sends the same request again.
CallAgain(l) ==
    /\ lpc[l] = "flight"
    /\ \E kind \in Kinds : Again(kind, attempt[l]) /\ Loses(l, kind)
    /\ attempt' = [attempt EXCEPT ![l] = @ + 1]
    /\ UNCHANGED <<lpc, runs, turns, conv, asking, req, reply, chain>>

\* A compaction leaves the system prompt, a summary (or the text of the
\* error) and the last message if it is a user's.
Compact(l) ==
    conv' = [conv EXCEPT ![l] =
        <<System, Text("user", <<"carryover", l, runs[l], turns[l]>>)>>
        \o (IF Last(@).role = "user" THEN <<Last(@)>> ELSE <<>>)]

FinalPrompt(l) == Text("user", <<"final", l, runs[l]>>)

Resume(l, pc, what) ==
    /\ lpc' = [lpc EXCEPT ![l] = pc]
    /\ asking' = [asking EXCEPT ![l] = what]

\* Not retryable, or retries exhausted: a compaction goes on, a turn or a
\* finalization ends the run.  The chain is as CheckKey left it.
Fail(l) ==
    /\ lpc[l] = "flight"
    /\ \E kind \in Kinds : ~Again(kind, attempt[l]) /\ Loses(l, kind)
    /\ \/ asking[l] = "compact" /\ Compact(l) /\ Resume(l, "check", "turn")
       \/ asking[l] # "compact" /\ Resume(l, "idle", "turn") /\ UNCHANGED conv
    /\ Returned(l)
    /\ UNCHANGED <<runs, turns, reply, chain>>

\* The turns are used up: the run ends, or one more call without tools.
Exhausted(l) ==
    /\ lpc[l] = "turn" /\ turns[l] = MaxTurns
    /\ \/ Resume(l, "idle", "turn") /\ UNCHANGED conv
       \/ Resume(l, "check", "final") /\ conv' = [conv EXCEPT ![l] = Append(@, FinalPrompt(l))]
    /\ UNCHANGED <<runs, turns, attempt, req, reply, chain, stored>>

\* The loop's use of a response: what it appends, and whether it goes on.
Use(l, kind) ==
    LET add(new) == conv' = [conv EXCEPT ![l] = @ \o <<Output(l, kind)>> \o new]
        result == [role |-> "tool", call |-> FALSE, text |-> <<"result", l, runs[l], turns[l]>>]
    IN  \/ asking[l] = "compact" /\ Compact(l) /\ Resume(l, "check", "turn")
        \/ asking[l] = "turn" /\ kind = "calls" /\ add(<<result>>) /\ Resume(l, "turn", "turn")
        \/ asking[l] = "turn" /\ kind = "empty" /\ turns[l] > 1 /\ add(<<FinalPrompt(l)>>) /\ Resume(l, "check", "final")
        \/ Resume(l, "idle", "turn") /\ UNCHANGED conv  \* an answer, or a limit

\* After the call: the id, and how many messages the service has seen.
Remember(l) == chain' = [chain EXCEPT !.id = reply[l].id, !.count = Len(Talk(l))]

Receive(l) ==
    /\ lpc[l] = "reply"
    /\ Remember(l)
    /\ Use(l, reply[l].kind)
    /\ reply' = [reply EXCEPT ![l] = 0]
    /\ UNCHANGED <<runs, turns, attempt, req, stored>>

LoopStep(l) ==
    \/ Start(l) \/ Turn(l) \/ CheckKey(l) \/ Build(l) \/ Answer(l) \/ CallAgain(l) \/ Fail(l) \/ Receive(l)
    \/ Exhausted(l)

Next == \E l \in Loop : LoopStep(l)
Spec == Init /\ [][Next]_vars
-----------------------------------------------------------------------------
TypeOK ==
    /\ lpc \in [Loop -> {"idle", "turn", "check", "build", "flight", "reply"}]
    /\ asking \in [Loop -> {"turn", "compact", "final"}]
    /\ \A l \in Loop : runs[l] <= MaxRuns /\ turns[l] <= MaxTurns
    /\ chain.id \in 0..Len(stored)
    /\ \A l \in Loop : req[l].prev \in 0..Len(stored)

\* Whatever is sent and whatever is left out, the service works on exactly
\* the conversation the loop holds: nothing of it is missing, nothing is
\* there twice and nothing of another conversation is mixed in.
FullContext ==
    \A l \in Loop : lpc[l] = "flight" => Context(req[l]) = Items(Talk(l))

\* The instructions that go with a request are the system prompt of the
\* conversation it is about: the summarizer's for a compaction, the agent's
\* for the turn that follows it.
InstructionsFollow ==
    \A l \in Loop : lpc[l] = "flight" => req[l].instructions = Instructions(Talk(l))
=============================================================================
