---------------------------- MODULE SessionStore ----------------------------
(***************************************************************************)
(* agent_framework/session.py: one session file, and the AgentLoops that   *)
(* save their messages in it before they compact them (loop.py,            *)
(* _self_compact).  Every append reads the file, changes what it read and  *)
(* replaces the file, TmpFile's; nothing is locked.  A write may fail and  *)
(* a loop's process may end at any step.                                   *)
(*                                                                         *)
(* A message or a compaction point is known by its writer and its number.  *)
(* Titles, times and the reading operations (get, search, list) change     *)
(* nothing and are left out, and so are refused session ids.               *)
(***************************************************************************)
EXTENDS TmpFile, Sequences, SequencesExt

CONSTANTS MaxEntries, \* bound: messages and points a loop makes
          MaxCreates, \* bound: calls of create_session
          MaxFaults   \* bound: writes that fail and processes that end

ASSUME SessionAssumption == {MaxEntries, MaxCreates, MaxFaults} \subseteq Nat

VARIABLES
    step,    \* where each loop is
    left,    \* what it has still to write, the first of it being written
    plan,    \* the content it is about to put in the file
    made,    \* entries each loop has made so far
    told,    \* what calls that returned have put there, until some overlap
    crossed, \* two calls on the file have overlapped
    creates, faults

callVars == <<step, left, plan>>
vars == <<fileVars, callVars, made, told, crossed, creates, faults>>

Nothing == [messages |-> <<>>, points |-> <<>>]
Entry(what, l, n) == [what |-> what, by |-> l, number |-> n]

\* append_message, record_compaction and create_session, on what was read.
Added(content, e) ==
    CASE e.what = "message" -> [content EXCEPT !.messages = Append(@, e)]
      [] e.what = "point" -> [content EXCEPT !.points = Append(@, e)]
      [] e.what = "create" -> Nothing

Exists == live # 0
Readable == Exists /\ data[live].kind = "whole"

\* The loops that are between reading the file and replacing it.
Saving == {l \in Agent : step[l] \in {"open", "write", "move"}}
-----------------------------------------------------------------------------
Init ==
    /\ FileInit
    /\ step = [l \in Agent |-> "idle"] /\ left = [l \in Agent |-> <<>>]
    /\ plan = [l \in Agent |-> Nothing] /\ made = [l \in Agent |-> 0]
    /\ told = Nothing /\ crossed = FALSE /\ creates = 0 /\ faults = 0

Begin(l, content) ==
    /\ plan' = [plan EXCEPT ![l] = content]
    /\ crossed' = (crossed \/ Saving \ {l} # {})

\* create_session: an empty session, also where there was one before.
Create(l) ==
    /\ step[l] = "idle" /\ creates < MaxCreates
    /\ creates' = creates + 1
    /\ step' = [step EXCEPT ![l] = "open"]
    /\ left' = [left EXCEPT ![l] = <<Entry("create", l, 0)>>]
    /\ Begin(l, Nothing)
    /\ UNCHANGED <<fileVars, made, told, faults>>

Goes(l, to, entries) ==
    /\ step' = [step EXCEPT ![l] = to]
    /\ left' = [left EXCEPT ![l] = entries]

\* _self_compact: the loop's messages are to be appended, one by one.
Compact(l) ==
    /\ step[l] = "idle"
    /\ \E k \in 1..MaxEntries - made[l] - 1 :
          /\ Goes(l, "load", [i \in 1..k |-> Entry("message", l, made[l] + i)])
          /\ made' = [made EXCEPT ![l] = @ + k]
    /\ UNCHANGED <<fileVars, plan, told, crossed, creates, faults>>

\* A call has raised.  The loop logs it, drops the messages it has not yet
\* appended, and goes on with the compaction.
Raises(l) ==
    /\ Goes(l, IF Head(left[l]).what = "message" THEN "summarise" ELSE "idle", <<>>)
    /\ plan' = [plan EXCEPT ![l] = Nothing]

\* _load_session: a file that is missing or does not parse raises.
Load(l) ==
    /\ step[l] = "load"
    /\ \/ /\ Readable
          /\ Begin(l, Added(data[live].holds, Head(left[l])))
          /\ step' = [step EXCEPT ![l] = "open"]
          /\ UNCHANGED left
       \/ ~Readable /\ Raises(l) /\ UNCHANGED crossed
    /\ UNCHANGED <<fileVars, made, told, creates, faults>>

OpenSession(l) ==
    /\ step[l] = "open" /\ OpenTmp(l)
    /\ step' = [step EXCEPT ![l] = "write"]
    /\ UNCHANGED <<left, plan, made, told, crossed, creates, faults>>

WriteSession(l) ==
    /\ step[l] = "write"
    /\ \/ /\ WriteTmp(l, plan[l])
          /\ step' = [step EXCEPT ![l] = "move"]
          /\ UNCHANGED <<left, plan, faults>>
       \/ /\ faults < MaxFaults /\ faults' = faults + 1
          /\ WritePart(l) /\ Raises(l)
    /\ UNCHANGED <<made, told, crossed, creates>>

Returns(l) ==
    /\ told' = IF crossed THEN Nothing ELSE Added(told, Head(left[l]))
    /\ Goes(l, IF Len(left[l]) > 1 THEN "load"
               ELSE IF Head(left[l]).what = "message" THEN "summarise" ELSE "idle",
            Tail(left[l]))
    /\ plan' = [plan EXCEPT ![l] = Nothing]

\* Mutant: a call whose temporary file is gone is made again.
MoveOrRetry(l) ==
    /\ step[l] = "move"
    /\ \/ Move /\ Returns(l)
       \/ MoveFails /\ step' = [step EXCEPT ![l] = "load"] /\ UNCHANGED <<left, plan, told>>
    /\ UNCHANGED <<made, crossed, creates, faults>>

MoveSession(l) ==
    /\ step[l] = "move"
    /\ \/ Move /\ Returns(l)
       \/ MoveFails /\ Raises(l) /\ UNCHANGED told
    /\ UNCHANGED <<made, crossed, creates, faults>>

\* The summary: with it the compaction is recorded, without it it is skipped.
Summarise(l) ==
    /\ step[l] = "summarise"
    /\ \/ /\ Goes(l, "load", <<Entry("point", l, made[l] + 1)>>)
          /\ made' = [made EXCEPT ![l] = @ + 1]
       \/ Goes(l, "idle", <<>>) /\ UNCHANGED made
    /\ UNCHANGED <<fileVars, plan, told, crossed, creates, faults>>

\* A loop's process ends; another one continues in its place.
Dies(l) ==
    /\ step[l] # "idle" /\ faults < MaxFaults
    /\ faults' = faults + 1
    /\ CloseAll(l) /\ Goes(l, "idle", <<>>)
    /\ plan' = [plan EXCEPT ![l] = Nothing]
    /\ UNCHANGED <<made, told, crossed, creates>>

Next == \E l \in Agent :
    \/ Create(l) \/ Compact(l) \/ Load(l) \/ OpenSession(l) \/ WriteSession(l)
    \/ MoveSession(l) \/ Summarise(l) \/ Dies(l)

Spec == Init /\ [][Next]_vars
-----------------------------------------------------------------------------
\* "Preserves the full history in the session store for later recall": as long
\* as no two calls on the session overlapped, its file holds all that the calls
\* that returned have put there since it was created, in that order, and can be
\* read, also after a write that failed and in the middle of one that is made.
HoldsWhatItTold ==
    ~crossed => IF Exists THEN data[live] = Whole(told) ELSE told = Nothing

\* Whatever overlaps, moves another's file or fails: an entry that is in the
\* session is there once, and the entries of one loop are in the order in which
\* it appended them, without anything it never appended.
OwnEntriesInOrder ==
    Readable => \A entries \in {data[live].holds.messages, data[live].holds.points} :
        /\ \A j, k \in DOMAIN entries :
              j < k /\ entries[j].by = entries[k].by => entries[j].number < entries[k].number
        /\ \A e \in ToSet(entries) : e.number <= made[e.by]
=============================================================================
