----------------------------- MODULE TodoStore -----------------------------
(***************************************************************************)
(* agent_framework/todo.py and todo_backends.py: one todo file used by     *)
(* several agents through the todo tool (FileTodoStore).  Every call reads *)
(* the file, changes what it read, and puts the result in place through a  *)
(* temporary file of a fixed name and os.replace; nothing is locked.  An   *)
(* agent's process may end at any step.                                    *)
(*                                                                         *)
(* The file itself is TmpFile's.  The list's metadata, which _write reads  *)
(* again, is left out, and a text is only present or blank.  Calls that    *)
(* change nothing (list, summary, refused ones) read and return; they are  *)
(* left out.                                                               *)
(***************************************************************************)
EXTENDS TmpFile, Sequences, SequencesExt

CONSTANT MaxItems   \* bound: ids made up by uuid4

VARIABLES
    todo,   \* each agent's step of its call
    plan,   \* the list each agent's call is about to write
    lastId, \* ids made so far
    before, \* the list when the first of the present calls began
    mixed   \* two calls have overlapped since no call was under way

todoVars == <<fileVars, todo, plan, lastId, before, mixed>>

\* _read_raw: a file that does not parse, or is not there, is an empty list.
Items == IF live = 0 THEN <<>> ELSE data[live].holds

InCall == {a \in Agent : todo[a] \notin {"start", "idle"}}
-----------------------------------------------------------------------------
TodoInit ==
    /\ FileInit
    /\ todo = [a \in Agent |-> "start"] /\ plan = [a \in Agent |-> <<>>]
    /\ lastId = 0 /\ before = <<>> /\ mixed = FALSE

\* A call has read the list and will write this one.
Begin(a, items) ==
    /\ todo' = [todo EXCEPT ![a] = "open"]
    /\ plan' = [plan EXCEPT ![a] = items]
    /\ before' = IF InCall = {} THEN Items ELSE before
    /\ mixed' = (InCall # {})
    /\ UNCHANGED fileVars

\* The first call of a process: _ensure_file writes an empty list if need be.
Ensure(a) ==
    /\ todo[a] = "start"
    /\ \/ live = 0 /\ Begin(a, <<>>)
       \/ /\ live # 0
          /\ todo' = [todo EXCEPT ![a] = "idle"]
          /\ UNCHANGED <<fileVars, plan, before, mixed>>
    /\ UNCHANGED lastId

Item(id, text, status) == [id |-> id, text |-> text, status |-> status]
Status == {"pending", "in_progress", "completed", "cancelled"}
Change(a, items) == todo[a] = "idle" /\ Begin(a, items)

NewItem(a) ==
    /\ lastId < MaxItems /\ lastId' = lastId + 1
    /\ Change(a, Append(Items, Item(lastId', TRUE, "pending")))

\* The tool passes "" for a text it was not given: an update of the status alone
\* blanks the text, and one of the text alone is refused for its status.
Update(a) ==
    /\ \E k \in DOMAIN Items, s \in Status, text \in BOOLEAN :
          Change(a, [Items EXCEPT ![k] = [@ EXCEPT !.status = s, !.text = text]])
    /\ UNCHANGED lastId

Delete(a) ==
    /\ \E k \in DOMAIN Items :
          Change(a, SelectSeq(Items, LAMBDA t : t.id # Items[k].id))
    /\ UNCHANGED lastId

\* Those that are named come first.
Reorder(a) ==
    /\ \E k \in DOMAIN Items : Change(a, <<Items[k]>> \o RemoveAt(Items, k))
    /\ UNCHANGED lastId

Clear(a) ==
    /\ \E k \in DOMAIN Items : Items[k].status = "completed"
    /\ Change(a, SelectSeq(Items, LAMBDA t : t.status # "completed"))
    /\ UNCHANGED lastId

\* set: an entry gets a new id when it has none and, with merge, when the id it
\* has is in the list; so a merge appends, and never updates.
SetItems(a) ==
    /\ lastId < MaxItems /\ lastId' = lastId + 1
    /\ \E s \in Status, merge \in BOOLEAN :
          Change(a, (IF merge THEN Items ELSE <<>>) \o <<Item(lastId', TRUE, s)>>)

Open(a) ==
    /\ todo[a] = "open" /\ OpenTmp(a)
    /\ todo' = [todo EXCEPT ![a] = "flush"]
    /\ UNCHANGED <<plan, lastId, before, mixed>>

Flush(a) ==
    /\ todo[a] = "flush" /\ WriteTmp(a, plan[a])
    /\ todo' = [todo EXCEPT ![a] = "replace"]
    /\ UNCHANGED <<plan, lastId, before, mixed>>

EndCall(a, to) ==
    /\ todo' = [todo EXCEPT ![a] = to]
    /\ plan' = [plan EXCEPT ![a] = <<>>]
    /\ UNCHANGED <<lastId, before, mixed>>

Replace(a) == todo[a] = "replace" /\ (Move \/ MoveFails) /\ EndCall(a, "idle")

\* The process ends.
TodoDies(a) == CloseAll(a) /\ EndCall(a, "start")

TodoCall(a) == \/ NewItem(a) \/ Update(a) \/ Delete(a) \/ Reorder(a) \/ Clear(a) \/ SetItems(a)
TodoStep(a) == Ensure(a) \/ Open(a) \/ Flush(a) \/ Replace(a)
-----------------------------------------------------------------------------
TodoTypeOK ==
    /\ FileTypeOK
    /\ \A a \in Agent : handle[a] # 0 <=> todo[a] = "flush"

\* "Atomically write the JSON file": a call that no other call overlaps takes
\* effect as a whole or, if its process ends, not at all, and does not raise,
\* even when earlier calls have overlapped or died and left their files behind.
AloneIsAllOrNothing ==
    ~mixed =>
        /\ \A a \in InCall : Items = before
        /\ \A a \in Agent : todo[a] = "replace" => tmp # 0 /\ data[tmp] = Whole(plan[a])
=============================================================================
