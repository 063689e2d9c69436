----------------------------- MODULE TaskQueue -----------------------------
(***************************************************************************)
(* agent_framework/sandbox/task_queue.py: agents in processes of their own *)
(* share a table of research ideas, rewritten in place as a whole under    *)
(* flock, and a journal of one line per change beside it.  An agent may    *)
(* die, or a write may raise (a full disk), at any step; the lock goes     *)
(* with its holder.  The file is created without the lock.                 *)
(*                                                                         *)
(* A line of the journal is one os.write, whose count nobody looks at:     *)
(* what a full disk or a death leaves of it stays there, and the next line *)
(* is glued to it.  Neither can be loaded then.  Where a file ends within  *)
(* a character it cannot be read as text at all.                           *)
(*                                                                         *)
(* A row of the table is one line: an idea with a line break in it is      *)
(* written and never read back.  Calls that find nothing to change, and    *)
(* list_tasks, lock, read and unlock; they are left out.  The rows stand   *)
(* in the order in which their ideas were added, so a table says what the  *)
(* row of each idea is.                                                    *)
(***************************************************************************)
EXTENDS Naturals, Sequences, FiniteSets, SequencesExt, FiniteSetsExt, Functions

CONSTANTS Agent,      \* processes with a TaskQueue on this path
          Idea,       \* each stands for one call of add()
          MultiLine,  \* the ideas whose text has a line break
          AssetOf,    \* the asset each idea is added with
          MaxFailures,
          None

ASSUME QueueAssumption ==
    /\ MultiLine \subseteq Idea /\ DOMAIN AssetOf = Idea
    /\ MaxFailures \in Nat /\ None \notin Agent

VARIABLES
    exists,   \* the table's file is there
    table,    \* its rows, by idea
    sidecar,  \* the .jsonl file is there
    journal,  \* what was appended to it; shape: a "line", one left "open" (it
              \* lacks its line break), or "part" of one
    garbled,  \* the files that end within a character
    holder,   \* who holds the flock
    pc, work, \* each agent's step, and what its call is about to write
    failures,
    added,    \* the ideas add() was called with, in order
    issued,   \* what add() returned: [id, idea]
    granted,  \* what claim() returned, in order: [idea, agent]
    lost,     \* ideas whose row a broken or a late write has removed
    unlogged  \* ideas with a change that has no line of its own in the journal

fileVars == <<exists, table, sidecar, journal, garbled>>
ghostVars == <<added, issued, granted, lost, unlogged>>
vars == <<fileVars, holder, pc, work, failures, ghostVars>>

NoRows == <<>>
NoWork == [rows |-> NoRows, entry |-> <<>>]
-----------------------------------------------------------------------------
Init ==
    /\ exists = FALSE /\ table = NoRows /\ sidecar = FALSE /\ journal = <<>> /\ garbled = {}
    /\ holder = None
    /\ pc = [a \in Agent |-> "start"] /\ work = [a \in Agent |-> NoWork]
    /\ failures = 0
    /\ added = <<>> /\ issued = {} /\ granted = <<>> /\ lost = {} /\ unlogged = {}

\* __init__(): is there a file?
Open(a) ==
    /\ pc[a] = "start"
    /\ pc' = [pc EXCEPT ![a] = IF exists THEN "ready" ELSE "creating"]
    /\ UNCHANGED <<fileVars, holder, work, failures, ghostVars>>

\* No: an empty table is written, whatever has happened since.
Create(a) ==
    /\ pc[a] = "creating"
    /\ exists' = TRUE /\ table' = NoRows /\ garbled' = garbled \ {"table"}
    /\ lost' = lost \cup DOMAIN table
    /\ pc' = [pc EXCEPT ![a] = "ready"]
    /\ UNCHANGED <<sidecar, journal, holder, work, failures, added, issued, granted, unlogged>>

Tasks == Restrict(table, DOMAIN table \ MultiLine)
NextId == Max({0} \cup {Tasks[i].id : i \in DOMAIN Tasks}) + 1

\* json.loads takes a line that stands by itself; the last may be open.
Loadable(k) ==
    /\ journal[k].shape # "part"
    /\ k > 1 => journal[k - 1].shape = "line"
    /\ k < Len(journal) => journal[k].shape = "line"

\* The lines that tell something of an id's asset.
Telling(id) == {k \in DOMAIN journal : Loadable(k) /\ journal[k].id = id /\ journal[k].asset # ""}

\* Mutant: the first line about an id counts.
FirstAsset(id) ==
    IF ~sidecar THEN ""
    ELSE IF Telling(id) = {} THEN "stocks" ELSE journal[Min(Telling(id))].asset

\* _hydrate_assets: the table has no column for it; the last line does.
Asset(id) ==
    IF ~sidecar THEN ""
    ELSE IF Telling(id) = {} THEN "stocks" ELSE journal[Max(Telling(id))].asset

\* Mutant: nobody waits for the lock.
TakeUnlocked(a, rows, entry) ==
    /\ pc[a] = "ready" /\ garbled = {}
    /\ holder' = a
    /\ pc' = [pc EXCEPT ![a] = "truncate"]
    /\ work' = [work EXCEPT ![a] = [rows |-> rows, entry |-> entry]]

\* The lock is taken, the files are read and the change is made to what was read.
\* A file that cannot be read makes the call raise, and with it every later one.
Take(a, rows, entry) ==
    /\ pc[a] = "ready" /\ holder = None /\ garbled = {}
    /\ holder' = a
    /\ pc' = [pc EXCEPT ![a] = "truncate"]
    /\ work' = [work EXCEPT ![a] = [rows |-> rows, entry |-> entry]]

Add(a, i) ==
    /\ i \notin ToSet(added)
    /\ added' = Append(added, i)
    /\ Take(a, [j \in DOMAIN Tasks \cup {i} |->
                  IF j = i THEN [id |-> NextId, status |-> "pending", agent |-> None] ELSE Tasks[j]],
               [id |-> NextId, idea |-> i, action |-> "add", asset |-> AssetOf[i]])
    /\ UNCHANGED <<fileVars, failures, issued, granted, lost, unlogged>>

\* A row changes: status, perhaps agent, and the entry that will say so.
Change(a, i, row, action) ==
    /\ Take(a, [Tasks EXCEPT ![i] = row],
               [id |-> row.id, idea |-> i, action |-> action, asset |-> Asset(row.id)])
    /\ UNCHANGED <<fileVars, failures, ghostVars>>

\* claim()
Claim(a, i) ==
    /\ Tasks[i].status = "pending"
    /\ Change(a, i, [id |-> Tasks[i].id, status |-> "testing", agent |-> a], "claim")

\* Mutant: any status will do.
FinishAnything(a, i) ==
    \E end \in {[status |-> "validated", action |-> "complete"],
                [status |-> "rejected", action |-> "reject"]} :
        Change(a, i, [Tasks[i] EXCEPT !.status = end.status], end.action)

\* complete() and reject(), by anybody.
Finish(a, i) ==
    /\ Tasks[i].status = "testing"
    /\ \E end \in {[status |-> "validated", action |-> "complete"],
                   [status |-> "rejected", action |-> "reject"]} :
          Change(a, i, [Tasks[i] EXCEPT !.status = end.status], end.action)

\* write_text() empties the file ...
Truncate(a) ==
    /\ pc[a] = "truncate"
    /\ table' = NoRows
    /\ pc' = [pc EXCEPT ![a] = "write"]
    /\ UNCHANGED <<exists, sidecar, journal, garbled, holder, work, failures, ghostVars>>

\* ... and writes the rows.
Write(a) ==
    /\ pc[a] = "write"
    /\ table' = work[a].rows
    /\ pc' = [pc EXCEPT ![a] = "log"]
    /\ UNCHANGED <<exists, sidecar, journal, garbled, holder, work, failures, ghostVars>>

\* What one os.write leaves of the line, behind what is there.
Put(a, shape) ==
    LET e == work[a].entry IN
    /\ sidecar' = TRUE
    /\ journal' = Append(journal, [id |-> e.id, idea |-> e.idea, action |-> e.action,
                                   asset |-> e.asset, shape |-> shape])
    /\ \/ UNCHANGED garbled
       \/ shape = "part" /\ garbled' = garbled \cup {"journal"}

Unlog(a) == unlogged' = unlogged \cup {work[a].entry.idea}

Glued == journal # <<>> /\ Last(journal).shape # "line"

\* _write_jsonl(): the whole line, or ...
Log(a) ==
    /\ pc[a] = "log"
    /\ Put(a, "line")
    /\ IF Glued THEN Unlog(a) ELSE UNCHANGED unlogged
    /\ pc' = [pc EXCEPT ![a] = "return"]
    /\ UNCHANGED <<exists, table, holder, work, failures, added, issued, granted, lost>>

\* ... as much as there is room for; the call goes on either way.
LogShort(a) ==
    /\ pc[a] = "log" /\ failures < MaxFailures /\ failures' = failures + 1
    /\ \E shape \in {"open", "part"} : Put(a, shape)
    /\ Unlog(a)
    /\ pc' = [pc EXCEPT ![a] = "return"]
    /\ UNCHANGED <<exists, table, holder, work, added, issued, granted, lost>>

Done(a, to) ==
    /\ holder' = None
    /\ pc' = [pc EXCEPT ![a] = to]
    /\ work' = [work EXCEPT ![a] = NoWork]

\* The lock is given back and the caller gets its answer.
Return(a) ==
    /\ pc[a] = "return"
    /\ Done(a, "ready")
    /\ LET e == work[a].entry IN
          /\ issued' = IF e.action = "add" THEN issued \cup {[id |-> e.id, idea |-> e.idea]}
                       ELSE issued
          /\ granted' = IF e.action = "claim" THEN Append(granted, [idea |-> e.idea, agent |-> a])
                        ELSE granted
    /\ UNCHANGED <<fileVars, failures, added, lost, unlogged>>

\* In the middle of write_text() a part of the rows has reached the file.
FailInWrite(a) ==
    LET rows == work[a].rows IN
    /\ pc[a] = "write"
    /\ \E n \in 0..Len(added) : table' = Restrict(rows, DOMAIN rows \cap {added[k] : k \in 1..n})
    /\ garbled' \in {garbled, garbled \cup {"table"}}
    /\ lost' = lost \cup (DOMAIN rows \ DOMAIN table')
    /\ unlogged' = unlogged \cup ({work[a].entry.idea} \cap DOMAIN table')
    /\ UNCHANGED <<sidecar, journal>>

\* In the middle of _write_jsonl() nothing was appended yet, or not all of it.
FailInLog(a) ==
    /\ pc[a] = "log"
    /\ \/ sidecar' \in {sidecar, TRUE} /\ UNCHANGED <<journal, garbled>>
       \/ \E shape \in {"open", "part"} : Put(a, shape)
    /\ Unlog(a)
    /\ UNCHANGED <<table, lost>>

FailBetween(a) ==
    /\ pc[a] \in {"truncate", "return"}
    /\ UNCHANGED <<table, sidecar, journal, garbled, lost, unlogged>>

\* The call raises (finally releases the lock) or the agent dies and starts
\* again.
Fail(a) ==
    /\ failures < MaxFailures /\ failures' = failures + 1
    /\ \E to \in {"ready", "start"} : Done(a, to)
    /\ FailInWrite(a) \/ FailInLog(a) \/ FailBetween(a)
    /\ UNCHANGED <<exists, added, issued, granted>>

Step(a) == Open(a) \/ Create(a) \/ Truncate(a) \/ Write(a) \/ Log(a) \/ LogShort(a) \/ Return(a)

Next == \E a \in Agent :
    \/ Step(a) \/ Fail(a)
    \/ \E i \in Idea : Add(a, i)
    \/ \E i \in DOMAIN Tasks : Claim(a, i) \/ Finish(a, i)

Spec == Init /\ [][Next]_vars
-----------------------------------------------------------------------------
Status == {"pending", "testing", "validated", "rejected"}
TypeOK ==
    /\ DOMAIN table \subseteq ToSet(added)
    /\ \A i \in DOMAIN table : table[i].status \in Status /\ table[i].id \in Nat \ {0}
    /\ holder \in Agent \cup {None}
    /\ \A a \in Agent : (holder = a) <=> pc[a] \in {"truncate", "write", "log", "return"}
    /\ table # NoRows => exists
    /\ journal # <<>> => sidecar
    /\ garbled \subseteq {"table", "journal"}
    /\ lost \cup unlogged \cup MultiLine \cup {r.idea : r \in issued} \subseteq Idea

Rank(action) == CASE action = "add" -> 1 [] action = "claim" -> 2 [] OTHER -> 3

\* "enforces the pending -> testing -> validated state machine": whoever calls,
\* dies and comes back, an idea is added, claimed and finished at most once
\* each and in this order, and claim() gives it to one agent only.
JournalInOrder ==
    /\ \A m, n \in DOMAIN journal :
          m < n /\ journal[m].idea = journal[n].idea =>
             Rank(journal[m].action) < Rank(journal[n].action)
    /\ \A m, n \in DOMAIN granted : granted[m].idea = granted[n].idea => m = n

\* An id that add() returned names one idea for good, unless that idea's row
\* did not survive: a line break in it, a write cut short, a late creation.
IdsNameOneIdea ==
    \A x, y \in issued :
        x.id = y.id => x = y \/ {x.idea, y.idea} \cap (lost \cup MultiLine) # {}

\* Whenever the lock is free, and the files can be read, the table has every
\* idea that was issued, once, in the state its last journal line says and with
\* the agent that was told so, and the journal gives it its own asset.  Broken
\* and late writes excepted; one that breaks costs no more than two ideas their
\* lines, its own and the next.
TableKeepsUp ==
    /\ Cardinality(unlogged) <= 2 * failures
    /\ holder = None /\ garbled = {} =>
        \A x \in issued : x.idea \notin lost \cup MultiLine =>
            /\ x.idea \in DOMAIN table
            /\ LET t == table[x.idea]
                   lines == {k \in DOMAIN journal : Loadable(k) /\ journal[k].idea = x.idea}
               IN  /\ t.id = x.id
                   /\ \A i \in DOMAIN table \ {x.idea} : table[i].id = x.id => i \in MultiLine
                   /\ \A g \in DOMAIN granted :
                         granted[g].idea = x.idea => t.agent = granted[g].agent
                   /\ x.idea \notin unlogged =>
                         /\ AssetOf[x.idea] # "" => Asset(x.id) = AssetOf[x.idea]
                         /\ Cardinality(lines) = CASE t.status = "pending" -> 1
                                                   [] t.status = "testing" -> 2
                                                   [] OTHER -> 3
=============================================================================
