-------------------------- MODULE TaskQueueProofs --------------------------
(***************************************************************************)
(* Theorems about TaskQueue, for any agents and ideas, any number of       *)
(* failures, rows lost and files emptied: the journal takes every idea     *)
(* through its states once and in order; an id that was answered names one *)
(* idea; and a table that nobody is rewriting has every idea that was      *)
(* answered, as the journal says.                                          *)
(*                                                                         *)
(* A row is never behind the journal: its status is at least what the last *)
(* line about its idea says (Ahead), in the table and in the rows that the *)
(* holder of the lock is about to write.  So the change a call makes to    *)
(* the row it found is beyond every line there is (Beyond), and stays so   *)
(* until its own line is written, because nobody else holds the lock       *)
(* (Locked).  Lost rows do no harm: an idea that has no row has no change. *)
(*                                                                         *)
(* A line that stands by itself in the journal can be read (Apart); every  *)
(* other piece of one is of an idea that is on record as having none       *)
(* (unlogged), and a failure makes two of those at most.                   *)
(*                                                                         *)
(* The other two say what the table is, and the file is empty while it is  *)
(* rewritten.  So what a table must be (Standing) is said of the file only *)
(* while nobody is between the emptying and the writing, and of the rows   *)
(* its holder is about to write from the moment the lock is taken; the row *)
(* that changed is behind until its own line is there (Pending).           *)
(***************************************************************************)
EXTENDS TaskQueue, FiniteSetTheorems, SequenceTheorems, WellFoundedInduction, TLAPS

PC == {"start", "creating", "ready", "truncate", "write", "log", "return"}
Unlogged == {"truncate", "write", "log"}
Held == Unlogged \cup {"return"}

IsLog(s) == s \in Seq(ToSet(s))

Level(status) == IF status = "pending" THEN 1 ELSE IF status = "testing" THEN 2 ELSE 3

Typed ==
    /\ pc \in [Agent -> PC] /\ DOMAIN work = Agent
    /\ IsLog(added) /\ IsLog(journal) /\ IsLog(granted)

Known ==
    /\ DOMAIN table \subseteq ToSet(added)
    /\ \A k \in DOMAIN journal : journal[k].idea \in ToSet(added)
    /\ \A a \in Agent :
          /\ DOMAIN work[a].rows \subseteq ToSet(added)
          /\ pc[a] \in Unlogged => work[a].entry.idea \in ToSet(added)

Locked ==
    \A a \in Agent :
       /\ pc[a] \in Held => holder = a
       /\ pc[a] \notin Held => work[a] = NoWork

IsRow(r) == r = [id |-> r.id, status |-> r.status, agent |-> r.agent]

Ahead(rows) ==
    \A i \in DOMAIN rows :
       /\ IsRow(rows[i])
       /\ \A k \in DOMAIN journal :
             journal[k].idea = i => Rank(journal[k].action) <= Level(rows[i].status)

Beyond ==
    \A a \in Agent :
       LET e == work[a].entry IN
       pc[a] \in Unlogged =>
          /\ \A k \in DOMAIN journal : journal[k].idea = e.idea =>
                                           Rank(journal[k].action) < Rank(e.action)
          /\ e.idea \in DOMAIN work[a].rows => Rank(e.action) <= Level(work[a].rows[e.idea].status)

Claimed ==
    /\ \A m \in DOMAIN granted : \E k \in DOMAIN journal :
          journal[k].idea = granted[m].idea /\ Rank(journal[k].action) >= 2
    /\ \A a \in Agent :
          LET e == work[a].entry IN
          /\ pc[a] = "return" => \E k \in DOMAIN journal :
                journal[k].idea = e.idea /\ journal[k].action = e.action
          /\ pc[a] \in Held /\ e.action = "claim" =>
                \A m \in DOMAIN granted : granted[m].idea # e.idea

Written ==
    \A a \in Agent : pc[a] = "log" =>
       \A i \in DOMAIN table : i \in DOMAIN work[a].rows /\ table[i] = work[a].rows[i]

IInv ==
    /\ Typed /\ Known /\ Locked /\ Written
    /\ Ahead(table) /\ \A a \in Agent : Ahead(work[a].rows)
    /\ Beyond /\ Claimed /\ JournalInOrder
-----------------------------------------------------------------------------
LEMMA Appended ==
    ASSUME NEW s, NEW e, IsLog(s)
    PROVE  /\ IsLog(Append(s, e)) /\ ToSet(Append(s, e)) = ToSet(s) \cup {e}
           /\ Len(s) \in Nat /\ DOMAIN s = 1..Len(s)
           /\ DOMAIN Append(s, e) = 1..(Len(s) + 1)
           /\ \A i \in 1..Len(s) : Append(s, e)[i] = s[i]
           /\ Append(s, e)[Len(s) + 1] = e
<1> DEFINE S == ToSet(s) \cup {e}
           t == Append(s, e)
<1>1. s \in Seq(S)
  BY DEF IsLog, ToSet
<1>2. /\ t \in Seq(S) /\ Len(t) = Len(s) + 1
      /\ \A i \in 1..Len(s) : t[i] = s[i]
      /\ t[Len(s) + 1] = e
  BY <1>1, AppendProperties
<1>3. Len(s) \in Nat /\ DOMAIN s = 1..Len(s) /\ DOMAIN t = 1..(Len(s) + 1)
  BY <1>1, <1>2
<1>4. ToSet(t) = S
  BY <1>2, <1>3 DEF ToSet
<1>5. IsLog(t)
  BY <1>2, <1>4 DEF IsLog
<1> QED
  BY <1>2, <1>3, <1>4, <1>5

LEMMA Ranks ==
    ASSUME NEW action
    PROVE  /\ Rank(action) \in {1, 2, 3}
           /\ Rank("add") = 1 /\ Rank("claim") = 2 /\ Rank("complete") = 3 /\ Rank("reject") = 3
           /\ \A status : Level(status) \in {1, 2, 3}
           /\ Level("pending") = 1 /\ Level("testing") = 2
           /\ Level("validated") = 3 /\ Level("rejected") = 3
  BY DEF Rank, Level

LEMMA RowsRead ==
    /\ DOMAIN Tasks \subseteq DOMAIN table
    /\ \A i \in DOMAIN Tasks : Tasks[i] = table[i]
  BY DEF Tasks, Restrict
-----------------------------------------------------------------------------
\* A call that takes the lock: what it is about to write is ahead of the journal.
LEMMA TakeKeeps ==
    ASSUME IInv, NEW a \in Agent, NEW rows, NEW entry, Take(a, rows, entry),
           UNCHANGED <<table, journal, granted>>,
           IsLog(added'), ToSet(added) \subseteq ToSet(added'),
           DOMAIN rows \subseteq ToSet(added'), entry.idea \in ToSet(added'),
           Ahead(rows),
           \A k \in DOMAIN journal : journal[k].idea = entry.idea =>
                                        Rank(journal[k].action) < Rank(entry.action),
           entry.idea \in DOMAIN rows => Rank(entry.action) <= Level(rows[entry.idea].status),
           entry.action = "claim" => \A m \in DOMAIN granted : granted[m].idea # entry.idea
    PROVE  IInv'
<1>1. /\ pc[a] = "ready" /\ holder = None /\ holder' = a
      /\ pc' = [pc EXCEPT ![a] = "truncate"] /\ pc' \in [Agent -> PC]
      /\ DOMAIN work = Agent /\ DOMAIN work' = Agent
      /\ work'[a].rows = rows /\ work'[a].entry = entry
  BY DEF Take, IInv, Typed, PC
<1>2. \A b \in Agent \ {a} : pc'[b] = pc[b] /\ work'[b] = work[b]
  BY <1>1 DEF Take, IInv, Typed
<1>3. \A b \in Agent : pc[b] \notin Held
  BY <1>1, QueueAssumption DEF IInv, Locked
<1>4. pc'[a] = "truncate" /\ \A b \in Agent \ {a} : pc'[b] \notin Held
  BY <1>1, <1>2, <1>3 DEF IInv, Typed
<1>5. Typed'
  BY <1>1 DEF IInv, Typed
<1>6. Known'
  BY <1>1, <1>2, <1>4 DEF IInv, Known, Held
<1>7. Locked'
  BY <1>1, <1>2, <1>4 DEF IInv, Locked, Held, Unlogged
<1>8. Ahead(table)' /\ \A b \in Agent : Ahead(work[b].rows)'
  BY <1>1, <1>2 DEF IInv, Ahead
<1>9. Beyond'
  BY <1>1, <1>4 DEF Beyond, Held
<1>10. Claimed'
  BY <1>1, <1>4 DEF IInv, Claimed, Held, Unlogged
<1>11. Written'
  BY <1>4 DEF Written, Held, Unlogged
<1> QED
  BY <1>5, <1>6, <1>7, <1>8, <1>9, <1>10, <1>11 DEF IInv, JournalInOrder

LEMMA AddKeeps ==
    ASSUME IInv, NEW a \in Agent, NEW i \in Idea, Add(a, i)
    PROVE  IInv'
<1> DEFINE rows == [j \in DOMAIN Tasks \cup {i} |->
                      IF j = i THEN [id |-> NextId, status |-> "pending", agent |-> None] ELSE Tasks[j]]
           entry == [id |-> NextId, idea |-> i, action |-> "add", asset |-> AssetOf[i]]
<1>1. /\ i \notin ToSet(added) /\ added' = Append(added, i)
      /\ Take(a, rows, entry) /\ UNCHANGED <<table, journal, granted>>
  BY DEF Add, fileVars
<1>2. IsLog(added') /\ ToSet(added') = ToSet(added) \cup {i}
  BY <1>1, Appended DEF IInv, Typed
<1>3. \A k \in DOMAIN journal : journal[k].idea # i
  BY <1>1 DEF IInv, Known
<1>4. Ahead(rows)
  <2>1. IsRow(rows[i])
    BY DEF IsRow
  <2> QED
    BY <1>3, <2>1, RowsRead DEF IInv, Ahead
<1>5. DOMAIN rows \subseteq ToSet(added')
  BY <1>2, RowsRead DEF IInv, Known
<1>6. Rank(entry.action) <= Level(rows[i].status)
  BY Ranks
<1>7. entry.idea = i /\ entry.action # "claim"
  OBVIOUS
<1> HIDE DEF rows, entry
<1> QED
  BY <1>1, <1>2, <1>3, <1>4, <1>5, <1>6, <1>7, TakeKeeps

\* claim, complete and reject: the row moves on by one.
LEMMA ChangeKeeps ==
    ASSUME IInv, NEW a \in Agent, NEW i \in DOMAIN Tasks, NEW row, NEW action,
           Change(a, i, row, action), IsRow(row),
           Level(Tasks[i].status) < Rank(action), Rank(action) <= Level(row.status),
           action = "claim" => Level(Tasks[i].status) = 1
    PROVE  IInv'
<1> DEFINE rows == [Tasks EXCEPT ![i] = row]
           entry == [id |-> row.id, idea |-> i, action |-> action, asset |-> Asset(row.id)]
<1>1. Take(a, rows, entry) /\ UNCHANGED <<table, journal, granted, added>>
  BY DEF Change, fileVars, ghostVars
<1>2. /\ DOMAIN rows = DOMAIN Tasks /\ rows[i] = row
      /\ \A j \in DOMAIN Tasks \ {i} : rows[j] = Tasks[j]
      /\ entry.idea = i /\ entry.action = action
  BY DEF Tasks, Restrict
<1> HIDE DEF rows, entry
<1>3. i \in DOMAIN table /\ Tasks[i] = table[i]
  BY RowsRead
<1>4. \A k \in DOMAIN journal : journal[k].idea = i =>
           /\ Rank(journal[k].action) <= Level(Tasks[i].status)
           /\ Rank(journal[k].action) \in {1, 2, 3}
  BY <1>3, Ranks DEF IInv, Ahead
<1>5. /\ Rank(action) \in {1, 2, 3} /\ Level(row.status) \in {1, 2, 3}
      /\ Level(Tasks[i].status) \in {1, 2, 3}
  BY Ranks
<1>6. \A k \in DOMAIN journal : journal[k].idea = i =>
           Rank(journal[k].action) < Rank(action) /\ Rank(journal[k].action) <= Level(row.status)
  BY <1>4, <1>5
<1>7. Ahead(rows)
  BY <1>2, <1>6, RowsRead DEF IInv, Ahead
<1>8. DOMAIN rows \subseteq ToSet(added) /\ i \in ToSet(added)
  BY <1>2, <1>3, RowsRead DEF IInv, Known
<1>9. action = "claim" => \A m \in DOMAIN granted : granted[m].idea # i
  BY <1>4, <1>5 DEF IInv, Claimed
<1>10. IsLog(added') /\ added' = added
  BY <1>1 DEF IInv, Typed
<1> QED
  BY <1>1, <1>2, <1>6, <1>7, <1>8, <1>9, <1>10, TakeKeeps

LEMMA OpenKeeps == ASSUME IInv, NEW a \in Agent, Open(a) \/ Create(a) PROVE IInv'
<1>1. /\ pc[a] \notin Held /\ pc'[a] \notin Held /\ pc' \in [Agent -> PC]
      /\ \A b \in Agent \ {a} : pc'[b] = pc[b]
      /\ UNCHANGED <<journal, holder, work, added, granted>>
      /\ table' = table \/ table' = NoRows
  BY DEF Open, Create, fileVars, ghostVars, IInv, Typed, PC, Held, Unlogged
<1>2. \A b \in Agent : /\ pc'[b] \in Held <=> pc[b] \in Held
                       /\ pc[b] \in Held => pc'[b] = pc[b]
  BY <1>1
<1>3. DOMAIN NoRows = {}
  BY DEF NoRows
<1>4. Typed' /\ Locked' /\ JournalInOrder'
  BY <1>1, <1>2 DEF IInv, Typed, Locked, JournalInOrder
<1>5. Known'
  BY <1>1, <1>2, <1>3 DEF IInv, Known, Held
<1>6. Ahead(table)' /\ \A b \in Agent : Ahead(work[b].rows)'
  BY <1>1, <1>3 DEF IInv, Ahead
<1>7. Beyond'
  BY <1>1, <1>2 DEF IInv, Beyond, Held
<1>8. Claimed'
  BY <1>1, <1>2 DEF IInv, Claimed, Held
<1>9. Written'
  BY <1>1, <1>2, <1>3 DEF IInv, Written, Held, Unlogged
<1> QED
  BY <1>4, <1>5, <1>6, <1>7, <1>8, <1>9 DEF IInv

LEMMA WriteKeeps == ASSUME IInv, NEW a \in Agent, Truncate(a) \/ Write(a) PROVE IInv'
<1>1. /\ pc[a] \in Unlogged /\ pc'[a] \in Unlogged /\ pc' \in [Agent -> PC]
      /\ \A b \in Agent \ {a} : pc'[b] = pc[b]
      /\ UNCHANGED <<journal, holder, work, added, granted>>
      /\ table' = NoRows \/ table' = work[a].rows
      /\ pc'[a] = "log" => table' = work[a].rows
  BY DEF Truncate, Write, ghostVars, IInv, Typed, PC, Unlogged
<1>2. \A b \in Agent : /\ pc'[b] \in Held <=> pc[b] \in Held
                       /\ pc'[b] \in Unlogged <=> pc[b] \in Unlogged
                       /\ pc'[b] = "return" <=> pc[b] = "return"
  BY <1>1 DEF Held, Unlogged
<1>3. DOMAIN NoRows = {}
  BY DEF NoRows
<1>4. Typed' /\ Locked' /\ JournalInOrder'
  BY <1>1, <1>2 DEF IInv, Typed, Locked, JournalInOrder
<1>5. Known'
  BY <1>1, <1>2, <1>3 DEF IInv, Known
<1>6. Ahead(table)' /\ \A b \in Agent : Ahead(work[b].rows)'
  BY <1>1, <1>3 DEF IInv, Ahead
<1>7. Beyond'
  BY <1>1, <1>2 DEF IInv, Beyond
<1>8. Claimed'
  BY <1>1, <1>2 DEF IInv, Claimed
<1>9. Written'
  <2>1. \A b \in Agent \ {a} : pc'[b] # "log"
    BY <1>1, QueueAssumption DEF IInv, Locked, Held, Unlogged
  <2> QED
    BY <1>1, <2>1 DEF Written
<1> QED
  BY <1>4, <1>5, <1>6, <1>7, <1>8, <1>9 DEF IInv

InOrder ==
    \A m, n \in DOMAIN journal :
       m < n /\ journal[m].idea = journal[n].idea => Rank(journal[m].action) < Rank(journal[n].action)

LEMMA PieceBehind ==
    ASSUME IInv, NEW a, NEW shape, Put(a, shape)
    PROVE  LET e == work[a].entry
               n == Len(journal)
           IN  /\ IsLog(journal') /\ n \in Nat /\ DOMAIN journal = 1..n /\ DOMAIN journal' = 1..(n + 1)
               /\ \A k \in 1..n : journal'[k] = journal[k]
               /\ journal'[n + 1].id = e.id /\ journal'[n + 1].idea = e.idea
               /\ journal'[n + 1].action = e.action /\ journal'[n + 1].asset = e.asset
               /\ journal'[n + 1].shape = shape
<1> DEFINE e == work[a].entry
           p == [id |-> e.id, idea |-> e.idea, action |-> e.action, asset |-> e.asset, shape |-> shape]
<1>1. journal' = Append(journal, p)
  BY DEF Put
<1>2. /\ p.id = e.id /\ p.idea = e.idea /\ p.action = e.action /\ p.asset = e.asset
      /\ p.shape = shape
  OBVIOUS
<1> HIDE DEF e, p
<1>3. /\ IsLog(journal') /\ Len(journal) \in Nat /\ DOMAIN journal = 1..Len(journal)
      /\ DOMAIN journal' = 1..(Len(journal) + 1)
      /\ \A k \in 1..Len(journal) : journal'[k] = journal[k]
      /\ journal'[Len(journal) + 1] = p
  BY <1>1, Appended DEF IInv, Typed
<1> QED
  BY <1>2, <1>3 DEF e

\* The holder's line, or a part of it, goes beyond all there are about its idea.
LEMMA PieceFits ==
    ASSUME IInv, NEW a \in Agent, pc[a] = "log", NEW shape, Put(a, shape), UNCHANGED <<table, added>>
    PROVE  /\ \E k \in DOMAIN journal' : /\ journal'[k].idea = work[a].entry.idea
                                         /\ journal'[k].action = work[a].entry.action
           /\ \A k \in DOMAIN journal' : journal'[k].idea \in ToSet(added)
           /\ Ahead(table)'
           /\ \A rows : rows = work[a].rows => Ahead(rows)'
           /\ InOrder'
<1> DEFINE e == work[a].entry
           n == Len(journal)
<1>1. /\ n \in Nat /\ DOMAIN journal = 1..n /\ DOMAIN journal' = 1..(n + 1)
      /\ \A k \in 1..n : journal'[k] = journal[k]
      /\ journal'[n + 1].idea = e.idea /\ journal'[n + 1].action = e.action
  BY PieceBehind
<1>2. /\ \A k \in 1..n : journal[k].idea = e.idea => Rank(journal[k].action) < Rank(e.action)
      /\ e.idea \in DOMAIN work[a].rows => Rank(e.action) <= Level(work[a].rows[e.idea].status)
      /\ e.idea \in ToSet(added)
  BY <1>1 DEF IInv, Beyond, Known, Unlogged
<1> HIDE DEF e, n
<1>3. \A k \in DOMAIN journal' : k \in 1..n \/ k = n + 1
  BY <1>1
<1>4. n + 1 \in DOMAIN journal'
  BY <1>1
<1>5. \A k \in DOMAIN journal' : journal'[k].idea \in ToSet(added)
  BY <1>1, <1>2, <1>3 DEF IInv, Known
<1>6. \A rows : Ahead(rows) /\ (e.idea \in DOMAIN rows => Rank(e.action) <= Level(rows[e.idea].status))
               => Ahead(rows)'
  BY <1>1 DEF Ahead
<1>7. Ahead(table)'
  <2>1. Ahead(table) /\ (e.idea \in DOMAIN table => Rank(e.action) <= Level(table[e.idea].status))
    BY <1>2 DEF IInv, Written
  <2> QED
    BY <1>6, <2>1 DEF Ahead
<1>8. \A rows : rows = work[a].rows => Ahead(rows)'
  BY <1>2, <1>6 DEF IInv
<1>9. InOrder'
  <2> SUFFICES ASSUME NEW k \in DOMAIN journal', NEW m \in DOMAIN journal', k < m,
                      journal'[k].idea = journal'[m].idea
               PROVE  Rank(journal'[k].action) < Rank(journal'[m].action)
    BY DEF InOrder
  <2>1. k \in 1..n /\ journal'[k] = journal[k]
    BY <1>1
  <2>2. CASE m \in 1..n
    BY <1>1, <2>1, <2>2 DEF IInv, JournalInOrder
  <2>3. CASE m = n + 1
    BY <1>1, <1>2, <2>1, <2>3
  <2> QED
    BY <1>3, <2>2, <2>3
<1> QED
  BY <1>1, <1>4, <1>5, <1>7, <1>8, <1>9 DEF e

LEMMA LogKeeps == ASSUME IInv, NEW a \in Agent, Log(a) \/ LogShort(a) PROVE IInv'
<1>1. /\ pc[a] = "log" /\ pc'[a] = "return" /\ pc' \in [Agent -> PC]
      /\ \A b \in Agent \ {a} : pc'[b] = pc[b]
      /\ UNCHANGED <<table, holder, work, added, granted>>
  BY DEF Log, LogShort, IInv, Typed, PC
<1>2. PICK shape : Put(a, shape)
  BY DEF Log, LogShort
<1>3. /\ \A b \in Agent \ {a} : pc[b] \notin Held /\ work[b] = NoWork
      /\ pc[a] \in Unlogged
  BY <1>1, QueueAssumption DEF IInv, Locked, Held, Unlogged
<1>4. IsLog(journal') /\ \A k \in DOMAIN journal : k \in DOMAIN journal' /\ journal'[k] = journal[k]
  BY <1>2, PieceBehind
<1>5. /\ \E k \in DOMAIN journal' : /\ journal'[k].idea = work[a].entry.idea
                                    /\ journal'[k].action = work[a].entry.action
      /\ \A k \in DOMAIN journal' : journal'[k].idea \in ToSet(added)
      /\ Ahead(table)'
      /\ \A rows : rows = work[a].rows => Ahead(rows)'
      /\ InOrder'
  BY <1>1, <1>2, PieceFits
<1>6. Typed' /\ Locked'
  BY <1>1, <1>3, <1>4 DEF IInv, Typed, Locked, Held, Unlogged
<1>7. Known'
  <2>1. \A b \in Agent : pc'[b] \notin Unlogged
    BY <1>1, <1>3 DEF Held, Unlogged
  <2> QED
    BY <1>1, <1>5, <2>1 DEF IInv, Known
<1>8. \A b \in Agent : Ahead(work[b].rows)'
  <2>1. Ahead(work[a].rows)'
    BY <1>1, <1>5 DEF Ahead
  <2>2. \A b \in Agent \ {a} : DOMAIN work'[b].rows = {}
    BY <1>1, <1>3 DEF NoWork, NoRows
  <2>3. \A b \in Agent \ {a} : Ahead(work[b].rows)'
    BY <2>2 DEF Ahead
  <2> QED
    BY <2>1, <2>3
<1>9. Beyond' /\ Written'
  BY <1>1, <1>3 DEF Beyond, Written, Held, Unlogged
<1>10. Claimed'
  <2>1. \A m \in DOMAIN granted' : \E k \in DOMAIN journal' :
            journal'[k].idea = granted'[m].idea /\ Rank(journal'[k].action) >= 2
    BY <1>1, <1>4 DEF IInv, Claimed
  <2>2. \A b \in Agent \ {a} : pc'[b] \notin Held
    BY <1>1, <1>3
  <2>3. work'[a].entry.action = "claim" =>
            \A m \in DOMAIN granted' : granted'[m].idea # work'[a].entry.idea
    BY <1>1, <1>3 DEF IInv, Claimed, Held
  <2> QED
    BY <1>1, <1>5, <2>1, <2>2, <2>3 DEF Claimed, Held
<1>11. JournalInOrder'
  BY <1>1, <1>5 DEF IInv, JournalInOrder, InOrder
<1> QED
  BY <1>5, <1>6, <1>7, <1>8, <1>9, <1>10, <1>11 DEF IInv

\* The lock is given back, by a call that returns or fails.
LEMMA ReturnKeeps == ASSUME IInv, NEW a \in Agent, Return(a) PROVE IInv'
<1> DEFINE e == work[a].entry
           g == [idea |-> e.idea, agent |-> a]
<1>1. /\ pc[a] = "return" /\ pc'[a] = "ready" /\ pc' \in [Agent -> PC]
      /\ \A b \in Agent \ {a} : pc'[b] = pc[b] /\ work'[b] = work[b]
      /\ DOMAIN work' = Agent /\ work'[a] = NoWork
      /\ UNCHANGED <<table, journal, added>>
      /\ granted' = IF e.action = "claim" THEN Append(granted, g) ELSE granted
  BY DEF Return, Done, fileVars, IInv, Typed, PC
<1>2. \A b \in Agent : pc'[b] \notin Held
  BY <1>1, QueueAssumption DEF IInv, Locked, Held, Unlogged
<1>3. PICK k \in DOMAIN journal : journal[k].idea = e.idea /\ journal[k].action = e.action
  BY <1>1 DEF IInv, Claimed
<1> DEFINE n == Len(granted)
<1>4. /\ IsLog(Append(granted, g)) /\ n \in Nat /\ DOMAIN granted = 1..n
      /\ DOMAIN Append(granted, g) = 1..(n + 1)
      /\ \A i \in 1..n : Append(granted, g)[i] = granted[i]
      /\ Append(granted, g)[n + 1] = g
  BY Appended DEF IInv, Typed
<1>5. e.action = "claim" => \A m \in 1..n : granted[m].idea # e.idea
  BY <1>1, <1>4 DEF IInv, Claimed, Held
<1>6. g.idea = e.idea
  OBVIOUS
<1> HIDE DEF e, g, n
<1>7. IsLog(granted')
  BY <1>1, <1>4 DEF IInv, Typed
<1>8. Typed' /\ Locked' /\ Beyond' /\ Written'
  BY <1>1, <1>2, <1>7 DEF IInv, Typed, Locked, Beyond, Written, Held, Unlogged
<1>9. DOMAIN NoWork.rows = {}
  BY DEF NoWork, NoRows
<1>10. Known'
  BY <1>1, <1>2, <1>9 DEF IInv, Known, Held
<1>11. Ahead(table)' /\ \A b \in Agent : Ahead(work[b].rows)'
  BY <1>1, <1>9 DEF IInv, Ahead
<1>12. CASE e.action # "claim"
  <2>1. granted' = granted
    BY <1>1, <1>12
  <2>2. Claimed' /\ JournalInOrder'
    BY <1>1, <1>2, <2>1 DEF IInv, Claimed, JournalInOrder, Held
  <2> QED
    BY <1>8, <1>10, <1>11, <2>2 DEF IInv
<1>13. CASE e.action = "claim"
  <2>1. granted' = Append(granted, g)
    BY <1>1, <1>13
  <2>2. \A m \in DOMAIN granted' : 
          (m \in 1..n /\ granted'[m] = granted[m]) \/ (m = n + 1 /\ granted'[m] = g)
    BY <1>4, <2>1
  <2>3. journal[k].idea = g.idea /\ Rank(journal[k].action) >= 2
    BY <1>3, <1>6, <1>13, Ranks
  <2>4. Claimed'
    BY <1>1, <1>2, <1>4, <2>2, <2>3 DEF IInv, Claimed, Held
  <2>5. \A i, m \in DOMAIN granted' : granted'[i].idea = granted'[m].idea => i = m
    BY <1>4, <1>5, <1>6, <1>13, <2>2 DEF IInv, JournalInOrder
  <2>6. JournalInOrder'
    BY <1>1, <2>5 DEF IInv, JournalInOrder
  <2> QED
    BY <1>8, <1>10, <1>11, <2>4, <2>6 DEF IInv
<1> QED
  BY <1>12, <1>13

LEMMA FailKeeps == ASSUME IInv, NEW a \in Agent, Fail(a) PROVE IInv'
<1>1. /\ pc[a] \in Held /\ pc'[a] \in {"ready", "start"} /\ pc' \in [Agent -> PC]
      /\ \A b \in Agent \ {a} : pc'[b] = pc[b] /\ work'[b] = work[b]
      /\ DOMAIN work' = Agent /\ work'[a] = NoWork
      /\ UNCHANGED <<added, granted>>
  BY DEF Fail, FailInWrite, FailInLog, FailBetween, Done, IInv, Typed, PC, Held, Unlogged
<1>2. \/ table' = table
      \/ \A i \in DOMAIN table' : i \in DOMAIN work[a].rows /\ table'[i] = work[a].rows[i]
  BY DEF Fail, FailInWrite, FailInLog, FailBetween, Restrict
<1>3. \A b \in Agent : pc'[b] \notin Held
  BY <1>1, QueueAssumption DEF IInv, Locked, Held, Unlogged
<1>4. DOMAIN NoWork.rows = {}
  BY DEF NoWork, NoRows
<1>5. \A b \in Agent \ {a} : work'[b] = NoWork
  BY <1>1, <1>3 DEF IInv, Locked
<1>6. \A b \in Agent : Ahead(work[b].rows)'
  <2>1. \A b \in Agent : DOMAIN work'[b].rows = {}
    BY <1>1, <1>4, <1>5
  <2> QED
    BY <2>1 DEF Ahead
<1>7. Locked' /\ Beyond' /\ Written'
  BY <1>1, <1>3, <1>5 DEF Locked, Beyond, Written, Held, Unlogged
<1>8. CASE journal' = journal
  <2>1. Typed' /\ JournalInOrder'
    BY <1>1, <1>8 DEF IInv, Typed, JournalInOrder
  <2>2. Known'
    BY <1>1, <1>2, <1>3, <1>4, <1>8 DEF IInv, Known, Held
  <2>3. Ahead(table)'
    BY <1>2, <1>8 DEF IInv, Ahead
  <2>4. Claimed'
    BY <1>1, <1>3, <1>8 DEF IInv, Claimed, Held
  <2> QED
    BY <1>6, <1>7, <2>1, <2>2, <2>3, <2>4 DEF IInv
<1>9. ASSUME NEW shape, pc[a] = "log", table' = table, Put(a, shape) PROVE IInv'
  <2>1. IsLog(journal') /\ \A k \in DOMAIN journal : k \in DOMAIN journal' /\ journal'[k] = journal[k]
    BY <1>9, PieceBehind
  <2>2. /\ \A k \in DOMAIN journal' : journal'[k].idea \in ToSet(added)
        /\ Ahead(table)' /\ InOrder'
    BY <1>1, <1>9, PieceFits
  <2>3. Typed'
    BY <1>1, <2>1 DEF IInv, Typed
  <2>4. Known'
    BY <1>1, <1>3, <1>4, <1>5, <1>9, <2>2 DEF IInv, Known, Held
  <2>5. Claimed'
    BY <1>1, <1>3, <2>1 DEF IInv, Claimed, Held
  <2>6. JournalInOrder'
    BY <1>1, <2>2 DEF IInv, JournalInOrder, InOrder
  <2> QED
    BY <1>6, <1>7, <2>2, <2>3, <2>4, <2>5, <2>6 DEF IInv
<1>10. journal' = journal \/ \E shape : pc[a] = "log" /\ table' = table /\ Put(a, shape)
  BY DEF Fail, FailInWrite, FailInLog, FailBetween
<1> QED
  BY <1>8, <1>9, <1>10
-----------------------------------------------------------------------------
\* No row is ever behind the journal, and the change under way is beyond it.
THEOREM QueueInvariant == Spec => []IInv
<1>1. Init => IInv
  <2> SUFFICES ASSUME Init PROVE IInv
    OBVIOUS
  <2>1. \A a \in Agent : pc[a] = "start" /\ work[a] = NoWork
    BY DEF Init
  <2>2. DOMAIN table = {} /\ DOMAIN NoWork.rows = {} /\ DOMAIN journal = {} /\ DOMAIN granted = {}
    BY DEF Init, NoRows, NoWork
  <2>3. Typed
    BY DEF Init, Typed, IsLog, PC, ToSet
  <2> QED
    BY <2>1, <2>2, <2>3
       DEF IInv, Known, Locked, Ahead, Beyond, Claimed, Written, JournalInOrder, Held, Unlogged
<1>2. ASSUME IInv, [Next]_vars PROVE IInv'
  <2>1. CASE UNCHANGED vars
    BY <1>2, <2>1 DEF vars, fileVars, ghostVars, IInv, Typed, Known, Locked, Ahead, Beyond, Claimed,
                      Written, JournalInOrder
  <2>2. ASSUME NEW a \in Agent, Step(a) PROVE IInv'
    BY <1>2, <2>2, OpenKeeps, WriteKeeps, LogKeeps, ReturnKeeps DEF Step
  <2>3. ASSUME NEW a \in Agent, NEW i \in DOMAIN Tasks, Claim(a, i) PROVE IInv'
    <3> DEFINE row == [id |-> Tasks[i].id, status |-> "testing", agent |-> a]
    <3>1. IsRow(row) /\ row.status = "testing"
      BY DEF IsRow
    <3>2. Change(a, i, row, "claim") /\ Tasks[i].status = "pending"
      BY <2>3 DEF Claim
    <3> HIDE DEF row
    <3> QED
      BY <1>2, <3>1, <3>2, ChangeKeeps, Ranks
  <2>4. ASSUME NEW a \in Agent, NEW i \in DOMAIN Tasks, Finish(a, i) PROVE IInv'
    <3>1. PICK end \in {[status |-> "validated", action |-> "complete"],
                        [status |-> "rejected", action |-> "reject"]} :
              Change(a, i, [Tasks[i] EXCEPT !.status = end.status], end.action)
      BY <2>4 DEF Finish
    <3> DEFINE row == [Tasks[i] EXCEPT !.status = end.status]
    <3>2. IsRow(row) /\ row.status = end.status
      <4>1. IsRow(Tasks[i])
        BY <1>2, RowsRead DEF IInv, Ahead
      <4> QED
        BY <4>1 DEF IsRow
    <3>3. Change(a, i, row, end.action) /\ Tasks[i].status = "testing"
      BY <2>4, <3>1 DEF Finish
    <3>4. Rank(end.action) = 3 /\ Level(end.status) = 3 /\ end.action # "claim"
      BY Ranks
    <3> HIDE DEF row
    <3> QED
      BY <1>2, <3>2, <3>3, <3>4, ChangeKeeps, Ranks
  <2> QED
    BY <1>2, <2>1, <2>2, <2>3, <2>4, AddKeeps, FailKeeps DEF Next
<1> QED
  BY <1>1, <1>2, PTL DEF Spec

\* The journal takes each idea through its states once and in order, and
\* claim() gives it to one agent.
THEOREM StateMachineEnforced == Spec => []JournalInOrder
<1>1. IInv => JournalInOrder
  BY DEF IInv
<1> QED
  BY <1>1, QueueInvariant, PTL
-----------------------------------------------------------------------------
\* A line that nothing is glued to, from before or behind.
Apart(log, k) == log[k].shape = "line" /\ (k > 1 => log[k - 1].shape = "line")

SInv ==
    /\ \A k \in DOMAIN journal : sidecar /\ (Apart(journal, k) \/ journal[k].idea \in unlogged)
    /\ IsFiniteSet(unlogged) /\ failures \in Nat
    /\ Cardinality(unlogged) + (IF Glued THEN 1 ELSE 0) <= 2 * failures

LEMMA PieceIsGlued ==
    ASSUME IInv, NEW a \in Agent, NEW shape, Put(a, shape)
    PROVE  Glued' <=> shape # "line"
<1> DEFINE n == Len(journal)
<1>1. /\ n \in Nat /\ DOMAIN journal' = 1..(n + 1) /\ journal'[n + 1].shape = shape
      /\ IsLog(journal')
  BY PieceBehind
<1>2. Len(journal') = n + 1 /\ journal' # <<>>
  BY <1>1 DEF IsLog
<1> QED
  BY <1>1, <1>2 DEF Glued, Last

LEMMA PieceOnRecord ==
    ASSUME IInv, SInv, NEW a \in Agent, NEW shape, Put(a, shape), unlogged \subseteq unlogged',
           Glued \/ shape # "line" => work[a].entry.idea \in unlogged'
    PROVE  \A k \in DOMAIN journal' : sidecar' /\ (Apart(journal', k) \/ journal'[k].idea \in unlogged')
<1> DEFINE e == work[a].entry
           n == Len(journal)
<1>1. /\ n \in Nat /\ DOMAIN journal = 1..n /\ DOMAIN journal' = 1..(n + 1)
      /\ \A k \in 1..n : journal'[k] = journal[k]
      /\ journal'[n + 1].idea = e.idea /\ journal'[n + 1].shape = shape
  BY PieceBehind
<1>2. Glued <=> n > 0 /\ journal[n].shape # "line"
  <2>1. journal # <<>> <=> n > 0
    BY <1>1 DEF IInv, Typed, IsLog
  <2> QED
    BY <2>1 DEF Glued, Last
<1> HIDE DEF e, n
<1>3. sidecar'
  BY DEF Put
<1>4. ASSUME NEW k \in 1..n PROVE Apart(journal', k) \/ journal'[k].idea \in unlogged'
  <2>1. Apart(journal, k) \/ journal[k].idea \in unlogged
    BY <1>1 DEF SInv
  <2>2. k > 1 => k - 1 \in 1..n
    BY <1>1
  <2> QED
    BY <1>1, <2>1, <2>2 DEF Apart
<1>5. Apart(journal', n + 1) \/ journal'[n + 1].idea \in unlogged'
  <2>1. CASE Glued \/ shape # "line"
    BY <1>1, <2>1 DEF e
  <2>2. CASE ~Glued /\ shape = "line"
    <3>1. n > 0 => n \in 1..n /\ journal'[n].shape = "line"
      BY <1>1, <1>2, <2>2
    <3>2. (n + 1) - 1 = n /\ (n + 1 > 1 => n > 0)
      BY <1>1
    <3>3. n + 1 > 1 => journal'[(n + 1) - 1].shape = "line"
      BY <3>1, <3>2
    <3>4. journal'[n + 1].shape = "line"
      BY <1>1, <2>2
    <3> QED
      BY <3>3, <3>4 DEF Apart
  <2> QED
    BY <2>1, <2>2
<1>6. \A k \in DOMAIN journal' : k \in 1..n \/ k = n + 1
  BY <1>1
<1> QED
  BY <1>3, <1>4, <1>5, <1>6

LEMMA OneMoreUnlogged ==
    ASSUME SInv, NEW i
    PROVE  /\ IsFiniteSet(unlogged \cup {i}) /\ Cardinality(unlogged \cup {i}) \in Nat
           /\ Cardinality(unlogged) \in Nat
           /\ Cardinality(unlogged \cup {i}) <= Cardinality(unlogged) + 1
<1>1. IsFiniteSet(unlogged)
  BY DEF SInv
<1>2. /\ IsFiniteSet(unlogged \cup {i})
      /\ \/ Cardinality(unlogged \cup {i}) = Cardinality(unlogged)
         \/ Cardinality(unlogged \cup {i}) = Cardinality(unlogged) + 1
  BY <1>1, FS_AddElement
<1>3. Cardinality(unlogged) \in Nat
  BY <1>1, FS_CardinalityType
<1> QED
  BY <1>2, <1>3

LEMMA LogShapes == ASSUME IInv, SInv, NEW a \in Agent, Log(a) \/ LogShort(a) PROVE SInv'
<1> DEFINE i == work[a].entry.idea
<1>1. PICK shape : /\ Put(a, shape)
                   /\ \/ /\ shape = "line" /\ failures' = failures
                         /\ unlogged' = IF Glued THEN unlogged \cup {i} ELSE unlogged
                      \/ /\ shape # "line" /\ failures' = failures + 1
                         /\ unlogged' = unlogged \cup {i}
  <2>1. CASE Log(a)
    BY <2>1 DEF Log, Unlog
  <2>2. CASE LogShort(a)
    <3>1. PICK shape \in {"open", "part"} : Put(a, shape)
      BY <2>2 DEF LogShort
    <3> QED
      BY <2>2, <3>1 DEF LogShort, Unlog
  <2> QED
    BY <2>1, <2>2
<1>2. Glued' <=> shape # "line"
  BY <1>1, PieceIsGlued
<1>3. /\ IsFiniteSet(unlogged \cup {i}) /\ Cardinality(unlogged \cup {i}) \in Nat
      /\ Cardinality(unlogged) \in Nat
      /\ Cardinality(unlogged \cup {i}) <= Cardinality(unlogged) + 1
  BY OneMoreUnlogged
<1>4. /\ IsFiniteSet(unlogged) /\ failures \in Nat
      /\ Cardinality(unlogged) + (IF Glued THEN 1 ELSE 0) <= 2 * failures
  BY DEF SInv
<1>5. \A k \in DOMAIN journal' : sidecar' /\ (Apart(journal', k) \/ journal'[k].idea \in unlogged')
  BY <1>1, PieceOnRecord
<1> HIDE DEF i
<1>6. IsFiniteSet(unlogged') /\ failures' \in Nat
  BY <1>1, <1>3, <1>4
<1>7. Cardinality(unlogged') + (IF Glued' THEN 1 ELSE 0) <= 2 * failures'
  <2>1. CASE shape = "line" /\ Glued
    BY <1>1, <1>2, <1>3, <1>4, <2>1
  <2>2. CASE shape = "line" /\ ~Glued
    BY <1>1, <1>2, <1>3, <1>4, <2>2
  <2>3. CASE shape # "line"
    <3>1. failures' = failures + 1 /\ unlogged' = unlogged \cup {i} /\ Glued'
      BY <1>1, <1>2, <2>3
    <3>2. Cardinality(unlogged) <= 2 * failures
      BY <1>3, <1>4
    <3> QED
      BY <1>3, <1>4, <3>1, <3>2
  <2> QED
    BY <2>1, <2>2, <2>3
<1> QED
  BY <1>5, <1>6, <1>7 DEF SInv

LEMMA FailShapes == ASSUME IInv, SInv, NEW a \in Agent, Fail(a) PROVE SInv'
<1> DEFINE i == work[a].entry.idea
<1>1. /\ IsFiniteSet(unlogged \cup {i}) /\ Cardinality(unlogged \cup {i}) \in Nat
      /\ Cardinality(unlogged) \in Nat
      /\ Cardinality(unlogged \cup {i}) <= Cardinality(unlogged) + 1
  BY OneMoreUnlogged
<1>2. /\ IsFiniteSet(unlogged) /\ failures \in Nat
      /\ Cardinality(unlogged) + (IF Glued THEN 1 ELSE 0) <= 2 * failures
  BY DEF SInv
<1>3. failures' = failures + 1 /\ unlogged' \in {unlogged, unlogged \cup {i}}
  <2>1. CASE FailInWrite(a)
    <3>1. PICK S : unlogged' = unlogged \cup ({i} \cap S)
      BY <2>1 DEF FailInWrite
    <3>2. {i} \cap S = {i} \/ {i} \cap S = {}
      OBVIOUS
    <3> QED
      BY <3>1, <3>2 DEF Fail
  <2>2. CASE FailInLog(a) \/ FailBetween(a)
    BY <2>2 DEF Fail, FailInLog, FailBetween, Unlog
  <2> QED
    BY <2>1, <2>2 DEF Fail
<1> HIDE DEF i
<1>4. IsFiniteSet(unlogged') /\ failures' \in Nat /\ unlogged \subseteq unlogged'
  <2>1. CASE unlogged' = unlogged
    BY <1>2, <1>3, <2>1
  <2>2. CASE unlogged' = unlogged \cup {i}
    BY <1>1, <1>2, <1>3, <2>2
  <2> QED
    BY <1>3, <2>1, <2>2
<1>5. Cardinality(unlogged') + 1 <= 2 * failures'
  <2>1. Cardinality(unlogged) <= 2 * failures
    BY <1>1, <1>2
  <2>2. Cardinality(unlogged') <= Cardinality(unlogged) + 1 /\ Cardinality(unlogged') \in Nat
    BY <1>1, <1>3
  <2> QED
    BY <1>1, <1>2, <1>3, <2>1, <2>2
<1>6. Cardinality(unlogged') + (IF Glued' THEN 1 ELSE 0) <= 2 * failures'
  <2>1. Cardinality(unlogged') \in Nat
    BY <1>1, <1>3
  <2> QED
    BY <1>4, <1>5, <2>1
<1>7. \A k \in DOMAIN journal' : sidecar' /\ (Apart(journal', k) \/ journal'[k].idea \in unlogged')
  <2>1. CASE journal' = journal /\ (sidecar => sidecar')
    BY <1>4, <2>1 DEF SInv, Apart
  <2>2. CASE FailInLog(a) /\ \E shape : Put(a, shape)
    <3>1. PICK shape : Put(a, shape)
      BY <2>2
    <3>2. work[a].entry.idea \in unlogged'
      BY <2>2 DEF FailInLog, Unlog
    <3> QED
      BY <1>4, <3>1, <3>2, PieceOnRecord
  <2>3. \/ journal' = journal /\ (sidecar => sidecar')
        \/ FailInLog(a) /\ \E shape : Put(a, shape)
    <3>1. CASE FailInWrite(a) \/ FailBetween(a)
      BY <3>1 DEF FailInWrite, FailBetween
    <3>2. CASE FailInLog(a)
      BY <3>2 DEF FailInLog
    <3> QED
      BY <3>1, <3>2 DEF Fail
  <2> QED
    BY <2>1, <2>2, <2>3
<1> QED
  BY <1>4, <1>6, <1>7 DEF SInv

\* What stands by itself in the journal can be read, the rest is on record, and
\* there is no more of that than the failures explain.
THEOREM UnreadableIsOnRecord == Spec => []SInv
<1>1. Init => SInv
  <2> SUFFICES ASSUME Init PROVE SInv
    OBVIOUS
  <2>1. unlogged = {} /\ failures = 0 /\ journal = <<>> /\ DOMAIN journal = {}
    BY DEF Init
  <2>2. ~Glued
    BY <2>1 DEF Glued
  <2>3. IsFiniteSet(unlogged) /\ Cardinality(unlogged) = 0
    BY <2>1, FS_EmptySet
  <2> QED
    BY <2>1, <2>2, <2>3 DEF SInv
<1>2. ASSUME IInv, SInv, [Next]_vars PROVE SInv'
  <2>1. CASE UNCHANGED <<sidecar, journal, failures, unlogged>>
    BY <1>2, <2>1 DEF SInv, Apart, Glued
  <2>2. ASSUME NEW a \in Agent, Step(a) PROVE SInv'
    <3>1. CASE Log(a) \/ LogShort(a)
      BY <1>2, <3>1, LogShapes
    <3>2. CASE Open(a) \/ Create(a) \/ Truncate(a) \/ Write(a) \/ Return(a)
      BY <2>1, <3>2 DEF Open, Create, Truncate, Write, Return, fileVars, ghostVars
    <3> QED
      BY <2>2, <3>1, <3>2 DEF Step
  <2>3. ASSUME NEW a \in Agent, NEW i, Add(a, i) \/ Claim(a, i) \/ Finish(a, i) PROVE SInv'
    BY <2>1, <2>3 DEF Add, Claim, Finish, Change, fileVars, ghostVars
  <2>4. CASE UNCHANGED vars
    BY <2>1, <2>4 DEF vars, fileVars, ghostVars
  <2> QED
    BY <1>2, <2>2, <2>3, <2>4, FailShapes DEF Next
<1> QED
  BY <1>1, <1>2, QueueInvariant, PTL DEF Spec
-----------------------------------------------------------------------------
\* The ids of a table are distinct numbers, none above the number of add() calls.
Numbered(rows, n) ==
    \A i \in DOMAIN rows :
       /\ rows[i].id \in Nat /\ rows[i].id <= n
       /\ \A j \in DOMAIN rows : rows[i].id = rows[j].id => i = j

\* It has what was issued, unless the row was lost or cannot be read.
Kept(rows) ==
    \A x \in issued : x.idea \notin lost \cup MultiLine =>
                         x.idea \in DOMAIN rows /\ rows[x.idea].id = x.id

Owned(rows) ==
    \A g \in DOMAIN granted :
       granted[g].idea \in DOMAIN rows => rows[granted[g].idea].agent = granted[g].agent

LoggedUpTo(log, i, level) ==
    \A r \in 1..level : \E k \in DOMAIN log : log[k].idea = i /\ Rank(log[k].action) = r

\* An idea added with an empty asset has no right one.
Right(asset, i) == AssetOf[i] # "" => asset = AssetOf[i]

LastSays(log, id, i) ==
    \E k \in DOMAIN log :
       /\ log[k].id = id /\ log[k].idea = i /\ Right(log[k].asset, i)
       /\ \A m \in DOMAIN log : log[m].id = id => m <= k

\* The journal has every change of each row, and its asset; skip: not yet.
Recorded(rows, skip) ==
    \A i \in DOMAIN rows \ (unlogged \cup skip) :
       LoggedUpTo(journal, i, Level(rows[i].status)) /\ LastSays(journal, rows[i].id, i)

Standing(rows, skip) ==
    Numbered(rows, Len(added)) /\ Kept(rows) /\ Owned(rows) /\ Recorded(rows, skip)

\* The entry that will say what was changed in the rows.
Announced(e, rows) ==
    e.idea \notin unlogged =>
       /\ Level(rows[e.idea].status) = Rank(e.action)
       /\ LoggedUpTo(journal, e.idea, Rank(e.action) - 1)
       /\ Right(e.asset, e.idea)

Pending == {work[a].entry.idea : a \in {b \in Agent : pc[b] = "log"}}

TableStands == (\A a \in Agent : pc[a] # "write") => Standing(table, Pending)

WorkStands ==
    \A a \in Agent :
       pc[a] \in Unlogged => /\ Standing(work[a].rows, {work[a].entry.idea})
                             /\ Announced(work[a].entry, work[a].rows)

Changed ==
    \A a \in Agent :
       LET e == work[a].entry
           rows == work[a].rows
       IN  pc[a] \in Held => /\ e.idea \in DOMAIN rows /\ rows[e.idea].id = e.id
                             /\ e.action = "claim" => rows[e.idea].agent = a

Reached ==
    \A a \in Agent :
       pc[a] \in {"log", "return"} =>
          /\ \A i \in DOMAIN table : i \in DOMAIN work[a].rows /\ table[i] = work[a].rows[i]
          /\ work[a].entry.idea \in DOMAIN table \cup lost

Answers == \A x \in issued : x = [id |-> x.id, idea |-> x.idea]

KInv == Answers /\ TableStands /\ WorkStands /\ Changed /\ Reached
-----------------------------------------------------------------------------
LEMMA MaxOf ==
    ASSUME NEW S \in SUBSET Nat, S # {}, NEW n \in Nat, \A s \in S : s <= n
    PROVE  Max(S) \in S /\ \A s \in S : s <= Max(S)
<1> DEFINE Less == OpToRel(<, Nat)
           U == {b \in Nat : \A s \in S : s <= b}
<1>1. IsWellFoundedOn(Less, Nat)
  BY NatLessThanWellFounded
<1>2. U \subseteq Nat /\ U # {}
  OBVIOUS
<1>3. \A x, y \in Nat : y < x => <<y, x>> \in Less
  BY DEF OpToRel
<1> HIDE DEF Less
<1>4. PICK b \in U : \A c \in U : ~ (<<c, b>> \in Less)
  BY <1>1, <1>2, WFMin
<1>5. \A c \in U : ~(c < b)
  BY <1>2, <1>3, <1>4
<1>6. b \in Nat /\ \A s \in S : s \in Nat /\ b >= s
  OBVIOUS
<1>7. b \in S
  <2> SUFFICES ASSUME b \notin S PROVE FALSE
    OBVIOUS
  <2>1. \A s \in S : s < b /\ s <= b - 1
    BY <1>6
  <2>2. b - 1 \in Nat
    <3>1. PICK s \in S : s \in Nat /\ s < b
      BY <1>6, <2>1
    <3> QED
      BY <1>6, <3>1
  <2>3. b - 1 \in U
    BY <2>1, <2>2
  <2> QED
    BY <1>5, <1>6, <2>3
<1> QED
  BY <1>6, <1>7 DEF Max

\* A new id is above every id that was read.
LEMMA NextIdIsNew ==
    ASSUME IInv, Numbered(table, Len(added))
    PROVE  /\ NextId \in Nat /\ NextId <= Len(added) + 1
           /\ \A i \in DOMAIN Tasks : Tasks[i].id # NextId
<1> DEFINE S == {0} \cup {Tasks[i].id : i \in DOMAIN Tasks}
<1>1. Len(added) \in Nat
  BY Appended DEF IInv, Typed
<1>2. \A i \in DOMAIN Tasks : Tasks[i].id \in Nat /\ Tasks[i].id <= Len(added)
  BY RowsRead DEF Numbered
<1>3. S \in SUBSET Nat /\ S # {} /\ \A s \in S : s <= Len(added)
  BY <1>1, <1>2
<1>4. \A i \in DOMAIN Tasks : Tasks[i].id \in S
  OBVIOUS
<1> HIDE DEF S
<1>5. Max(S) \in S /\ \A s \in S : s <= Max(S)
  BY <1>1, <1>3, MaxOf
<1>6. Max(S) \in Nat /\ Max(S) <= Len(added)
  BY <1>3, <1>5
<1>7. NextId = Max(S) + 1
  BY DEF NextId, S
<1>8. \A i \in DOMAIN Tasks : Tasks[i].id # Max(S) + 1
  BY <1>2, <1>4, <1>5, <1>6
<1> QED
  BY <1>1, <1>6, <1>7, <1>8

\* What nothing is on record about can be read.
LEMMA ApartIsLoadable ==
    ASSUME IInv, SInv, NEW k \in DOMAIN journal, journal[k].idea \notin unlogged
    PROVE  Loadable(k)
  BY DEF SInv, Apart, Loadable

LEMMA MaxIs ==
    ASSUME NEW n \in Nat, NEW S \in SUBSET (1..n), NEW k \in S, \A m \in S : k >= m
    PROVE  Max(S) = k
<1>1. \A j \in S : (\A m \in S : j >= m) => j = k
  OBVIOUS
<1> QED
  BY <1>1 DEF Max

\* _hydrate_assets finds what the last line says.
LEMMA AssetFound ==
    ASSUME IInv, SInv, NEW id, NEW i, i \notin unlogged, LastSays(journal, id, i), AssetOf[i] # ""
    PROVE  Asset(id) = AssetOf[i]
<1> DEFINE lines == Telling(id)
<1>1. PICK n \in Nat : DOMAIN journal = 1..n
  BY Appended DEF IInv, Typed
<1>2. PICK k \in DOMAIN journal : /\ journal[k].id = id /\ journal[k].idea = i
                                  /\ journal[k].asset = AssetOf[i]
                                  /\ \A m \in DOMAIN journal : journal[m].id = id => m <= k
  BY DEF LastSays, Right
<1>3. Loadable(k) /\ sidecar
  BY <1>2, ApartIsLoadable DEF SInv
<1>4. k \in lines /\ lines \in SUBSET (1..n) /\ \A m \in lines : k >= m
  BY <1>1, <1>2, <1>3 DEF Telling
<1>5. Asset(id) = IF lines = {} THEN "stocks" ELSE journal[Max(lines)].asset
  BY <1>3 DEF Asset
<1> HIDE DEF lines
<1>6. Max(lines) = k
  BY <1>1, <1>4, MaxIs
<1> QED
  BY <1>2, <1>4, <1>5, <1>6
-----------------------------------------------------------------------------
\* While nobody holds the lock the table says everything.
LEMMA FreeTable ==
    ASSUME KInv, \A a \in Agent : pc[a] \notin Held
    PROVE  Standing(table, {})
<1>1. \A a \in Agent : pc[a] # "write" /\ pc[a] # "log"
  BY DEF Held, Unlogged
<1>2. Pending = {}
  BY <1>1 DEF Pending
<1> QED
  BY <1>1, <1>2 DEF KInv, TableStands

LEMMA NobodyElse ==
    ASSUME IInv, NEW a \in Agent, pc[a] \in Held \/ (pc[a] = "ready" /\ holder = None)
    PROVE  \A b \in Agent \ {a} : pc[b] \notin Held /\ work[b] = NoWork
  BY QueueAssumption DEF IInv, Locked

LEMMA TakeKnows ==
    ASSUME IInv, KInv, NEW a \in Agent, NEW rows, NEW entry, Take(a, rows, entry),
           UNCHANGED <<table, journal, issued, granted, lost, unlogged>>,
           Len(added) \in Nat, Len(added') \in Nat, Len(added) <= Len(added'),
           Numbered(rows, Len(added')), Kept(rows), Owned(rows),
           Recorded(rows, {entry.idea}), Announced(entry, rows),
           entry.idea \in DOMAIN rows, rows[entry.idea].id = entry.id,
           entry.action = "claim" => rows[entry.idea].agent = a
    PROVE  KInv'
<1>1. /\ pc[a] = "ready" /\ holder = None /\ pc'[a] = "truncate"
      /\ work'[a].rows = rows /\ work'[a].entry = entry
      /\ \A b \in Agent \ {a} : pc'[b] = pc[b] /\ work'[b] = work[b]
  BY DEF Take, IInv, Typed
<1>2. \A b \in Agent : pc[b] \notin Held
  BY <1>1, NobodyElse DEF Held, Unlogged
<1>3. \A b \in Agent \ {a} : pc'[b] \notin Held
  BY <1>1, <1>2
<1>4. Answers'
  BY DEF KInv, Answers
<1>5. TableStands'
  <2>1. Standing(table, {})
    BY <1>2, FreeTable
  <2>2. Numbered(table, Len(added'))
    BY <2>1 DEF Standing, Numbered
  <2>3. Standing(table, Pending)'
    BY <2>1, <2>2 DEF Standing, Numbered, Kept, Owned, Recorded
  <2> QED
    BY <2>3 DEF TableStands
<1>6. WorkStands'
  <2>1. Standing(work[a].rows, {work[a].entry.idea})'
    BY <1>1 DEF Standing, Numbered, Kept, Owned, Recorded
  <2>2. Announced(work[a].entry, work[a].rows)'
    BY <1>1 DEF Announced
  <2> QED
    BY <1>3, <2>1, <2>2 DEF WorkStands, Held
<1>7. Changed'
  BY <1>1, <1>3 DEF Changed
<1>8. Reached'
  BY <1>1, <1>3 DEF Reached, Held, Unlogged
<1> QED
  BY <1>4, <1>5, <1>6, <1>7, <1>8 DEF KInv

LEMMA AddKnows ==
    ASSUME IInv, KInv, NEW a \in Agent, NEW i \in Idea, Add(a, i)
    PROVE  KInv'
<1> DEFINE rows == [j \in DOMAIN Tasks \cup {i} |->
                      IF j = i THEN [id |-> NextId, status |-> "pending", agent |-> None] ELSE Tasks[j]]
           entry == [id |-> NextId, idea |-> i, action |-> "add", asset |-> AssetOf[i]]
<1>1. /\ i \notin ToSet(added) /\ added' = Append(added, i) /\ Take(a, rows, entry)
      /\ UNCHANGED <<table, journal, issued, granted, lost, unlogged>>
  BY DEF Add, fileVars
<1>2. \A b \in Agent : pc[b] \notin Held
  BY <1>1, NobodyElse DEF Take, Held, Unlogged
<1>3. Standing(table, {})
  BY <1>2, FreeTable
<1>4. Len(added) \in Nat /\ Len(added') \in Nat /\ Len(added') = Len(added) + 1
  <2>1. added \in Seq(ToSet(added))
    BY DEF IInv, Typed, IsLog
  <2>2. added \in Seq(ToSet(added) \cup {i})
    BY <2>1 DEF ToSet
  <2> QED
    BY <1>1, <2>2, AppendProperties
<1>5. /\ NextId \in Nat /\ NextId <= Len(added) + 1
      /\ \A j \in DOMAIN Tasks : Tasks[j].id # NextId
  BY <1>3, NextIdIsNew DEF Standing
<1>6. i \notin DOMAIN table /\ DOMAIN Tasks = DOMAIN table \ MultiLine
      /\ \A j \in DOMAIN Tasks : Tasks[j] = table[j]
  BY <1>1 DEF IInv, Known, Tasks, Restrict
<1>7. /\ DOMAIN rows = DOMAIN Tasks \cup {i}
      /\ rows[i].id = NextId /\ rows[i].status = "pending"
      /\ \A j \in DOMAIN Tasks : j # i /\ rows[j] = table[j]
  BY <1>6
<1>8. entry.id = NextId /\ entry.idea = i /\ entry.action = "add" /\ entry.asset = AssetOf[i]
  OBVIOUS
<1> HIDE DEF rows, entry
<1>9. Numbered(rows, Len(added'))
  <2>1. \A j \in DOMAIN Tasks : /\ table[j].id \in Nat /\ table[j].id <= Len(added)
                                /\ table[j].id # NextId
                                /\ \A k \in DOMAIN Tasks : table[j].id = table[k].id => j = k
    BY <1>3, <1>5, <1>6 DEF Standing, Numbered
  <2>2. \A j \in DOMAIN rows : rows[j].id \in Nat /\ rows[j].id <= Len(added')
    BY <1>4, <1>5, <1>7, <2>1
  <2>3. \A j, k \in DOMAIN rows : rows[j].id = rows[k].id => j = k
    BY <1>7, <2>1
  <2> QED
    BY <2>2, <2>3 DEF Numbered
<1>10. Kept(rows)
  BY <1>3, <1>6, <1>7 DEF Standing, Kept
<1>11. Owned(rows)
  <2>1. \A g \in DOMAIN granted : granted[g].idea # i
    BY <1>1 DEF IInv, Claimed, Known
  <2> QED
    BY <1>3, <1>6, <1>7, <2>1 DEF Standing, Owned
<1>12. Recorded(rows, {entry.idea})
  BY <1>3, <1>6, <1>7, <1>8 DEF Standing, Recorded
<1>13. Announced(entry, rows)
  <2>1. Rank(entry.action) = 1 /\ Level(rows[i].status) = 1
    BY <1>7, <1>8, Ranks
  <2>2. LoggedUpTo(journal, entry.idea, Rank(entry.action) - 1)
    BY <2>1 DEF LoggedUpTo
  <2> QED
    BY <1>8, <2>1, <2>2 DEF Announced, Right
<1> QED
  BY <1>1, <1>4, <1>7, <1>8, <1>9, <1>10, <1>11, <1>12, <1>13, TakeKnows

\* claim, complete and reject write the id they read, and the agent too.
LEMMA ChangeKnows ==
    ASSUME IInv, SInv, KInv, NEW a \in Agent, NEW i \in DOMAIN Tasks, NEW row, NEW action,
           Change(a, i, row, action), row.id = Tasks[i].id,
           Level(row.status) = Rank(action), Level(Tasks[i].status) = Rank(action) - 1,
           IF action = "claim" THEN row.agent = a /\ Level(Tasks[i].status) = 1
                               ELSE row.agent = Tasks[i].agent
    PROVE  KInv'
<1> DEFINE rows == [Tasks EXCEPT ![i] = row]
           entry == [id |-> row.id, idea |-> i, action |-> action, asset |-> Asset(row.id)]
<1>1. Take(a, rows, entry) /\ UNCHANGED <<table, journal, issued, granted, lost, unlogged, added>>
  BY DEF Change, fileVars, ghostVars
<1>2. \A b \in Agent : pc[b] \notin Held
  BY <1>1, NobodyElse DEF Take, Held, Unlogged
<1>3. Standing(table, {})
  BY <1>2, FreeTable
<1>4. /\ DOMAIN Tasks = DOMAIN table \ MultiLine
      /\ \A j \in DOMAIN Tasks : Tasks[j] = table[j]
  BY DEF Tasks, Restrict
<1>5. /\ DOMAIN rows = DOMAIN Tasks /\ rows[i] = row
      /\ \A j \in DOMAIN Tasks \ {i} : rows[j] = table[j]
  BY <1>4 DEF Tasks, Restrict
<1>6. /\ entry.id = row.id /\ entry.idea = i
      /\ entry.action = action /\ entry.asset = Asset(row.id)
  OBVIOUS
<1> HIDE DEF rows, entry
<1>7. i \in DOMAIN table /\ Tasks[i] = table[i] /\ row.id = table[i].id
  BY <1>4
<1>8. Len(added) \in Nat /\ Len(added') = Len(added)
  BY <1>1, Appended DEF IInv, Typed
<1>9. \A j \in DOMAIN rows : j \in DOMAIN table /\ rows[j].id = table[j].id
  BY <1>4, <1>5, <1>7
<1>10. Numbered(rows, Len(added'))
  BY <1>3, <1>8, <1>9 DEF Standing, Numbered
<1>11. Kept(rows)
  BY <1>3, <1>4, <1>5, <1>9 DEF Standing, Kept
<1>12. action = "claim" => \A m \in DOMAIN granted : granted[m].idea # i
  <2>1. \A k \in DOMAIN journal : journal[k].idea = i =>
           /\ Rank(journal[k].action) <= Level(Tasks[i].status)
           /\ Rank(journal[k].action) \in {1, 2, 3}
    BY <1>7, Ranks DEF IInv, Ahead
  <2> QED
    BY <2>1 DEF IInv, Claimed
<1>13. Owned(rows)
  <2> SUFFICES ASSUME NEW g \in DOMAIN granted, granted[g].idea \in DOMAIN rows
               PROVE  rows[granted[g].idea].agent = granted[g].agent
    BY DEF Owned
  <2>1. /\ granted[g].idea \in DOMAIN table
        /\ table[granted[g].idea].agent = granted[g].agent
    BY <1>3, <1>9 DEF Standing, Owned
  <2>2. CASE granted[g].idea = i
    BY <1>5, <1>7, <1>12, <2>1, <2>2
  <2>3. CASE granted[g].idea # i
    BY <1>5, <2>1, <2>3
  <2> QED
    BY <2>2, <2>3
<1>14. Recorded(rows, {entry.idea})
  BY <1>3, <1>4, <1>5, <1>6 DEF Standing, Recorded
<1>15. Announced(entry, rows)
  <2> SUFFICES ASSUME i \notin unlogged PROVE Announced(entry, rows)
    BY <1>6 DEF Announced
  <2>1. LoggedUpTo(journal, i, Level(table[i].status)) /\ LastSays(journal, row.id, i)
    BY <1>3, <1>7 DEF Standing, Recorded
  <2>2. Right(Asset(row.id), i)
    BY <2>1, AssetFound DEF Right
  <2>3. LoggedUpTo(journal, i, Rank(action) - 1)
    BY <1>7, <2>1
  <2> QED
    BY <1>5, <1>6, <2>2, <2>3 DEF Announced
<1>16. entry.idea \in DOMAIN rows /\ rows[entry.idea].id = entry.id
       /\ (entry.action = "claim" => rows[entry.idea].agent = a)
  BY <1>5, <1>6
<1>17. Len(added') \in Nat /\ Len(added) <= Len(added')
  BY <1>8
<1> QED
  BY <1>1, <1>8, <1>10, <1>11, <1>13, <1>14, <1>15, <1>16, <1>17, TakeKnows

\* A late creation takes every row, and says so.
LEMMA OpenKnows == ASSUME IInv, KInv, NEW a \in Agent, Open(a) \/ Create(a) PROVE KInv'
<1>1. /\ pc[a] \notin Held /\ pc'[a] \notin Held
      /\ \A b \in Agent \ {a} : pc'[b] = pc[b]
      /\ UNCHANGED <<journal, work, added, issued, granted, unlogged>>
      /\ \/ table' = table /\ lost' = lost
         \/ table' = NoRows /\ lost' = lost \cup DOMAIN table
  BY DEF Open, Create, fileVars, ghostVars, IInv, Typed, PC, Held, Unlogged
<1>2. \A b \in Agent : /\ pc'[b] \in Held <=> pc[b] \in Held
                       /\ pc[b] \in Held => pc'[b] = pc[b]
  BY <1>1
<1>3. \A b \in Agent : pc'[b] \in Unlogged => pc[b] \in Unlogged
  BY <1>2 DEF Held
<1>5. DOMAIN NoRows = {}
  BY DEF NoRows
<1>6. Answers' /\ Changed'
  BY <1>1, <1>2 DEF KInv, Answers, Changed
<1>7. WorkStands'
  BY <1>1, <1>3 DEF KInv, WorkStands, Standing, Numbered, Kept, Owned, Recorded, Announced
<1>8. Reached'
  <2> SUFFICES ASSUME NEW b \in Agent, pc'[b] \in {"log", "return"}
               PROVE  /\ \A i \in DOMAIN table' : i \in DOMAIN work'[b].rows
                                                /\ table'[i] = work'[b].rows[i]
                      /\ work'[b].entry.idea \in DOMAIN table' \cup lost'
    BY DEF Reached
  <2>1. pc[b] \in {"log", "return"}
    <3>1. pc'[b] \in Held
      BY DEF Held, Unlogged
    <3> QED
      BY <1>2, <3>1
  <2>2. /\ \A i \in DOMAIN table : i \in DOMAIN work[b].rows /\ table[i] = work[b].rows[i]
        /\ work[b].entry.idea \in DOMAIN table \cup lost
    BY <2>1 DEF KInv, Reached
  <2>3. /\ DOMAIN table' \cup lost' = DOMAIN table \cup lost
        /\ \A i \in DOMAIN table' : i \in DOMAIN table /\ table'[i] = table[i]
    BY <1>1, <1>5
  <2> QED
    BY <1>1, <2>2, <2>3
<1>9. TableStands'
  <2> SUFFICES ASSUME \A b \in Agent : pc'[b] # "write" PROVE Standing(table, Pending)'
    BY DEF TableStands
  <2>1. Standing(table, Pending)
    BY <1>1 DEF KInv, TableStands, Held, Unlogged
  <2>2. \A b \in Agent : pc'[b] = "log" <=> pc[b] = "log"
    BY <1>2 DEF Held, Unlogged
  <2>3. Pending' = Pending
    BY <1>1, <2>2 DEF Pending
  <2>4. CASE table' = table /\ lost' = lost
    BY <1>1, <2>1, <2>3, <2>4 DEF Standing, Numbered, Kept, Owned, Recorded
  <2>5. CASE table' = NoRows /\ lost' = lost \cup DOMAIN table
    <3>1. \A x \in issued' : x.idea \in lost' \cup MultiLine
      BY <1>1, <2>1, <2>5 DEF Standing, Kept
    <3> QED
      BY <1>5, <2>5, <3>1 DEF Standing, Numbered, Kept, Owned, Recorded
  <2> QED
    BY <1>1, <2>4, <2>5
<1> QED
  BY <1>6, <1>7, <1>8, <1>9 DEF KInv

LEMMA WriteKnows == ASSUME IInv, KInv, NEW a \in Agent, Truncate(a) \/ Write(a) PROVE KInv'
<1>1. /\ pc[a] \in {"truncate", "write"} /\ pc'[a] \in {"write", "log"}
      /\ \A b \in Agent \ {a} : pc'[b] = pc[b]
      /\ UNCHANGED <<journal, work, added, issued, granted, lost, unlogged>>
      /\ pc'[a] = "log" => table' = work[a].rows
  BY DEF Truncate, Write, ghostVars, IInv, Typed
<1>2. \A b \in Agent \ {a} : pc[b] \notin Held /\ pc'[b] \notin Held
  BY <1>1, NobodyElse DEF Held, Unlogged
<1>3. Answers'
  BY <1>1 DEF KInv, Answers
<1>4. Changed' /\ WorkStands'
  BY <1>1, <1>2 DEF KInv, Changed, WorkStands, Standing, Numbered, Kept, Owned, Recorded, Announced, Held, Unlogged
<1>5. Reached'
  BY <1>1, <1>2 DEF KInv, Reached, Changed, Held, Unlogged
<1>6. TableStands'
  <2> SUFFICES ASSUME \A b \in Agent : pc'[b] # "write" PROVE Standing(table, Pending)'
    BY DEF TableStands
  <2>1. pc'[a] = "log" /\ table' = work[a].rows
    BY <1>1
  <2>2. Pending' = {work[a].entry.idea}
    BY <1>1, <1>2, <2>1 DEF Pending, Held, Unlogged
  <2>3. Standing(work[a].rows, {work[a].entry.idea})
    BY <1>1 DEF KInv, WorkStands, Unlogged
  <2> QED
    BY <1>1, <2>1, <2>2, <2>3 DEF Standing, Numbered, Kept, Owned, Recorded
<1> QED
  BY <1>3, <1>4, <1>5, <1>6 DEF KInv

\* The line, or what there is of it, is nobody else's, and completes the record
\* of its idea if that has one.
LEMMA PieceKnows ==
    ASSUME IInv, KInv, NEW a \in Agent, pc[a] = "log", NEW shape, Put(a, shape),
           UNCHANGED <<table, added>>, unlogged \subseteq unlogged'
    PROVE  \A i \in DOMAIN table \ unlogged' :
              (LoggedUpTo(journal, i, Level(table[i].status)) /\ LastSays(journal, table[i].id, i))'
<1> DEFINE e == work[a].entry
           rows == work[a].rows
           n == Len(journal)
<1>1. \A b \in Agent \ {a} : pc[b] \notin Held
  BY NobodyElse DEF Held, Unlogged
<1>2. /\ n \in Nat /\ DOMAIN journal = 1..n /\ DOMAIN journal' = 1..(n + 1)
      /\ \A k \in 1..n : journal'[k] = journal[k]
      /\ journal'[n + 1].id = e.id /\ journal'[n + 1].idea = e.idea
      /\ journal'[n + 1].action = e.action /\ journal'[n + 1].asset = e.asset
  BY PieceBehind
<1>4. Standing(table, {e.idea})
  <2>1. Pending = {e.idea}
    BY <1>1 DEF Pending, Held, Unlogged
  <2>2. \A b \in Agent : pc[b] # "write"
    BY <1>1 DEF Held, Unlogged
  <2> QED
    BY <2>1, <2>2 DEF KInv, TableStands
<1>5. /\ Standing(rows, {e.idea}) /\ Announced(e, rows)
      /\ e.idea \in DOMAIN rows /\ rows[e.idea].id = e.id
      /\ \A i \in DOMAIN table : i \in DOMAIN rows /\ table[i] = rows[i]
  BY DEF KInv, WorkStands, Changed, Reached, Held, Unlogged
<1> HIDE DEF e, rows, n
<1>6. \A i \in DOMAIN table \ {e.idea} : table[i].id # e.id
  BY <1>5 DEF Standing, Numbered
<1> SUFFICES ASSUME NEW i \in DOMAIN table, i \notin unlogged
             PROVE  LoggedUpTo(journal, i, Level(table[i].status))' /\ LastSays(journal, table[i].id, i)'
  OBVIOUS
<1>7. CASE i # e.idea
  <2>1. LoggedUpTo(journal, i, Level(table[i].status)) /\ LastSays(journal, table[i].id, i)
    BY <1>4, <1>7 DEF Standing, Recorded
  <2>2. LoggedUpTo(journal, i, Level(table[i].status))'
    <3>1. \A k \in DOMAIN journal : k \in DOMAIN journal' /\ journal'[k] = journal[k]
      BY <1>2
    <3> QED
      BY <2>1, <3>1 DEF LoggedUpTo
  <2>3. LastSays(journal, table[i].id, i)'
    <3>1. PICK k \in 1..n : /\ journal[k].id = table[i].id /\ journal[k].idea = i
                            /\ Right(journal[k].asset, i)
                            /\ \A m \in 1..n : journal[m].id = table[i].id => m <= k
      BY <1>2, <2>1 DEF LastSays
    <3>2. table[i].id # e.id
      BY <1>6, <1>7
    <3>3. \A m \in DOMAIN journal' : journal'[m].id = table[i].id => m \in 1..n /\ m <= k
      <4>1. \A m \in DOMAIN journal' : m \in 1..n \/ m = n + 1
        BY <1>2
      <4> QED
        BY <1>2, <3>1, <3>2, <4>1
    <3>4. k \in DOMAIN journal' /\ journal'[k] = journal[k]
      BY <1>2
    <3> QED
      BY <3>1, <3>3, <3>4 DEF LastSays, Right
  <2> QED
    BY <2>2, <2>3
<1>8. CASE i = e.idea
  <2>1. /\ Level(table[i].status) = Rank(e.action)
        /\ LoggedUpTo(journal, i, Rank(e.action) - 1)
        /\ Right(e.asset, i) /\ table[i].id = e.id
    BY <1>5, <1>8 DEF Announced
  <2>2. Rank(e.action) \in {1, 2, 3}
    BY Ranks
  <2>3. n + 1 \in DOMAIN journal' /\ journal'[n + 1].idea = i /\ journal'[n + 1].action = e.action
    BY <1>2, <1>8
  <2>4. ASSUME NEW r \in 1..Rank(e.action)
        PROVE  \E k \in DOMAIN journal' : journal'[k].idea = i /\ Rank(journal'[k].action) = r
    <3>1. CASE r = Rank(e.action)
      BY <2>3, <3>1
    <3>2. CASE r # Rank(e.action)
      <4>1. r \in 1..(Rank(e.action) - 1)
        BY <2>2, <3>2
      <4>2. PICK k \in DOMAIN journal : journal[k].idea = i /\ Rank(journal[k].action) = r
        BY <2>1, <4>1 DEF LoggedUpTo
      <4>3. k \in DOMAIN journal' /\ journal'[k] = journal[k]
        BY <1>2
      <4> QED
        BY <4>2, <4>3
    <3> QED
      BY <3>1, <3>2
  <2>5. LoggedUpTo(journal, i, Level(table[i].status))'
    BY <2>1, <2>4 DEF LoggedUpTo
  <2>6. \A m \in DOMAIN journal' : m <= n + 1
    BY <1>2
  <2>7. LastSays(journal, table[i].id, i)'
    BY <1>2, <2>1, <2>3, <2>6 DEF LastSays, Right
  <2> QED
    BY <2>5, <2>7
<1> QED
  BY <1>7, <1>8

LEMMA LogKnows == ASSUME IInv, KInv, NEW a \in Agent, Log(a) \/ LogShort(a) PROVE KInv'
<1>1. /\ pc[a] = "log" /\ pc'[a] = "return"
      /\ \A b \in Agent \ {a} : pc'[b] = pc[b]
      /\ UNCHANGED <<table, work, added, issued, granted, lost>>
      /\ unlogged \subseteq unlogged'
  BY DEF Log, LogShort, Unlog, IInv, Typed
<1>2. PICK shape : Put(a, shape)
  BY DEF Log, LogShort
<1>3. \A b \in Agent \ {a} : pc[b] \notin Held /\ pc'[b] \notin Held
  BY <1>1, NobodyElse DEF Held, Unlogged
<1>4. \A i \in DOMAIN table \ unlogged' :
         (LoggedUpTo(journal, i, Level(table[i].status)) /\ LastSays(journal, table[i].id, i))'
  BY <1>1, <1>2, PieceKnows
<1>5. Standing(table, Pending)
  BY <1>1, <1>3 DEF KInv, TableStands, Held, Unlogged
<1>6. TableStands'
  <2>1. Pending' = {}
    BY <1>1, <1>3 DEF Pending, Held, Unlogged
  <2>2. Recorded(table, {})'
    BY <1>1, <1>4 DEF Recorded
  <2>3. (Numbered(table, Len(added)) /\ Kept(table) /\ Owned(table))'
    BY <1>1, <1>5 DEF Standing, Numbered, Kept, Owned
  <2> QED
    BY <2>1, <2>2, <2>3 DEF TableStands, Standing
<1>7. Answers' /\ Changed'
  BY <1>1, <1>3 DEF KInv, Answers, Changed, Held, Unlogged
<1>8. WorkStands'
  BY <1>1, <1>3 DEF WorkStands, Held, Unlogged
<1>9. Reached'
  BY <1>1, <1>3 DEF KInv, Reached, Held, Unlogged
<1> QED
  BY <1>6, <1>7, <1>8, <1>9 DEF KInv

\* What the call answers is in the table, or lost.
LEMMA ReturnKnows == ASSUME IInv, KInv, NEW a \in Agent, Return(a) PROVE KInv'
<1> DEFINE e == work[a].entry
           x == [id |-> e.id, idea |-> e.idea]
           g == [idea |-> e.idea, agent |-> a]
           n == Len(granted)
<1>1. /\ pc[a] = "return" /\ pc'[a] = "ready"
      /\ \A b \in Agent \ {a} : pc'[b] = pc[b] /\ work'[b] = work[b]
      /\ UNCHANGED <<table, journal, added, lost, unlogged>>
      /\ issued' = IF e.action = "add" THEN issued \cup {x} ELSE issued
      /\ granted' = IF e.action = "claim" THEN Append(granted, g) ELSE granted
  BY DEF Return, Done, fileVars, IInv, Typed
<1>2. \A b \in Agent \ {a} : pc[b] \notin Held /\ pc'[b] \notin Held
  BY <1>1, NobodyElse DEF Held, Unlogged
<1>3. \A b \in Agent : pc'[b] \notin Held
  BY <1>1, <1>2 DEF Held, Unlogged
<1>4. Standing(table, {})
  <2>1. Pending = {} /\ \A b \in Agent : pc[b] # "write"
    BY <1>1, <1>2 DEF Pending, Held, Unlogged
  <2> QED
    BY <2>1 DEF KInv, TableStands
<1>5. /\ e.idea \in DOMAIN table \cup lost
      /\ e.idea \in DOMAIN table => /\ table[e.idea].id = e.id
                                    /\ e.action = "claim" => table[e.idea].agent = a
  BY <1>1 DEF KInv, Reached, Changed, Held
<1>6. /\ DOMAIN granted = 1..n /\ n \in Nat
      /\ DOMAIN Append(granted, g) = 1..(n + 1)
      /\ \A k \in 1..n : Append(granted, g)[k] = granted[k]
      /\ Append(granted, g)[n + 1] = g
  BY Appended DEF IInv, Typed
<1>7. /\ x.id = e.id /\ x.idea = e.idea /\ x = [id |-> x.id, idea |-> x.idea]
      /\ g.idea = e.idea /\ g.agent = a
  OBVIOUS
<1> HIDE DEF e, x, g, n
<1>8. Answers'
  BY <1>1, <1>7 DEF KInv, Answers
<1>9. WorkStands' /\ Changed' /\ Reached'
  BY <1>3 DEF WorkStands, Changed, Reached, Held, Unlogged
<1>10. Kept(table)'
  <2>1. Kept(table)
    BY <1>4 DEF Standing
  <2>2. e.idea \notin lost => e.idea \in DOMAIN table /\ table[e.idea].id = e.id
    BY <1>5
  <2>3. \A y \in issued' : y \in issued \/ y = x
    BY <1>1
  <2> QED
    BY <1>1, <1>7, <2>1, <2>2, <2>3 DEF Kept
<1>11. Owned(table)'
  <2>1. Owned(table)
    BY <1>4 DEF Standing
  <2>2. CASE e.action # "claim"
    BY <1>1, <2>1, <2>2 DEF Owned
  <2>3. CASE e.action = "claim"
    <3>1. \A k \in DOMAIN granted' :
             (k \in DOMAIN granted /\ granted'[k] = granted[k]) \/ granted'[k] = g
      BY <1>1, <1>6, <2>3
    <3>2. e.idea \in DOMAIN table => table[e.idea].agent = a
      BY <1>5, <2>3
    <3> QED
      BY <1>1, <1>7, <2>1, <3>1, <3>2 DEF Owned
  <2> QED
    BY <2>2, <2>3
<1>12. TableStands'
  <2>1. Pending' = {}
    BY <1>3 DEF Pending, Held, Unlogged
  <2>2. (Numbered(table, Len(added)) /\ Recorded(table, {}))'
    BY <1>1, <1>4 DEF Standing, Numbered, Recorded
  <2> QED
    BY <1>10, <1>11, <2>1, <2>2 DEF TableStands, Standing
<1> QED
  BY <1>8, <1>9, <1>12 DEF KInv

\* Rows that did not reach the file are lost; a change without a line, unlogged.
LEMMA FailKnows == ASSUME IInv, KInv, NEW a \in Agent, Fail(a) PROVE KInv'
<1> DEFINE e == work[a].entry
           rows == work[a].rows
<1>1. /\ pc[a] \in Held /\ pc'[a] \in {"ready", "start"}
      /\ \A b \in Agent \ {a} : pc'[b] = pc[b] /\ work'[b] = work[b]
      /\ UNCHANGED <<added, issued, granted>>
  BY DEF Fail, FailInWrite, FailInLog, FailBetween, Done, IInv, Typed, Held, Unlogged
<1>2. \A b \in Agent \ {a} : pc[b] \notin Held /\ pc'[b] \notin Held
  BY <1>1, NobodyElse
<1>3. \A b \in Agent : pc'[b] \notin Held
  BY <1>1, <1>2 DEF Held, Unlogged
<1>4. Answers'
  BY <1>1 DEF KInv, Answers
<1>5. WorkStands' /\ Changed' /\ Reached'
  BY <1>3 DEF WorkStands, Changed, Reached, Held, Unlogged
<1>6. ASSUME FailInWrite(a) PROVE Standing(table, {})'
  <2>1. /\ pc[a] = "write" /\ journal' = journal
        /\ \A i \in DOMAIN table' : i \in DOMAIN rows /\ table'[i] = rows[i]
        /\ lost' = lost \cup (DOMAIN rows \ DOMAIN table')
        /\ unlogged' = unlogged \cup ({e.idea} \cap DOMAIN table')
    BY <1>6 DEF FailInWrite, Restrict
  <2>2. Standing(rows, {e.idea})
    BY <2>1 DEF KInv, WorkStands, Unlogged
  <2> HIDE DEF e, rows
  <2>3. Numbered(table, Len(added))'
    BY <1>1, <2>1, <2>2 DEF Standing, Numbered
  <2>4. (Kept(table) /\ Owned(table))'
    BY <1>1, <2>1, <2>2 DEF Standing, Kept, Owned
  <2>5. Recorded(table, {})'
    BY <1>1, <2>1, <2>2 DEF Standing, Recorded
  <2> QED
    BY <2>3, <2>4, <2>5 DEF Standing
<1>7. ASSUME FailInLog(a) \/ FailBetween(a) PROVE Standing(table, {})'
  <2>1. /\ pc[a] # "write" /\ UNCHANGED <<table, lost>>
        /\ unlogged' = IF pc[a] = "log" THEN unlogged \cup {e.idea} ELSE unlogged
        /\ journal' = journal \/ (pc[a] = "log" /\ \E shape : Put(a, shape))
    BY <1>7 DEF FailInLog, FailBetween, Unlog
  <2>2. Pending = IF pc[a] = "log" THEN {e.idea} ELSE {}
    BY <1>2 DEF Pending, Held, Unlogged
  <2>3. \A b \in Agent : pc[b] # "write"
    BY <1>2, <2>1 DEF Held, Unlogged
  <2>4. Standing(table, Pending)
    BY <2>3 DEF KInv, TableStands
  <2>5. unlogged' = unlogged \cup Pending
    BY <2>1, <2>2
  <2> HIDE DEF Pending, e, rows
  <2>6. (Numbered(table, Len(added)) /\ Kept(table) /\ Owned(table))'
    BY <1>1, <2>1, <2>4 DEF Standing, Numbered, Kept, Owned
  <2>7. Recorded(table, {})'
    <3>1. CASE journal' = journal
      BY <2>1, <2>4, <2>5, <3>1 DEF Standing, Recorded
    <3>2. CASE pc[a] = "log" /\ \E shape : Put(a, shape)
      <4>1. PICK shape : Put(a, shape)
        BY <3>2
      <4>2. \A i \in DOMAIN table \ unlogged' :
               (LoggedUpTo(journal, i, Level(table[i].status)) /\ LastSays(journal, table[i].id, i))'
        BY <1>1, <2>1, <2>5, <3>2, <4>1, PieceKnows
      <4> QED
        BY <2>1, <4>2 DEF Recorded
    <3> QED
      BY <2>1, <3>1, <3>2
  <2> QED
    BY <2>6, <2>7 DEF Standing
<1>8. TableStands'
  <2>1. Pending' = {}
    BY <1>3 DEF Pending, Held, Unlogged
  <2>2. Standing(table, {})'
    BY <1>6, <1>7 DEF Fail
  <2> QED
    BY <2>1, <2>2 DEF TableStands
<1> QED
  BY <1>4, <1>5, <1>8 DEF KInv
-----------------------------------------------------------------------------
\* The table keeps what was answered while it is being rewritten.
THEOREM TableInvariant == Spec => []KInv
<1>1. Init => KInv
  <2> SUFFICES ASSUME Init PROVE KInv
    OBVIOUS
  <2>1. \A a \in Agent : pc[a] = "start"
    BY DEF Init
  <2>2. DOMAIN table = {} /\ issued = {}
    BY DEF Init, NoRows
  <2> QED
    BY <2>1, <2>2 DEF KInv, Answers, TableStands, WorkStands, Changed, Reached, Standing, Numbered,
                      Kept, Owned, Recorded, Held, Unlogged, Init
<1>2. ASSUME IInv, SInv, KInv, [Next]_vars PROVE KInv'
  <2>1. CASE UNCHANGED vars
    BY <1>2, <2>1 DEF vars, fileVars, ghostVars, KInv, Answers, TableStands, WorkStands, Changed,
                      Reached, Standing, Numbered, Kept, Owned, Recorded,
                      Announced, Pending
  <2>2. ASSUME NEW a \in Agent, Step(a) PROVE KInv'
    BY <1>2, <2>2, OpenKnows, WriteKnows, LogKnows, ReturnKnows DEF Step
  <2>3. ASSUME NEW a \in Agent, NEW i \in DOMAIN Tasks, Claim(a, i) PROVE KInv'
    <3> DEFINE row == [id |-> Tasks[i].id, status |-> "testing", agent |-> a]
    <3>1. row.id = Tasks[i].id /\ row.status = "testing" /\ row.agent = a
      OBVIOUS
    <3>2. Change(a, i, row, "claim") /\ Tasks[i].status = "pending"
      BY <2>3 DEF Claim
    <3> HIDE DEF row
    <3>3. Level(row.status) = Rank("claim") /\ Level(Tasks[i].status) = Rank("claim") - 1
          /\ Level(Tasks[i].status) = 1
      BY <3>1, <3>2, Ranks
    <3> QED
      BY <1>2, <3>1, <3>2, <3>3, ChangeKnows
  <2>4. ASSUME NEW a \in Agent, NEW i \in DOMAIN Tasks, Finish(a, i) PROVE KInv'
    <3>1. PICK end \in {[status |-> "validated", action |-> "complete"],
                        [status |-> "rejected", action |-> "reject"]} :
              Change(a, i, [Tasks[i] EXCEPT !.status = end.status], end.action)
      BY <2>4 DEF Finish
    <3> DEFINE row == [Tasks[i] EXCEPT !.status = end.status]
    <3>2. row.id = Tasks[i].id /\ row.status = end.status /\ row.agent = Tasks[i].agent
      <4>1. IsRow(Tasks[i])
        BY <1>2, RowsRead DEF IInv, Ahead
      <4> QED
        BY <4>1 DEF IsRow
    <3>3. Change(a, i, row, end.action) /\ Tasks[i].status = "testing"
      BY <2>4, <3>1 DEF Finish
    <3>4. Rank(end.action) = 3 /\ Level(end.status) = 3 /\ end.action # "claim"
      BY Ranks
    <3> HIDE DEF row
    <3>5. Level(row.status) = Rank(end.action) /\ Level(Tasks[i].status) = Rank(end.action) - 1
      BY <3>2, <3>3, <3>4, Ranks
    <3> QED
      BY <1>2, <3>2, <3>3, <3>4, <3>5, ChangeKnows
  <2> QED
    BY <1>2, <2>1, <2>2, <2>3, <2>4, AddKnows, FailKnows DEF Next
<1> QED
  BY <1>1, <1>2, QueueInvariant, UnreadableIsOnRecord, PTL DEF Spec

\* As many lines as the state has steps behind it.
LEMMA LinesCounted ==
    ASSUME IInv, SInv, NEW i \in DOMAIN table \ unlogged, LoggedUpTo(journal, i, Level(table[i].status))
    PROVE  Cardinality({k \in DOMAIN journal : Loadable(k) /\ journal[k].idea = i})
               = Level(table[i].status)
<1> DEFINE lines == {k \in DOMAIN journal : journal[k].idea = i}
           level == Level(table[i].status)
           f == [k \in lines |-> Rank(journal[k].action)]
           T == 1..level
<1>0. {k \in DOMAIN journal : Loadable(k) /\ journal[k].idea = i} = lines
  BY ApartIsLoadable
<1>1. /\ level \in {1, 2, 3} /\ \A k \in lines : f[k] \in {1, 2, 3}
      /\ \A k \in lines : f[k] <= level
  BY Ranks DEF IInv, Ahead
<1>2. f \in [lines -> T]
  <2>1. \A k \in lines : f[k] \in T
    BY <1>1
  <2> QED
    BY <2>1
<1>3. \A j, k \in lines : f[j] = f[k] => j = k
  <2>1. DOMAIN journal = 1..Len(journal) /\ Len(journal) \in Nat
    BY Appended DEF IInv, Typed
  <2>2. \A j, k \in lines : j \in Nat /\ k \in Nat /\ (j < k => f[j] < f[k])
    BY <2>1 DEF IInv, JournalInOrder
  <2> HIDE DEF f
  <2>3. \A j, k \in lines : j \in Nat /\ k \in Nat /\ f[j] \in Nat /\ f[k] \in Nat
    BY <1>1, <2>2
  <2> HIDE DEF lines
  <2>4. \A j, k \in lines : j < k \/ k < j \/ j = k
    BY <2>3
  <2> QED
    BY <2>2, <2>3, <2>4
<1>4. \A r \in T : \E k \in lines : f[k] = r
  BY DEF LoggedUpTo
<1>5. IsFiniteSet(T) /\ Cardinality(T) = level
  BY <1>1, FS_Interval
<1> HIDE DEF lines, level, f, T
<1>6. f \in Surjection(lines, T) /\ f \in Injection(lines, T)
  BY <1>2, <1>3, <1>4 DEF Surjection, Injection, IsInjective
<1>7. IsFiniteSet(lines)
  <2>1. lines \in SUBSET (1..Len(journal)) /\ Len(journal) \in Nat
    BY Appended DEF IInv, Typed, lines
  <2>2. IsFiniteSet(1..Len(journal))
    BY <2>1, FS_Interval
  <2> QED
    BY <2>1, <2>2, FS_Subset
<1>8. Cardinality(T) = Cardinality(lines)
  BY <1>6, <1>7, FS_Surjection
<1> QED
  BY <1>0, <1>8, <1>5 DEF lines, level

\* An id that add() returned names one idea for good, broken rows excepted.
THEOREM IdsStayUnique == Spec => []IdsNameOneIdea
<1>1. IInv /\ KInv => IdsNameOneIdea
  <2> SUFFICES ASSUME IInv, KInv, NEW x \in issued, NEW y \in issued, x.id = y.id,
                      x.idea \notin lost \cup MultiLine, y.idea \notin lost \cup MultiLine
               PROVE  x = y
    BY DEF IdsNameOneIdea
  <2>1. \E rows : Numbered(rows, Len(added)) /\ Kept(rows)
    <3>1. CASE \E a \in Agent : pc[a] = "write"
      BY <3>1 DEF KInv, WorkStands, Standing, Unlogged
    <3>2. CASE \A a \in Agent : pc[a] # "write"
      BY <3>2 DEF KInv, TableStands, Standing
    <3> QED
      BY <3>1, <3>2
  <2>2. x.idea = y.idea
    BY <2>1 DEF Numbered, Kept
  <2> QED
    BY <2>2 DEF KInv, Answers
<1> QED
  BY <1>1, QueueInvariant, TableInvariant, PTL

\* A free table has every idea that was issued, in the state and with the
\* asset its journal lines say and with the agent claim() told; only ideas on
\* record may lack lines, at most two for each failure.
THEOREM TableKeepsUpWithJournal == Spec => []TableKeepsUp
<1>1. IInv /\ SInv /\ KInv => TableKeepsUp
  <2> SUFFICES ASSUME IInv, SInv, KInv PROVE TableKeepsUp
    OBVIOUS
  <2>1. Cardinality(unlogged) <= 2 * failures
    <3>1. Cardinality(unlogged) \in Nat /\ failures \in Nat
      BY FS_CardinalityType DEF SInv
    <3> QED
      BY <3>1 DEF SInv
  <2>2. ASSUME holder = None, NEW x \in issued, x.idea \notin lost \cup MultiLine
        PROVE  /\ x.idea \in DOMAIN table
               /\ LET t == table[x.idea]
                      lines == {k \in DOMAIN journal : Loadable(k) /\ journal[k].idea = x.idea}
                  IN  /\ t.id = x.id
                      /\ \A i \in DOMAIN table \ {x.idea} : table[i].id = x.id => i \in MultiLine
                      /\ \A g \in DOMAIN granted :
                            granted[g].idea = x.idea => t.agent = granted[g].agent
                      /\ x.idea \notin unlogged =>
                            /\ AssetOf[x.idea] # "" => Asset(x.id) = AssetOf[x.idea]
                            /\ Cardinality(lines) = CASE t.status = "pending" -> 1
                                                      [] t.status = "testing" -> 2
                                                      [] OTHER -> 3
    <3>1. \A a \in Agent : pc[a] \notin Held
      BY <2>2, QueueAssumption DEF IInv, Locked
    <3>2. Standing(table, {})
      BY <3>1, FreeTable
    <3>3. x.idea \in DOMAIN table /\ table[x.idea].id = x.id
      BY <2>2, <3>2 DEF Standing, Kept
    <3>4. \A i \in DOMAIN table \ {x.idea} : table[i].id # x.id
      BY <3>2, <3>3 DEF Standing, Numbered
    <3>5. \A g \in DOMAIN granted :
             granted[g].idea = x.idea => table[x.idea].agent = granted[g].agent
      BY <3>2, <3>3 DEF Standing, Owned
    <3>6. ASSUME x.idea \notin unlogged
          PROVE  /\ AssetOf[x.idea] # "" => Asset(x.id) = AssetOf[x.idea]
                 /\ Cardinality({k \in DOMAIN journal : Loadable(k) /\ journal[k].idea = x.idea})
                        = Level(table[x.idea].status)
      <4>1. LoggedUpTo(journal, x.idea, Level(table[x.idea].status)) /\ LastSays(journal, x.id, x.idea)
        BY <3>2, <3>3, <3>6 DEF Standing, Recorded
      <4>2. AssetOf[x.idea] # "" => Asset(x.id) = AssetOf[x.idea]
        BY <3>6, <4>1, AssetFound
      <4>3. Cardinality({k \in DOMAIN journal : Loadable(k) /\ journal[k].idea = x.idea})
                = Level(table[x.idea].status)
        BY <3>3, <3>6, <4>1, LinesCounted
      <4> QED
        BY <4>2, <4>3
    <3>7. Level(table[x.idea].status) = CASE table[x.idea].status = "pending" -> 1
                                          [] table[x.idea].status = "testing" -> 2
                                          [] OTHER -> 3
      BY DEF Level
    <3> QED
      BY <3>3, <3>4, <3>5, <3>6, <3>7
  <2> QED
    BY <2>1, <2>2 DEF TableKeepsUp
<1> QED
  BY <1>1, QueueInvariant, UnreadableIsOnRecord, TableInvariant, PTL
=============================================================================
