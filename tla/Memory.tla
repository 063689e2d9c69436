------------------------------- MODULE Memory -------------------------------
(***************************************************************************)
(* agent_framework/memory.py: a MemoryStore that several threads share.    *)
(* Every statement runs under the store's lock together with its commit,   *)
(* and with the triggers that keep the full-text index: a write is one     *)
(* step.  A search is several statements, and others may write in between. *)
(* Searches only read, so that one search at a time, among any number of   *)
(* writers, shows every order of steps.                                    *)
(*                                                                         *)
(* The query is fixed; a text is a hit for it or a miss.  Relevance,       *)
(* importance and similarity are data: where the code takes the best of    *)
(* many, any of them may be the best.  No code follows superseded_by, so   *)
(* it is set or not.  get() and list_memories() are one statement each and *)
(* change nothing; they, and writes that find nothing to change, are left  *)
(* out.                                                                    *)
(***************************************************************************)
EXTENDS Naturals, FiniteSets, FiniteSetsExt

CONSTANTS Id,
          TopK,    \* top_k of a search
          Oversample, \* each of its statements takes so many times top_k (3)
          MaxScan, \* max_scan of search_embeddings()
          MaxRow   \* bound: rows ever inserted

ASSUME MemoryAssumption ==
    {TopK, Oversample, MaxScan} \subseteq Nat \ {0} /\ MaxRow \in Nat

VARIABLES
    usable,  \* calls do not raise
    table,   \* the rows of memories
    index,   \* the rows of memories_fts
    lastRow, \* what AUTOINCREMENT keeps
    search   \* the search under way, or what the last one has just returned

storeVars == <<usable, table, index, lastRow>>
memoryVars == <<storeVars, search>>

Ids(rows) == {r.id : r \in rows}
\* The rows a search considers at all.
Visible(rows, s) == {r \in rows : s.superseded \/ ~r.superseded}
\* What a search s is to find among these rows.
Wanted(rows, s) == Ids({r \in Visible(rows, s) : r.text = "hit" \/ (s.embedding /\ r.vector)})

NoSearch ==
    [at |-> "none", embedding |-> FALSE, superseded |-> FALSE,
     rows |-> {}, scanned |-> {}, found |-> {}, result |-> {}, ranked |-> 0,
     crowded |-> FALSE, always |-> {}, ever |-> {}]
Searching == search.at \notin {"none", "done"}
-----------------------------------------------------------------------------
MemoryInit ==
    /\ usable = TRUE /\ table = {} /\ index = {} /\ lastRow = 0
    /\ search = NoSearch

\* A statement and its commit; and what it means for a search under way.
Commit(rows, indexed) ==
    /\ usable /\ table' = rows /\ index' = indexed
    /\ search' = IF ~Searching THEN NoSearch
                 ELSE [search EXCEPT !.always = @ \cap Wanted(rows, search),
                                     !.ever = @ \cup Wanted(rows, search)]
    /\ UNCHANGED usable

\* mem_ai, mem_ad, mem_au
Indexed(r) == [row |-> r.row, text |-> r.text]
AfterInsert(r) == index \cup {Indexed(r)}
AfterDelete(r) == {e \in index : e.row # r.row}
\* Mutant: the old entry is left behind.
AfterUpdateKeeps(old, new) == IF old.text = new.text THEN index ELSE AfterInsert(new)
AfterUpdate(old, new) ==
    IF old.text = new.text THEN index ELSE AfterDelete(old) \cup {Indexed(new)}

\* Mutant: without AUTOINCREMENT the number of a row that is gone is used again.
NextRowReused == Max({0} \cup {r.row : r \in table}) + 1
NextRow == lastRow + 1

\* An id that is taken is refused (UNIQUE).
Save ==
    /\ NextRow <= MaxRow
    /\ \E i \in Id \ Ids(table), text \in {"hit", "miss"}, vector \in BOOLEAN :
          LET r == [row |-> NextRow, id |-> i, text |-> text, vector |-> vector,
                    superseded |-> FALSE]
          IN  Commit(table \cup {r}, AfterInsert(r))
    /\ lastRow' = Max({lastRow, NextRow})

Update ==
    /\ \E r \in table, text \in {"hit", "miss"}, vector \in BOOLEAN :
          LET new == [r EXCEPT !.text = text, !.vector = @ \/ vector]
          IN  Commit((table \ {r}) \cup {new}, AfterUpdate(r, new))
    /\ UNCHANGED lastRow

Delete ==
    /\ \E r \in table : Commit(table \ {r}, AfterDelete(r))
    /\ UNCHANGED lastRow

\* Whether the new memory exists is not asked.
Supersede ==
    /\ \E r \in table : Commit((table \ {r}) \cup {[r EXCEPT !.superseded = TRUE]}, index)
    /\ UNCHANGED lastRow

\* The owner closes the store when no search is under way, and the next call
\* opens the database again.  One in memory is then a new one.  On a file
\* _SCHEMA fails, since its triggers are there already, in every later call.
Close ==
    /\ usable /\ ~Searching
    /\ \/ table' = {} /\ index' = {} /\ lastRow' = 0 /\ UNCHANGED usable
       \/ usable' = FALSE /\ UNCHANGED <<table, index, lastRow>>
    /\ search' = NoSearch
-----------------------------------------------------------------------------
\* search(), for the tool or with an embedding or for superseded ones too.
StartSearch ==
    /\ usable /\ ~Searching
    /\ \E embedding, superseded \in BOOLEAN :
          LET s == [NoSearch EXCEPT !.at = "match", !.embedding = embedding,
                                    !.superseded = superseded]
          IN  search' = [s EXCEPT !.always = Wanted(table, s), !.ever = Wanted(table, s)]
    /\ UNCHANGED storeVars

\* The best n of a set, as far as the model can tell; and whether some are left.
Best(n, S) == kSubset(Min({n, Cardinality(S)}), S)
Leaves(n, S) == Cardinality(S) > n
Go(s) == search' = s /\ UNCHANGED storeVars
AfterText(s) == IF s.embedding THEN "scan" ELSE "rank"

\* Mutant: no more rows are taken than asked for, though some will be superseded.
MatchTopK ==
    /\ search.at = "match"
    /\ LET hits == {e.row : e \in {x \in index : x.text = "hit"}} IN
       \E best \in Best(TopK, hits) :
          Go([search EXCEPT !.rows = best, !.crowded = Leaves(Oversample * TopK, hits),
                            !.at = IF best = {} THEN AfterText(search) ELSE "lookup"])

\* The full-text index, without a look at the table.  The query is FTS5 syntax:
\* one that does not parse raises.
Match ==
    /\ search.at = "match"
    /\ LET hits == {e.row : e \in {x \in index : x.text = "hit"}} IN
       \/ \E best \in Best(Oversample * TopK, hits) :
             Go([search EXCEPT !.rows = best, !.crowded = Leaves(Oversample * TopK, hits),
                               !.at = IF best = {} THEN AfterText(search) ELSE "lookup"])
       \/ Go(NoSearch)

\* The rows that were found, without the superseded ones.
Lookup ==
    /\ search.at = "lookup"
    /\ Go([search EXCEPT !.found = Ids({r \in Visible(table, search) : r.row \in search.rows}),
                         !.at = AfterText(search)])

\* search_embeddings(): some rows are read, the most similar of them kept.
Scan ==
    /\ search.at = "scan"
    /\ LET rows == {r \in Visible(table, search) : r.vector}
           most == Min({Oversample * TopK, MaxScan})
       IN  \E best \in Best(most, rows) :
             Go([search EXCEPT !.scanned = Ids(best), !.at = "refetch",
                               !.crowded = @ \/ Leaves(most, rows)])

Refetch ==
    /\ search.at = "refetch"
    /\ Go([search EXCEPT !.found = @ \cup (search.scanned \cap Ids(table)), !.at = "rank"])

\* The best ids, whatever rows they are by now.
Rank ==
    /\ search.at = "rank"
    /\ \E best \in Best(TopK, search.found) :
          Go([search EXCEPT !.result = Ids(table) \cap best, !.ranked = Cardinality(best),
                            !.rows = {}, !.scanned = {}, !.found = {}, !.at = "done"])

MemoryNext ==
    \/ Save \/ Update \/ Delete \/ Supersede \/ Close
    \/ StartSearch \/ Match \/ Lookup \/ Scan \/ Refetch \/ Rank

MemorySpec == MemoryInit /\ [][MemoryNext]_memoryVars
-----------------------------------------------------------------------------
TypeOK ==
    /\ usable \in BOOLEAN
    /\ table \subseteq [row : 1..MaxRow, id : Id, text : {"hit", "miss"},
                        vector : BOOLEAN, superseded : BOOLEAN]
    /\ Cardinality(Ids(table)) = Cardinality(table)
    /\ lastRow \in 0..MaxRow
    /\ search.at \in {"none", "match", "lookup", "scan", "refetch", "rank", "done"}

\* "Sync FTS5 with memories table via triggers (conditional: only fire when
\* FTS5 columns change)": after any calls the index has each memory's present
\* text, and nothing of memories or texts that are gone.
IndexAgrees == index = {Indexed(r) : r \in table}

\* Whatever is saved, updated, superseded or deleted between the statements of
\* a search, what it returns was a memory it was to find at some moment of the
\* call: not one that was superseded before, and not another memory that took
\* the place of one that was found.
FoundWasWanted == search.at = "done" => search.result \subseteq search.ever

\* A memory that was to be found all through the call is returned, unless the
\* call returns top_k others or one of its statements had more rows to choose
\* from than it takes.
WantedIsFound ==
    search.at = "done" =>
        \/ search.always \subseteq search.result
        \/ search.ranked = TopK
        \/ search.crowded
=============================================================================
