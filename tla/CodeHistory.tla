---------------------------- MODULE CodeHistory ----------------------------
(***************************************************************************)
(* agent_framework/sandbox/code_history.py: the numbered record of the     *)
(* code a sandbox server has run, in memory and in a file of one JSON line *)
(* per cell.  Calls are under the history's lock, so each is one step; a   *)
(* server that dies inside an append leaves part of a line.                *)
(***************************************************************************)
EXTENDS Naturals, Sequences, Functions, FiniteSetsExt, SequencesExt

VARIABLES cells,  \* _entries: cell id -> the request that was recorded
          nextId, \* _next_id
          file    \* the file: what each append has put there

historyVars == <<cells, nextId, file>>

\* One append: the JSON text is all there, and so is the newline behind it.
Piece(id, r, whole, nl) == [id |-> id, req |-> r, whole |-> whole, nl |-> nl]

\* A line is what lies between two newlines; it parses when it is one whole
\* entry and nothing else.
Loadable(k) ==
    /\ file[k].whole
    /\ k = 1 \/ file[k - 1].nl
    /\ file[k].nl \/ k = Len(file)

HistoryInit == cells = <<>> /\ nextId = 1 /\ file = <<>>

\* record()
Record(r) ==
    /\ cells' = [id \in DOMAIN cells \cup {nextId} |-> IF id = nextId THEN r ELSE cells[id]]
    /\ file' = Append(file, Piece(nextId, r, TRUE, TRUE))
    /\ nextId' = nextId + 1

\* The process dies in record(), before, in or after the write of the entry
\* but for its newline.
Torn(r) ==
    /\ \/ UNCHANGED file
       \/ \E whole \in BOOLEAN : file' = Append(file, Piece(nextId, r, whole, FALSE))
    /\ UNCHANGED <<cells, nextId>>

\* Mutant: a new process numbers its cells from 1 again.
LoadFresh ==
    LET good == {k \in DOMAIN file : Loadable(k)} IN
    /\ cells' = [id \in {file[k].id : k \in good} |->
                    file[Max({k \in good : file[k].id = id})].req]
    /\ nextId' = 1
    /\ UNCHANGED file

\* A new process: _load_from_disk() skips the lines that do not parse; of two
\* cells with one id the later is kept.
Load ==
    LET good == {k \in DOMAIN file : Loadable(k)} IN
    /\ cells' = [id \in {file[k].id : k \in good} |->
                    file[Max({k \in good : file[k].id = id})].req]
    /\ nextId' = Max({0} \cup {file[k].id : k \in good}) + 1
    /\ UNCHANGED file

\* The entries whose append went to the end of a line that was torn.
SpoiltByTorn == {file[k].req : k \in {k \in DOMAIN file : k > 1 /\ ~file[k - 1].nl}}
=============================================================================
