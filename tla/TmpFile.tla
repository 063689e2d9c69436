------------------------------ MODULE TmpFile ------------------------------
(***************************************************************************)
(* A file that several processes replace through one temporary file of a   *)
(* fixed name: open(tmp, "w"), write, os.replace(tmp, path), without any   *)
(* lock.  This is how FileTodoStore (agent_framework/todo_backends.py) and *)
(* SessionStore (agent_framework/session.py) save.                         *)
(*                                                                         *)
(* A file is an inode: it may be open for one process while another        *)
(* renames or empties it.                                                  *)
(***************************************************************************)
EXTENDS Naturals, FiniteSets

CONSTANT Agent      \* the users of the file, one call at a time each

ASSUME FileAssumption == IsFiniteSet(Agent)

VARIABLES
    live,   \* the inode at the path, 0 when there is none
    tmp,    \* the inode at the temporary path, or 0
    data,   \* what the inodes hold
    handle  \* the inode each agent has open for writing, or 0

fileVars == <<live, tmp, data, handle>>

Inode == 1..Cardinality(Agent) + 2
Empty == [kind |-> "empty", holds |-> <<>>]
Garbled == [kind |-> "garbled", holds |-> <<>>]
Whole(content) == [kind |-> "whole", holds |-> content]

FileInit ==
    /\ live = 0 /\ tmp = 0
    /\ data = [n \in Inode |-> Empty] /\ handle = [a \in Agent |-> 0]

\* Mutant: the file itself is opened, without a temporary one.
OpenInPlace(a) ==
    LET n == IF live # 0 THEN live ELSE 1 IN
        /\ live' = n /\ handle' = [handle EXCEPT ![a] = n]
        /\ tmp' = n
        /\ data' = [data EXCEPT ![n] = Empty]

\* open(tmp, "w"): the inode that is there is emptied, or a new one is made.
OpenTmp(a) ==
    LET unused == Inode \ ({live, tmp} \cup {handle[b] : b \in Agent})
        n == IF tmp # 0 THEN tmp ELSE CHOOSE m \in unused : TRUE
    IN  /\ tmp' = n /\ handle' = [handle EXCEPT ![a] = n]
        /\ data' = [data EXCEPT ![n] = Empty]
        /\ UNCHANGED live

\* The text is written from the beginning of the inode, and closed.  When another
\* agent has written there too the end of its text may stay behind; when it has
\* emptied the file in the middle, the beginning of this one may be missing.
WriteTmp(a, content) ==
    /\ LET shared == \/ data[handle[a]] # Empty
                     \/ \E b \in Agent \ {a} : handle[b] = handle[a]
       IN \E result \in {Whole(content)} \cup (IF shared THEN {Garbled} ELSE {}) :
             data' = [data EXCEPT ![handle[a]] = result]
    /\ handle' = [handle EXCEPT ![a] = 0]
    /\ UNCHANGED <<live, tmp>>

\* The disk is full, or a value has no JSON: a part is written, or nothing.
WritePart(a) ==
    /\ data' = [data EXCEPT ![handle[a]] = Garbled]
    /\ handle' = [handle EXCEPT ![a] = 0]
    /\ UNCHANGED <<live, tmp>>

\* os.replace of whatever is at the temporary path.
Move ==
    /\ tmp # 0 /\ live' = tmp /\ tmp' = 0
    /\ data' = [n \in Inode |-> IF n = tmp \/ \E b \in Agent : handle[b] = n
                                THEN data[n] ELSE Empty]
    /\ UNCHANGED handle

\* If another agent's call has moved it already, FileNotFoundError.
MoveFails == tmp = 0 /\ UNCHANGED fileVars

\* A process ends; its files stay as they are.
CloseAll(a) == handle' = [handle EXCEPT ![a] = 0] /\ UNCHANGED <<live, tmp, data>>

FileTypeOK ==
    /\ live \in Inode \cup {0} /\ tmp \in Inode \cup {0}
    /\ live # 0 => live # tmp
=============================================================================
