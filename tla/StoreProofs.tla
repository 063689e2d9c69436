---------------------------- MODULE StoreProofs ----------------------------
(***************************************************************************)
(* For any number of loops, entries, failed writes and processes that end: *)
(* what a session holds as long as no two calls on it overlap, and what    *)
(* stays true of it when they do.                                          *)
(*                                                                         *)
(* Without an overlap (Undisturbed) one loop at a time is saving: the      *)
(* temporary file is its own, the session's file stays as it is until the  *)
(* move, and what is moved is what was told and the entry that is being    *)
(* told.  With overlaps texts are mixed up with each other, but every text *)
(* there is came from somebody's plan: in each of them a loop's entries    *)
(* are in order and before those it has still to append (Fits).            *)
(***************************************************************************)
EXTENDS SessionStore, Memory, SequenceTheorems, FiniteSetTheorems, TLAPS

Typed ==
    /\ step \in [Agent -> {"idle", "load", "open", "write", "move", "summarise"}]
    /\ DOMAIN left = Agent /\ DOMAIN plan = Agent /\ DOMAIN data = Inode
    /\ handle \in [Agent -> Inode \cup {0}]
    /\ live \in Inode \cup {0} /\ tmp \in Inode \cup {0}
    /\ crossed \in BOOLEAN

\* As long as nothing has overlapped.
OneSaves == \A l, m \in Saving : l = m

OwnFile(l) ==
    /\ handle[l] = (IF step[l] = "write" THEN tmp ELSE 0)
    /\ step[l] = "write" => tmp # 0 /\ data[tmp] = Empty
    /\ step[l] = "move" => tmp # 0 /\ data[tmp] = Whole(plan[l])
    /\ l \in Saving => plan[l] = Added(told, Head(left[l]))

Undisturbed ==
    ~crossed => /\ live # 0 => live # tmp
                /\ OneSaves
                /\ \A l \in Agent : OwnFile(l)
                /\ HoldsWhatItTold
-----------------------------------------------------------------------------
\* There is an inode for a file that is opened when all the others are in use.
LEMMA InodesLeft ==
    ASSUME Typed, tmp = 0
    PROVE  Inode \ ({live, tmp} \cup {handle[b] : b \in Agent}) # {}
<1> DEFINE T == {handle[b] : b \in Agent}
           N == Cardinality(Agent)
<1>1. IsFiniteSet(T) /\ Cardinality(T) <= N
  <2>1. handle \in [Agent -> T] /\ \A t \in T : \E b \in Agent : handle[b] = t
    BY DEF Typed
  <2>2. handle \in Surjection(Agent, T)
    BY <2>1 DEF Surjection
  <2> QED
    BY <2>2, FileAssumption, FS_Surjection
<1>2. N \in Nat
  BY FileAssumption, FS_CardinalityType
<1>3. IsFiniteSet(Inode) /\ Cardinality(Inode) = N + 2
  BY <1>2, FS_Interval DEF Inode
<1> DEFINE U == T \cup {live}
<1>4. IsFiniteSet(U) /\ Cardinality(U) <= N + 1
  BY <1>1, <1>2, FS_AddElement, FS_CardinalityType
<1>5. ASSUME Inode \subseteq U PROVE FALSE
  <2>1. Cardinality(Inode) <= Cardinality(U)
    BY <1>4, <1>5, FS_Subset
  <2>2. Cardinality(U) \in Nat
    BY <1>4, FS_CardinalityType
  <2> QED
    BY <1>2, <1>3, <1>4, <2>1, <2>2
<1>6. 0 \notin Inode
  BY <1>2 DEF Inode
<1> QED
  BY <1>5, <1>6

LEMMA Opened ==
    ASSUME Typed, NEW l \in Agent, OpenTmp(l)
    PROVE  \E n \in Inode :
              /\ tmp' = n /\ handle' = [handle EXCEPT ![l] = n]
              /\ data' = [data EXCEPT ![n] = Empty] /\ live' = live
              /\ n = tmp \/ (tmp = 0 /\ n # live)
<1> DEFINE unused == Inode \ ({live, tmp} \cup {handle[b] : b \in Agent})
           n == IF tmp # 0 THEN tmp ELSE CHOOSE m \in unused : TRUE
<1>1. n \in Inode /\ (n = tmp \/ (tmp = 0 /\ n # live))
  <2>1. CASE tmp # 0
    BY <2>1 DEF Typed
  <2>2. CASE tmp = 0
    BY <2>2, InodesLeft
  <2> QED
    BY <2>1, <2>2
<1>2. /\ tmp' = n /\ handle' = [handle EXCEPT ![l] = n]
      /\ data' = [data EXCEPT ![n] = Empty] /\ live' = live
  BY DEF OpenTmp
<1> HIDE DEF n
<1> QED
  BY <1>1, <1>2

LEMMA InodesAreNotNull == 0 \notin Inode
  BY FileAssumption, FS_CardinalityType DEF Inode

Where == {"idle", "load", "open", "write", "move", "summarise"}

\* The types of what Goes and Begin change.
LEMMA GoesTyped ==
    ASSUME Typed, NEW l \in Agent, NEW to \in Where, NEW entries, Goes(l, to, entries)
    PROVE  /\ step' \in [Agent -> Where] /\ DOMAIN left' = Agent
           /\ step'[l] = to /\ left'[l] = entries
           /\ \A m \in Agent \ {l} : step'[m] = step[m] /\ left'[m] = left[m]
  BY DEF Typed, Goes, Where

LEMMA RaisesTyped ==
    ASSUME Typed, NEW l \in Agent, Raises(l)
    PROVE  /\ step' \in [Agent -> Where] /\ DOMAIN left' = Agent /\ DOMAIN plan' = Agent
           /\ step'[l] \in {"summarise", "idle"} /\ left'[l] = <<>>
           /\ \A m \in Agent \ {l} : step'[m] = step[m] /\ left'[m] = left[m] /\ plan'[m] = plan[m]
  BY GoesTyped DEF Raises, Typed, Where

LEMMA ReturnsTyped ==
    ASSUME Typed, NEW l \in Agent, Returns(l)
    PROVE  /\ step' \in [Agent -> Where] /\ DOMAIN left' = Agent /\ DOMAIN plan' = Agent
           /\ step'[l] \in {"load", "summarise", "idle"} /\ left'[l] = Tail(left[l])
           /\ \A m \in Agent \ {l} : step'[m] = step[m] /\ left'[m] = left[m] /\ plan'[m] = plan[m]
  BY GoesTyped DEF Returns, Typed, Where

LEMMA BeginTyped ==
    ASSUME Typed, NEW l \in Agent, NEW content, Begin(l, content)
    PROVE  /\ DOMAIN plan' = Agent /\ plan'[l] = content /\ crossed' \in BOOLEAN
           /\ \A m \in Agent \ {l} : plan'[m] = plan[m]
           /\ ~crossed' => ~crossed /\ Saving \subseteq {l}
  BY DEF Typed, Begin
-----------------------------------------------------------------------------
LEMMA TypedStep == ASSUME Typed, [Next]_vars PROVE Typed'
<1>1. CASE UNCHANGED vars
  BY <1>1 DEF vars, fileVars, callVars, Typed
<1>2. ASSUME NEW l \in Agent, Create(l) PROVE Typed'
  BY <1>2, BeginTyped DEF Create, fileVars, Typed
<1>3. ASSUME NEW l \in Agent, Compact(l) PROVE Typed'
  BY <1>3, GoesTyped DEF Compact, fileVars, Typed, Where
<1>4. ASSUME NEW l \in Agent, Load(l) PROVE Typed'
  <2>1. CASE Readable
    BY <1>4, <2>1, BeginTyped DEF Load, fileVars, Typed
  <2>2. CASE ~Readable
    BY <1>4, <2>2, RaisesTyped DEF Load, fileVars, Typed, Where
  <2> QED
    BY <2>1, <2>2
<1>5. ASSUME NEW l \in Agent, OpenSession(l) PROVE Typed'
  BY <1>5, Opened DEF OpenSession, Typed
<1>6. ASSUME NEW l \in Agent, WriteSession(l) PROVE Typed'
  <2>1. DOMAIN data' = Inode /\ handle' \in [Agent -> Inode \cup {0}] /\ UNCHANGED <<live, tmp, crossed>>
    BY <1>6 DEF WriteSession, WriteTmp, WritePart, Typed
  <2>2. step' \in [Agent -> Where] /\ DOMAIN left' = Agent /\ DOMAIN plan' = Agent
    BY <1>6, RaisesTyped DEF WriteSession, Typed, Where
  <2> QED
    BY <2>1, <2>2 DEF Typed, Where
<1>7. ASSUME NEW l \in Agent, MoveSession(l) PROVE Typed'
  <2>1. DOMAIN data' = Inode /\ handle' = handle /\ crossed' = crossed
        /\ {live', tmp'} \subseteq {live, tmp, 0}
    BY <1>7 DEF MoveSession, Move, MoveFails, fileVars, Typed
  <2>2. step' \in [Agent -> Where] /\ DOMAIN left' = Agent /\ DOMAIN plan' = Agent
    BY <1>7, RaisesTyped, ReturnsTyped DEF MoveSession
  <2> QED
    BY <2>1, <2>2 DEF Typed, Where
<1>8. ASSUME NEW l \in Agent, Summarise(l) PROVE Typed'
  BY <1>8, GoesTyped DEF Summarise, fileVars, Typed, Where
<1>9. ASSUME NEW l \in Agent, Dies(l) PROVE Typed'
  BY <1>9, GoesTyped DEF Dies, CloseAll, Typed, Where
<1> QED
  BY <1>1, <1>2, <1>3, <1>4, <1>5, <1>6, <1>7, <1>8, <1>9 DEF Next
-----------------------------------------------------------------------------
\* While l is saving nobody else is, and nobody else has a file open.
LEMMA OnlyOne ==
    ASSUME Typed, Undisturbed, ~crossed, NEW l \in Agent, l \in Saving \/ Saving \subseteq {l}
    PROVE  \A m \in Agent \ {l} : m \notin Saving /\ handle[m] = 0
<1>1. ASSUME NEW m \in Agent \ {l} PROVE m \notin Saving
  BY DEF Undisturbed, OneSaves
<1> QED
  BY <1>1 DEF Undisturbed, OwnFile, Saving

\* A step of l that leaves the files, and what was told, as they are.
LEMMA StepApart ==
    ASSUME Typed, Typed', Undisturbed, NEW l \in Agent, UNCHANGED <<live, tmp, data, told>>,
           \A m \in Agent \ {l} : step'[m] = step[m] /\ left'[m] = left[m] /\ plan'[m] = plan[m]
                                  /\ handle'[m] = handle[m],
           ~crossed' => ~crossed /\ (l \in Saving \/ Saving \subseteq {l}) /\ OwnFile(l)'
    PROVE  Undisturbed'
<1> SUFFICES ASSUME ~crossed' PROVE Undisturbed'
  BY DEF Undisturbed
<1>1. \A m \in Agent \ {l} : m \notin Saving /\ handle[m] = 0
  BY OnlyOne
<1>2. Saving' \subseteq {l}
  BY <1>1 DEF Saving
<1>3. \A m \in Agent \ {l} : OwnFile(m)'
  BY <1>1, <1>2 DEF OwnFile, Saving
<1> QED
  BY <1>2, <1>3 DEF Undisturbed, OneSaves, HoldsWhatItTold, Exists

LEMMA UndisturbedStep == ASSUME Typed, Undisturbed, Typed', [Next]_vars PROVE Undisturbed'
<1>1. CASE UNCHANGED vars
  BY <1>1 DEF vars, fileVars, callVars, Undisturbed, OneSaves, OwnFile, Saving, HoldsWhatItTold, Exists
<1>2. ASSUME NEW l \in Agent, Create(l) PROVE Undisturbed'
  <2>1. /\ step[l] = "idle" /\ step'[l] = "open" /\ left'[l] = <<Entry("create", l, 0)>>
        /\ UNCHANGED <<live, tmp, data, handle, told>>
        /\ \A m \in Agent \ {l} : step'[m] = step[m] /\ left'[m] = left[m]
    BY <1>2 DEF Create, fileVars, Typed
  <2>2. /\ plan'[l] = Nothing /\ (~crossed' => ~crossed /\ Saving \subseteq {l})
        /\ \A m \in Agent \ {l} : plan'[m] = plan[m]
    BY <1>2, BeginTyped DEF Create
  <2>3. Added(told', Head(left'[l])) = Nothing
    BY <2>1 DEF Added, Entry
  <2>4. ~crossed' => OwnFile(l)'
    BY <2>1, <2>2, <2>3 DEF OwnFile, Undisturbed
  <2> QED
    BY <2>1, <2>2, <2>4, StepApart
<1>3. ASSUME NEW l \in Agent, Compact(l) \/ Summarise(l) PROVE Undisturbed'
  <2>1. /\ step[l] \in {"idle", "summarise"} /\ step'[l] \in {"load", "idle"}
        /\ UNCHANGED <<live, tmp, data, handle, told, plan, crossed>>
        /\ \A m \in Agent \ {l} : step'[m] = step[m] /\ left'[m] = left[m]
    BY <1>3, GoesTyped DEF Compact, Summarise, fileVars, Where
  <2>2. \A m \in Agent : m \in Saving' <=> m \in Saving
    BY <2>1 DEF Saving
  <2>3. ~crossed => \A m \in Agent : OwnFile(m)'
    <3> SUFFICES ASSUME ~crossed, NEW m \in Agent PROVE OwnFile(m)'
      OBVIOUS
    <3>1. OwnFile(m)
      BY DEF Undisturbed
    <3>2. CASE m = l
      BY <2>1, <3>1, <3>2 DEF OwnFile, Saving
    <3>3. CASE m # l
      BY <2>1, <3>1, <3>3 DEF OwnFile, Saving
    <3> QED
      BY <3>2, <3>3
  <2> QED
    BY <2>1, <2>2, <2>3 DEF Undisturbed, OneSaves, HoldsWhatItTold, Exists, Saving
<1>4. ASSUME NEW l \in Agent, Load(l) PROVE Undisturbed'
  <2>1. step[l] = "load" /\ UNCHANGED <<live, tmp, data, handle, told>>
    BY <1>4 DEF Load, fileVars
  <2>2. CASE Readable
    <3>1. /\ step'[l] = "open" /\ left' = left
          /\ plan'[l] = Added(data[live].holds, Head(left[l]))
          /\ ~crossed' => ~crossed /\ Saving \subseteq {l}
          /\ \A m \in Agent \ {l} : plan'[m] = plan[m] /\ step'[m] = step[m]
      BY <1>4, <2>2, BeginTyped DEF Load, Typed
    <3>2. ~crossed => data[live].holds = told
      BY <2>2 DEF Undisturbed, HoldsWhatItTold, Readable, Whole
    <3>3. ~crossed' => OwnFile(l)'
      BY <2>1, <3>1, <3>2 DEF OwnFile, Undisturbed
    <3> QED
      BY <2>1, <3>1, <3>3, StepApart
  <2>3. CASE ~Readable
    <3>1. /\ step'[l] \in {"summarise", "idle"} /\ crossed' = crossed
          /\ \A m \in Agent \ {l} : step'[m] = step[m] /\ left'[m] = left[m] /\ plan'[m] = plan[m]
      BY <1>4, <2>3, RaisesTyped DEF Load
    <3>2. l \notin Saving /\ Saving' = Saving
      BY <2>1, <3>1 DEF Saving
    <3>3. ~crossed => \A m \in Agent : OwnFile(m)'
      <4> SUFFICES ASSUME ~crossed, NEW m \in Agent PROVE OwnFile(m)'
        OBVIOUS
      <4>1. OwnFile(m)
        BY DEF Undisturbed
      <4>2. CASE m = l
        BY <2>1, <3>1, <3>2, <4>1, <4>2 DEF OwnFile
      <4>3. CASE m # l
        BY <2>1, <3>1, <3>2, <4>1, <4>3 DEF OwnFile
      <4> QED
        BY <4>2, <4>3
    <3> QED
      BY <2>1, <3>1, <3>2, <3>3 DEF Undisturbed, OneSaves, HoldsWhatItTold, Exists
  <2> QED
    BY <2>2, <2>3
<1>5. ASSUME NEW l \in Agent, OpenSession(l) PROVE Undisturbed'
  <2> SUFFICES ASSUME ~crossed' PROVE Undisturbed'
    BY DEF Undisturbed
  <2>1. /\ step[l] = "open" /\ step'[l] = "write" /\ l \in Saving /\ ~crossed
        /\ UNCHANGED <<left, plan, told>>
        /\ \A m \in Agent \ {l} : step'[m] = step[m]
    BY <1>5 DEF OpenSession, Typed, Saving
  <2>2. \A m \in Agent \ {l} : m \notin Saving /\ handle[m] = 0
    BY <2>1, OnlyOne
  <2>3. PICK n \in Inode : /\ tmp' = n /\ handle' = [handle EXCEPT ![l] = n]
                           /\ data' = [data EXCEPT ![n] = Empty] /\ live' = live
                           /\ n = tmp \/ (tmp = 0 /\ n # live)
    BY <1>5, Opened DEF OpenSession
  <2>4. live' # 0 => live' # tmp' /\ data'[live'] = data[live]
    BY <2>1, <2>3 DEF Undisturbed, Typed
  <2>5. Saving' \subseteq {l}
    BY <2>1, <2>2 DEF Saving
  <2>6. OwnFile(l)'
    BY <2>1, <2>3, InodesAreNotNull DEF OwnFile, Undisturbed, Typed
  <2>7. \A m \in Agent \ {l} : OwnFile(m)'
    BY <2>1, <2>2, <2>3, <2>5 DEF OwnFile, Saving, Typed
  <2>8. HoldsWhatItTold'
    BY <2>1, <2>3, <2>4 DEF Undisturbed, HoldsWhatItTold, Exists
  <2> QED
    BY <2>4, <2>5, <2>6, <2>7, <2>8 DEF Undisturbed, OneSaves
<1>6. ASSUME NEW l \in Agent, WriteSession(l) PROVE Undisturbed'
  <2> SUFFICES ASSUME ~crossed' PROVE Undisturbed'
    BY DEF Undisturbed
  <2>1. /\ step[l] = "write" /\ l \in Saving /\ ~crossed
        /\ UNCHANGED <<live, tmp, told>>
    BY <1>6 DEF WriteSession, WriteTmp, WritePart, Saving
  <2>2. \A m \in Agent \ {l} : m \notin Saving /\ handle[m] = 0
    BY <2>1, OnlyOne
  <2>3. handle[l] = tmp /\ tmp # 0 /\ data[tmp] = Empty /\ plan[l] = Added(told, Head(left[l]))
    BY <2>1 DEF Undisturbed, OwnFile
  <2>4. /\ handle'[l] = 0 /\ \A m \in Agent \ {l} : handle'[m] = handle[m]
        /\ live # 0 => data'[live] = data[live]
    BY <1>6, <2>1, <2>3 DEF WriteSession, WriteTmp, WritePart, Undisturbed, Typed
  <2>5. CASE WriteTmp(l, plan[l]) /\ step' = [step EXCEPT ![l] = "move"] /\ UNCHANGED <<left, plan>>
    <3>1. data'[tmp] = Whole(plan[l])
      <4>1. \A b \in Agent \ {l} : handle[b] # handle[l]
        BY <2>2, <2>3
      <4>2. tmp \in Inode
        BY <2>3 DEF Typed
      <4> QED
        BY <2>3, <2>5, <4>1, <4>2 DEF WriteTmp, Typed
    <3>2. step'[l] = "move" /\ \A m \in Agent \ {l} : step'[m] = step[m]
      BY <2>5 DEF Typed
    <3>3. Saving' \subseteq {l}
      BY <2>2, <3>2 DEF Saving
    <3>4. OwnFile(l)'
      BY <2>1, <2>3, <2>4, <2>5, <3>1, <3>2 DEF OwnFile
    <3>5. \A m \in Agent \ {l} : OwnFile(m)'
      BY <2>2, <2>4, <3>2, <3>3 DEF OwnFile, Saving
    <3> QED
      BY <2>1, <2>4, <3>3, <3>4, <3>5 DEF Undisturbed, OneSaves, HoldsWhatItTold, Exists
  <2>6. CASE WritePart(l) /\ Raises(l)
    <3>1. /\ step'[l] \in {"summarise", "idle"}
          /\ \A m \in Agent \ {l} : step'[m] = step[m]
      BY <2>6, RaisesTyped
    <3>2. Saving' = {}
      BY <2>2, <3>1 DEF Saving
    <3>3. \A m \in Agent : OwnFile(m)'
      <4> SUFFICES ASSUME NEW m \in Agent PROVE OwnFile(m)'
        OBVIOUS
      <4>1. step'[m] \notin {"write", "move"} /\ m \notin Saving' /\ handle'[m] = 0
        BY <2>2, <2>4, <3>1, <3>2 DEF Saving
      <4> QED
        BY <4>1 DEF OwnFile
    <3> QED
      BY <2>1, <2>4, <3>2, <3>3 DEF Undisturbed, OneSaves, HoldsWhatItTold, Exists
  <2> QED
    BY <1>6, <2>5, <2>6 DEF WriteSession
<1>7. ASSUME NEW l \in Agent, MoveSession(l) PROVE Undisturbed'
  <2> SUFFICES ASSUME ~crossed' PROVE Undisturbed'
    BY DEF Undisturbed
  <2>1. step[l] = "move" /\ l \in Saving /\ ~crossed
    BY <1>7 DEF MoveSession, Saving
  <2>2. \A m \in Agent \ {l} : m \notin Saving /\ handle[m] = 0
    BY <2>1, OnlyOne
  <2>3. /\ tmp # 0 /\ data[tmp] = Whole(plan[l]) /\ plan[l] = Added(told, Head(left[l]))
        /\ handle[l] = 0
    BY <2>1 DEF Undisturbed, OwnFile
  <2>4. Move /\ Returns(l)
    BY <1>7, <2>3 DEF MoveSession, MoveFails
  <2>5. /\ live' = tmp /\ tmp' = 0 /\ handle' = handle /\ data'[tmp] = data[tmp]
    BY <2>3, <2>4 DEF Move, Typed
  <2>6. told' = plan[l]
    BY <2>1, <2>3, <2>4 DEF Returns
  <2>7. /\ step'[l] \in {"load", "summarise", "idle"}
        /\ \A m \in Agent \ {l} : step'[m] = step[m]
    BY <2>4, ReturnsTyped
  <2>8. Saving' = {}
    BY <2>2, <2>7 DEF Saving
  <2>9. \A m \in Agent : OwnFile(m)'
    <3> SUFFICES ASSUME NEW m \in Agent PROVE OwnFile(m)'
      OBVIOUS
    <3>1. step'[m] \notin {"write", "move"} /\ m \notin Saving' /\ handle'[m] = 0
      BY <2>2, <2>3, <2>5, <2>7, <2>8 DEF Saving
    <3> QED
      BY <3>1 DEF OwnFile
  <2>10. HoldsWhatItTold'
    BY <2>3, <2>5, <2>6 DEF HoldsWhatItTold, Exists
  <2> QED
    BY <2>5, <2>8, <2>9, <2>10 DEF Undisturbed, OneSaves
<1>8. ASSUME NEW l \in Agent, Dies(l) PROVE Undisturbed'
  <2> SUFFICES ASSUME ~crossed' PROVE Undisturbed'
    BY DEF Undisturbed
  <2>1. /\ step'[l] = "idle" /\ handle'[l] = 0 /\ UNCHANGED <<live, tmp, data, told, crossed>>
        /\ \A m \in Agent \ {l} : /\ step'[m] = step[m] /\ left'[m] = left[m]
                                  /\ plan'[m] = plan[m] /\ handle'[m] = handle[m]
    BY <1>8, GoesTyped DEF Dies, CloseAll, Typed, Where
  <2>2. Saving' \subseteq Saving
    BY <2>1 DEF Saving
  <2>3. \A m \in Agent : OwnFile(m)'
    <3> SUFFICES ASSUME NEW m \in Agent PROVE OwnFile(m)'
      OBVIOUS
    <3>1. CASE m = l
      BY <2>1, <3>1 DEF OwnFile, Saving
    <3>2. CASE m # l
      BY <2>1, <3>2 DEF OwnFile, Saving, Undisturbed
    <3> QED
      BY <3>1, <3>2
  <2> QED
    BY <2>1, <2>2, <2>3 DEF Undisturbed, OneSaves, HoldsWhatItTold, Exists
<1> QED
  BY <1>1, <1>2, <1>3, <1>4, <1>5, <1>6, <1>7, <1>8 DEF Next

LEMMA UndisturbedInvariant == Spec => [](Typed /\ Undisturbed)
<1>1. Init => Typed /\ Undisturbed
  BY DEF Init, FileInit, Typed, Undisturbed, OneSaves, OwnFile, Saving, HoldsWhatItTold, Exists
<1>2. Typed /\ Undisturbed /\ [Next]_vars => (Typed /\ Undisturbed)'
  BY TypedStep, UndisturbedStep
<1> QED
  BY <1>1, <1>2, PTL DEF Spec

\* Until two calls overlap the session's file is exactly what was told, whatever
\* fails or ends in the middle of a call.
THEOREM NothingLostAlone == Spec => []HoldsWhatItTold
<1>1. Typed /\ Undisturbed => HoldsWhatItTold
  BY DEF Undisturbed, HoldsWhatItTold
<1> QED
  BY <1>1, UndisturbedInvariant, PTL
-----------------------------------------------------------------------------
\* With overlaps: what a text is made of.
AnEntry == [what : {"message", "point", "create"}, by : Agent, number : Nat]

InOrder(s) ==
    /\ s \in Seq(AnEntry)
    /\ \A j, k \in 1..Len(s) : j < k /\ s[j].by = s[k].by => s[j].number < s[k].number

\* The numbers of the entries that a loop has still to add to a text.
Due == [l \in Agent |->
          {left[l][j].number : j \in {i \in 1..Len(left[l]) : i > 1 \/ step[l] = "load"}}]

Before(e, bound, due) == e.number <= bound[e.by] /\ \A n \in due[e.by] : e.number < n
Good(s, bound, due) == InOrder(s) /\ \A k \in 1..Len(s) : Before(s[k], bound, due)
Fits(c, bound, due) ==
    /\ c = [messages |-> c.messages, points |-> c.points]
    /\ Good(c.messages, bound, due) /\ Good(c.points, bound, due)

Queued(l) ==
    /\ left[l] \in Seq(AnEntry)
    /\ \A j \in 1..Len(left[l]) : left[l][j].by = l /\ left[l][j].number <= made[l]
    /\ \A i, j \in 1..Len(left[l]) : i < j => left[l][i].number < left[l][j].number
    /\ step[l] \in {"load", "open", "write", "move"} => left[l] # <<>>

Mixed ==
    /\ made \in [Agent -> Nat]
    /\ \A l \in Agent : Queued(l) /\ Fits(plan[l], made, Due)
    /\ \A n \in Inode : data[n].kind = "whole" => Fits(data[n].holds, made, Due)

Bounds == [Agent -> Nat]
Dues == [Agent -> SUBSET Nat]

\* More may be made, and what comes to be due is new.
Later(bound, due, bound2, due2) ==
    \A m \in Agent : bound[m] <= bound2[m] /\ \A n \in due2[m] : n \in due[m] \/ bound[m] < n

LEMMA GoodLater ==
    ASSUME NEW bound \in Bounds, NEW bound2 \in Bounds, NEW due \in Dues, NEW due2 \in Dues,
           Later(bound, due, bound2, due2), NEW s, Good(s, bound, due)
    PROVE  Good(s, bound2, due2)
<1>1. InOrder(s)
  BY DEF Good
<1>2. ASSUME NEW k \in 1..Len(s) PROVE Before(s[k], bound2, due2)
  <2> DEFINE e == s[k]
  <2>1. e \in AnEntry
    BY <1>1, ElementOfSeq DEF InOrder
  <2>2. e.number \in Nat /\ e.by \in Agent
    BY <2>1 DEF AnEntry
  <2>3. Before(e, bound, due)
    BY DEF Good
  <2> HIDE DEF e
  <2> DEFINE m == e.by
             x == e.number
             b == bound[m]
             b2 == bound2[m]
  <2>4. /\ b \in Nat /\ b2 \in Nat /\ b <= b2 /\ due2[m] \subseteq Nat
        /\ \A n \in due2[m] : n \in due[m] \/ b < n
    BY <2>2 DEF Bounds, Dues, Later
  <2>5. x \in Nat /\ x <= b /\ \A n \in due[m] : x < n
    BY <2>2, <2>3 DEF Before
  <2> HIDE DEF x, b, b2
  <2>6. x <= b2 /\ \A n \in due2[m] : x < n
    BY <2>4, <2>5
  <2> QED
    BY <2>6 DEF Before, x, b2, e
<1> QED
  BY <1>1, <1>2 DEF Good

LEMMA FitsLater ==
    ASSUME NEW bound \in Bounds, NEW bound2 \in Bounds, NEW due \in Dues, NEW due2 \in Dues,
           Later(bound, due, bound2, due2), NEW c, Fits(c, bound, due)
    PROVE  Fits(c, bound2, due2)
  BY GoodLater DEF Fits

LEMMA GoodAppend ==
    ASSUME NEW bound, NEW due, NEW s, Good(s, bound, due), NEW e \in AnEntry, Before(e, bound, due),
           \A k \in 1..Len(s) : s[k].by = e.by => s[k].number < e.number
    PROVE  Good(Append(s, e), bound, due)
<1> DEFINE n == Len(s)
           t == Append(s, e)
<1>1. s \in Seq(AnEntry) /\ n \in Nat
  BY LenProperties DEF Good, InOrder
<1>2. /\ t \in Seq(AnEntry) /\ Len(t) = n + 1 /\ t[n + 1] = e
      /\ \A k \in 1..n : t[k] = s[k]
  BY <1>1, AppendProperties
<1> HIDE DEF n, t
<1>3. \A k \in 1..(n + 1) : k \in 1..n \/ k = n + 1
  BY <1>1
<1>4. \A k \in 1..(n + 1) : Before(t[k], bound, due)
  BY <1>2, <1>3 DEF Good, n
<1>5. ASSUME NEW j \in 1..(n + 1), NEW k \in 1..(n + 1), j < k, t[j].by = t[k].by
      PROVE  t[j].number < t[k].number
  <2>1. j \in 1..n
    BY <1>1, <1>5
  <2>2. CASE k \in 1..n
    BY <1>2, <1>5, <2>1, <2>2 DEF Good, InOrder, n
  <2>3. CASE k = n + 1
    BY <1>2, <1>5, <2>1, <2>3 DEF n
  <2> QED
    BY <1>3, <2>2, <2>3
<1> QED
  BY <1>2, <1>4, <1>5 DEF Good, InOrder, t

LEMMA FitsNothing == ASSUME NEW bound, NEW due PROVE Fits(Nothing, bound, due)
<1>1. Good(<<>>, bound, due)
  BY DEF Good, InOrder
<1> QED
  BY <1>1 DEF Fits, Nothing

LEMMA FitsBoth ==
    ASSUME NEW bound, NEW due, NEW x, NEW y, Good(x, bound, due), Good(y, bound, due)
    PROVE  Fits([messages |-> x, points |-> y], bound, due)
  BY DEF Fits

LEMMA FitsAdded ==
    ASSUME NEW bound, NEW due, NEW c, Fits(c, bound, due), NEW e \in AnEntry, Before(e, bound, due),
           \A s \in {c.messages, c.points} : \A k \in 1..Len(s) : s[k].by = e.by => s[k].number < e.number
    PROVE  Fits(Added(c, e), bound, due)
<1> DEFINE m == c.messages
           p == c.points
<1>1. c = [messages |-> m, points |-> p] /\ Good(m, bound, due) /\ Good(p, bound, due)
  BY DEF Fits
<1>2. Good(Append(m, e), bound, due) /\ Good(Append(p, e), bound, due)
  BY <1>1, GoodAppend
<1> HIDE DEF m, p
<1>3. CASE e.what = "message"
  <2>1. Added(c, e) = [messages |-> Append(m, e), points |-> p]
    BY <1>1, <1>3 DEF Added
  <2> QED
    BY <1>1, <1>2, <2>1, FitsBoth
<1>4. CASE e.what = "point"
  <2>1. Added(c, e) = [messages |-> m, points |-> Append(p, e)]
    BY <1>1, <1>4 DEF Added
  <2> QED
    BY <1>1, <1>2, <2>1, FitsBoth
<1>5. CASE e.what = "create"
  BY <1>5, FitsNothing DEF Added
<1> QED
  BY <1>3, <1>4, <1>5 DEF AnEntry
-----------------------------------------------------------------------------
LEMMA DueTyped ==
    ASSUME made \in Bounds, \A m \in Agent : Queued(m)
    PROVE  Due \in Dues
<1>1. ASSUME NEW m \in Agent, NEW j \in 1..Len(left[m]) PROVE left[m][j].number \in Nat
  <2>1. left[m][j] \in AnEntry
    BY ElementOfSeq DEF Queued
  <2> QED
    BY <2>1 DEF AnEntry
<1> QED
  BY <1>1 DEF Due, Dues

\* A step of l leaves the others' entries alone.
LEMMA LaterOne ==
    ASSUME Typed, Typed', Mixed, NEW l \in Agent, made' \in Bounds, made'[l] >= made[l],
           \A m \in Agent \ {l} : step'[m] = step[m] /\ left'[m] = left[m] /\ made'[m] = made[m],
           \A j \in 1..Len(left'[l]) : j > 1 \/ step'[l] = "load" =>
               left'[l][j].number \in Due[l] \/ made[l] < left'[l][j].number
    PROVE  Later(made, Due, made', Due')
<1>1. ASSUME NEW m \in Agent, m # l PROVE made[m] <= made'[m] /\ Due'[m] = Due[m]
  <2>1. made[m] \in Nat /\ made'[m] = made[m] /\ left'[m] = left[m] /\ step'[m] = step[m]
    BY <1>1 DEF Mixed, Bounds
  <2> QED
    BY <2>1 DEF Due
<1>2. \A n \in Due'[l] : n \in Due[l] \/ made[l] < n
  BY DEF Due
<1>3. made[l] <= made'[l]
  BY DEF Mixed, Bounds
<1> QED
  BY <1>1, <1>2, <1>3 DEF Later

LEMMA MixedLater ==
    ASSUME Mixed, made' \in Bounds, \A m \in Agent : Queued(m)', Later(made, Due, made', Due'),
           \A n \in Inode : \/ data'[n] = data[n] \/ data'[n].kind # "whole"
                            \/ \E m \in Agent : data'[n] = Whole(plan[m]),
           \A m \in Agent : plan'[m] = plan[m] \/ plan'[m] = Nothing \/ Fits(plan'[m], made', Due')
    PROVE  Mixed'
<1>1. made \in Bounds /\ Due \in Dues
  BY DueTyped DEF Mixed, Bounds
<1>2. Due' \in Dues
  <2>1. ASSUME NEW m \in Agent, NEW j \in 1..Len(left'[m]) PROVE left'[m][j].number \in Nat
    <3>1. left'[m][j] \in AnEntry
      BY ElementOfSeq DEF Queued
    <3> QED
      BY <3>1 DEF AnEntry
  <2> QED
    BY <2>1 DEF Due, Dues
<1>3. ASSUME NEW c, Fits(c, made, Due) PROVE Fits(c, made', Due')
  BY <1>1, <1>2, <1>3, FitsLater
<1>4. \A m \in Agent : Fits(plan'[m], made', Due')
  BY <1>3, FitsNothing DEF Mixed
<1>5. ASSUME NEW n \in Inode, data'[n].kind = "whole" PROVE Fits(data'[n].holds, made', Due')
  <2>1. CASE data'[n] = data[n]
    BY <1>3, <1>5, <2>1 DEF Mixed
  <2>2. ASSUME NEW m \in Agent, data'[n] = Whole(plan[m]) PROVE Fits(data'[n].holds, made', Due')
    <3>1. data'[n].holds = plan[m]
      BY <2>2 DEF Whole
    <3> QED
      BY <1>3, <3>1 DEF Mixed
  <2> QED
    BY <1>5, <2>1, <2>2
<1> QED
  BY <1>4, <1>5 DEF Mixed, Bounds

\* A step of l that makes nothing: what it has left is as before, or less.
LEMMA MixedStepOf ==
    ASSUME Typed, Typed', Mixed, NEW l \in Agent, made' = made,
           \A m \in Agent \ {l} : step'[m] = step[m] /\ left'[m] = left[m],
           \/ left'[l] = <<>> /\ step'[l] \in {"summarise", "idle"}
           \/ left'[l] = <<Entry("create", l, 0)>> /\ step'[l] = "open"
           \/ left'[l] = left[l] /\ step[l] \in {"load", "open", "write", "move"} /\ step'[l] # "load"
           \/ left'[l] = Tail(left[l]) /\ step[l] = "move" /\ (step'[l] = "load" <=> Len(left[l]) > 1)
              /\ step'[l] \in {"load", "summarise", "idle"},
           \A n \in Inode : \/ data'[n] = data[n] \/ data'[n].kind # "whole"
                            \/ \E m \in Agent : data'[n] = Whole(plan[m]),
           \A m \in Agent : plan'[m] = plan[m] \/ plan'[m] = Nothing \/ Fits(plan'[m], made', Due')
    PROVE  Mixed'
<1>1. made' \in Bounds /\ made'[l] \in Nat /\ made'[l] >= made[l]
  BY DEF Mixed, Bounds
<1>2. \A m \in Agent \ {l} : Queued(m)'
  BY DEF Mixed, Queued
<1>3. Queued(l)
  BY DEF Mixed
<1>4. /\ Queued(l)'
      /\ \A j \in 1..Len(left'[l]) : j > 1 \/ step'[l] = "load" => left'[l][j].number \in Due[l]
  <2>1. CASE left'[l] = <<>> /\ step'[l] \in {"summarise", "idle"}
    BY <2>1 DEF Queued
  <2>2. CASE left'[l] = <<Entry("create", l, 0)>> /\ step'[l] = "open"
    <3>1. Entry("create", l, 0) \in AnEntry
      BY DEF Entry, AnEntry
    <3>2. left'[l] \in Seq(AnEntry) /\ Len(left'[l]) = 1 /\ left'[l][1] = Entry("create", l, 0)
          /\ left'[l] # <<>>
      BY <2>2, <3>1
    <3> QED
      BY <1>1, <2>2, <3>2 DEF Queued, Entry
  <2>3. CASE left'[l] = left[l] /\ step[l] \in {"load", "open", "write", "move"} /\ step'[l] # "load"
    BY <1>3, <2>3 DEF Queued, Due
  <2>4. CASE left'[l] = Tail(left[l]) /\ step[l] = "move" /\ (step'[l] = "load" <=> Len(left[l]) > 1)
             /\ step'[l] \in {"load", "summarise", "idle"}
    <3> DEFINE s == left[l]
               t == Tail(s)
               n == Len(s)
    <3>1. /\ s \in Seq(AnEntry) /\ s # <<>> /\ n \in Nat /\ n >= 1
      BY <1>3, <2>4, EmptySeq DEF Queued
    <3>2. t \in Seq(AnEntry) /\ Len(t) = n - 1 /\ \A j \in 1..(n - 1) : t[j] = s[j + 1]
      BY <3>1, HeadTailProperties
    <3> HIDE DEF t, n
    <3>3. \A j \in 1..(n - 1) : j + 1 \in 1..n /\ j + 1 > 1
      BY <3>1
    <3>4. \A j \in 1..(n - 1) : t[j].by = l /\ t[j].number <= made[l] /\ t[j].number \in Due[l]
      BY <1>3, <3>2, <3>3 DEF Queued, Due, n
    <3>5. ASSUME NEW i \in 1..(n - 1), NEW j \in 1..(n - 1), i < j PROVE t[i].number < t[j].number
      <4>1. i + 1 \in 1..n /\ j + 1 \in 1..n /\ i + 1 < j + 1
        BY <3>3, <3>5
      <4> QED
        BY <1>3, <3>2, <4>1 DEF Queued, n
    <3>6. n > 1 => t # <<>>
      BY <3>1, <3>2, EmptySeq
    <3>7. left'[l] = t
      BY <2>4 DEF t
    <3> QED
      BY <2>4, <3>2, <3>4, <3>5, <3>6, <3>7 DEF Queued, n
  <2> QED
    BY <2>1, <2>2, <2>3, <2>4
<1>5. Later(made, Due, made', Due')
  BY <1>1, <1>4, LaterOne
<1> QED
  BY <1>1, <1>2, <1>4, <1>5, MixedLater

\* What is read has none of the entries that are still due: the first of them fits.
LEMMA LoadFits ==
    ASSUME Typed, Typed', Mixed, NEW l \in Agent, step[l] = "load", Readable, made' = made, left' = left,
           step'[l] = "open", \A m \in Agent \ {l} : step'[m] = step[m]
    PROVE  Fits(Added(data[live].holds, Head(left[l])), made', Due')
<1> DEFINE c == data[live].holds
           s == left[l]
           e == Head(s)
<1>1. Fits(c, made, Due)
  BY DEF Mixed, Readable, Exists, Typed
<1>2. /\ s \in Seq(AnEntry) /\ s # <<>> /\ Len(s) \in Nat \ {0}
      /\ \A j \in 1..Len(s) : s[j].by = l /\ s[j].number <= made[l]
      /\ \A i, j \in 1..Len(s) : i < j => s[i].number < s[j].number
  BY EmptySeq DEF Mixed, Queued
<1>3. e \in AnEntry /\ e = s[1] /\ 1 \in 1..Len(s)
  BY <1>2, HeadTailProperties
<1>4. e.by = l /\ e.number <= made[l] /\ e.number \in Due[l]
  BY <1>2, <1>3 DEF Due
<1>5. \A n \in Due'[l] : n \in Due[l] /\ e.number < n
  BY <1>2, <1>3 DEF Due
<1>6. made \in Bounds /\ Due \in Dues
  BY DueTyped DEF Mixed, Bounds
<1>7. Later(made, Due, made', Due')
  <2>1. \A j \in 1..Len(left'[l]) : j > 1 => left'[l][j].number \in Due[l]
    BY DEF Due
  <2>2. made' \in Bounds /\ made'[l] >= made[l]
    BY <1>6 DEF Bounds
  <2> QED
    BY <2>1, <2>2, LaterOne
<1>8. Due' \in Dues
  <2>1. \A m \in Agent \ {l} : Due'[m] = Due[m]
    BY DEF Due
  <2>2. DOMAIN Due' = Agent /\ Due' = [m \in Agent |-> Due'[m]]
    BY DEF Due
  <2>3. \A m \in Agent : Due'[m] \subseteq Nat
    BY <1>5, <1>6, <2>1 DEF Dues
  <2> QED
    BY <2>2, <2>3 DEF Dues
<1>9. Fits(c, made', Due')
  BY <1>1, <1>6, <1>7, <1>8, FitsLater
<1>10. \A t \in {c.messages, c.points} : \A k \in 1..Len(t) : t[k].by = e.by => t[k].number < e.number
  BY <1>1, <1>4 DEF Fits, Good, Before
<1>11. Before(e, made', Due')
  BY <1>4, <1>5 DEF Before
<1> HIDE DEF e, c
<1>12. Fits(Added(c, e), made', Due')
  BY <1>3, <1>9, <1>10, <1>11, FitsAdded
<1> QED
  BY <1>12 DEF e, c

\* A loop that compacts makes its new entries: all of them are yet to come.
LEMMA MakesMore ==
    ASSUME Typed, Typed', Mixed, NEW l \in Agent, NEW k \in Nat \ {0}, NEW what \in {"message", "point"},
           made' = [made EXCEPT ![l] = @ + k], step'[l] = "load",
           left'[l] = [i \in 1..k |-> Entry(what, l, made[l] + i)],
           \A m \in Agent \ {l} : step'[m] = step[m] /\ left'[m] = left[m],
           data' = data, plan' = plan
    PROVE  Mixed'
<1> DEFINE n == made[l]
           s == [i \in 1..k |-> Entry(what, l, n + i)]
<1>1. /\ n \in Nat /\ made' \in Bounds /\ made'[l] = n + k
      /\ \A m \in Agent \ {l} : made'[m] = made[m]
  BY DEF Mixed, Bounds
<1>2. \A i \in 1..k : /\ Entry(what, l, n + i) \in AnEntry
                      /\ Entry(what, l, n + i).by = l /\ Entry(what, l, n + i).number = n + i
  BY <1>1 DEF Entry, AnEntry
<1>3. s \in Seq(AnEntry) /\ Len(s) = k /\ \A i \in 1..k : s[i].by = l /\ s[i].number = n + i
  BY <1>2, IsASeq
<1>4. s # <<>> /\ left'[l] = s
  BY <1>3, EmptySeq
<1> HIDE DEF s, n
<1>5. \A i \in 1..k : n < n + i /\ n + i <= n + k
  BY <1>1
<1>6. \A i, j \in 1..k : i < j => n + i < n + j
  BY <1>1
<1>7. Queued(l)'
  <2>1. Len(left'[l]) = k /\ left'[l] \in Seq(AnEntry) /\ left'[l] # <<>>
    BY <1>3, <1>4
  <2>2. \A i \in 1..k : left'[l][i].by = l /\ left'[l][i].number <= made'[l]
    BY <1>1, <1>3, <1>4, <1>5
  <2>3. \A i, j \in 1..k : i < j => left'[l][i].number < left'[l][j].number
    BY <1>3, <1>4, <1>6
  <2> QED
    BY <2>1, <2>2, <2>3 DEF Queued
<1>8. \A m \in Agent \ {l} : Queued(m)'
  <2> SUFFICES ASSUME NEW m \in Agent \ {l} PROVE Queued(m)'
    OBVIOUS
  <2>1. step'[m] = step[m] /\ left'[m] = left[m] /\ made'[m] = made[m] /\ Queued(m)
    BY <1>1 DEF Mixed
  <2> QED
    BY <2>1 DEF Queued
<1>9. Later(made, Due, made', Due')
  <2>1. made'[l] >= made[l]
    BY <1>1 DEF n
  <2>2. \A j \in 1..Len(left'[l]) : made[l] < left'[l][j].number
    BY <1>3, <1>4, <1>5 DEF n
  <2> QED
    BY <1>1, <2>1, <2>2, LaterOne
<1> QED
  BY <1>1, <1>7, <1>8, <1>9, MixedLater

LEMMA MixedStep == ASSUME Typed, Typed', Mixed, [Next]_vars PROVE Mixed'
<1>1. CASE UNCHANGED vars
  BY <1>1 DEF vars, fileVars, callVars, Mixed, Queued, Due
<1>2. ASSUME NEW l \in Agent, Create(l) PROVE Mixed'
  <2>1. /\ step'[l] = "open" /\ left'[l] = <<Entry("create", l, 0)>> /\ UNCHANGED <<data, made>>
        /\ \A m \in Agent \ {l} : step'[m] = step[m] /\ left'[m] = left[m]
    BY <1>2 DEF Create, fileVars, Typed
  <2>2. \A m \in Agent : plan'[m] = plan[m] \/ plan'[m] = Nothing
    BY <1>2, BeginTyped DEF Create
  <2> QED
    BY <2>1, <2>2, MixedStepOf
<1>3. ASSUME NEW l \in Agent, Compact(l) PROVE Mixed'
  <2>1. PICK k \in 1..MaxEntries - made[l] - 1 :
           /\ Goes(l, "load", [i \in 1..k |-> Entry("message", l, made[l] + i)])
           /\ made' = [made EXCEPT ![l] = @ + k]
    BY <1>3 DEF Compact
  <2>2. k \in Nat \ {0}
    <3>1. MaxEntries \in Nat /\ made[l] \in Nat
      BY SessionAssumption DEF Mixed
    <3> QED
      BY <3>1
  <2>3. data' = data /\ plan' = plan
    BY <1>3 DEF Compact, fileVars
  <2> QED
    BY <2>1, <2>2, <2>3, GoesTyped, MakesMore DEF Where
<1>4. ASSUME NEW l \in Agent, Load(l) PROVE Mixed'
  <2>1. step[l] = "load" /\ UNCHANGED <<data, made>>
    BY <1>4 DEF Load, fileVars
  <2>2. CASE Readable
    <3>1. /\ step'[l] = "open" /\ left' = left
          /\ plan'[l] = Added(data[live].holds, Head(left[l]))
          /\ \A m \in Agent \ {l} : plan'[m] = plan[m] /\ step'[m] = step[m]
      BY <1>4, <2>2, BeginTyped DEF Load, Typed
    <3>2. Fits(plan'[l], made', Due')
      BY <2>1, <2>2, <3>1, LoadFits
    <3> QED
      BY <2>1, <3>1, <3>2, MixedStepOf
  <2>3. CASE ~Readable
    <3>1. Raises(l)
      BY <1>4, <2>3 DEF Load
    <3>2. plan'[l] = Nothing
      BY <3>1 DEF Raises, Typed
    <3> QED
      BY <2>1, <3>1, <3>2, RaisesTyped, MixedStepOf
  <2> QED
    BY <2>2, <2>3
<1>5. ASSUME NEW l \in Agent, OpenSession(l) PROVE Mixed'
  <2>1. /\ step[l] = "open" /\ step'[l] = "write" /\ UNCHANGED <<left, plan, made>>
        /\ \A m \in Agent \ {l} : step'[m] = step[m]
    BY <1>5 DEF OpenSession, Typed
  <2>2. \A n \in Inode : data'[n] = data[n] \/ data'[n].kind # "whole"
    BY <1>5, Opened DEF OpenSession, Typed, Empty
  <2> QED
    BY <2>1, <2>2, MixedStepOf
<1>6. ASSUME NEW l \in Agent, WriteSession(l) PROVE Mixed'
  <2>1. step[l] = "write" /\ made' = made
    BY <1>6 DEF WriteSession
  <2>2. CASE WriteTmp(l, plan[l]) /\ step' = [step EXCEPT ![l] = "move"] /\ UNCHANGED <<left, plan>>
    <3>1. \A n \in Inode : \/ data'[n] = data[n] \/ data'[n].kind # "whole"
                           \/ data'[n] = Whole(plan[l])
      BY <2>2 DEF WriteTmp, Typed, Garbled
    <3>2. step'[l] = "move" /\ \A m \in Agent \ {l} : step'[m] = step[m]
      BY <2>2 DEF Typed
    <3> QED
      BY <2>1, <2>2, <3>1, <3>2, MixedStepOf
  <2>3. CASE WritePart(l) /\ Raises(l)
    <3>1. \A n \in Inode : data'[n] = data[n] \/ data'[n].kind # "whole"
      BY <2>3 DEF WritePart, Typed, Garbled
    <3>2. plan'[l] = Nothing
      BY <2>3 DEF Raises, Typed
    <3> QED
      BY <2>1, <2>3, <3>1, <3>2, RaisesTyped, MixedStepOf
  <2> QED
    BY <1>6, <2>2, <2>3 DEF WriteSession
<1>7. ASSUME NEW l \in Agent, MoveSession(l) PROVE Mixed'
  <2>1. step[l] = "move" /\ made' = made
    BY <1>7 DEF MoveSession
  <2>2. \A n \in Inode : data'[n] = data[n] \/ data'[n].kind # "whole"
    BY <1>7 DEF MoveSession, Move, MoveFails, fileVars, Empty
  <2>3. CASE Returns(l)
    <3>1. plan'[l] = Nothing
      BY <2>3 DEF Returns, Typed
    <3>2. step'[l] = "load" <=> Len(left[l]) > 1
      <4>1. step'[l] = IF Len(left[l]) > 1 THEN "load"
                       ELSE IF Head(left[l]).what = "message" THEN "summarise" ELSE "idle"
        BY <2>3 DEF Returns, Goes, Typed
      <4> QED
        BY <4>1
    <3> QED
      BY <2>1, <2>2, <2>3, <3>1, <3>2, ReturnsTyped, MixedStepOf
  <2>4. CASE Raises(l)
    <3>1. plan'[l] = Nothing
      BY <2>4 DEF Raises, Typed
    <3> QED
      BY <2>1, <2>2, <2>4, <3>1, RaisesTyped, MixedStepOf
  <2> QED
    BY <1>7, <2>3, <2>4 DEF MoveSession
<1>8. ASSUME NEW l \in Agent, Summarise(l) PROVE Mixed'
  <2>1. data' = data /\ plan' = plan
    BY <1>8 DEF Summarise, fileVars
  <2>2. CASE Goes(l, "load", <<Entry("point", l, made[l] + 1)>>) /\ made' = [made EXCEPT ![l] = @ + 1]
    <3>1. <<Entry("point", l, made[l] + 1)>> = [i \in 1..1 |-> Entry("point", l, made[l] + i)]
      OBVIOUS
    <3>2. /\ step'[l] = "load" /\ left'[l] = [i \in 1..1 |-> Entry("point", l, made[l] + i)]
          /\ \A m \in Agent \ {l} : step'[m] = step[m] /\ left'[m] = left[m]
      BY <2>2, <3>1, GoesTyped DEF Where
    <3>3. 1 \in Nat \ {0}
      OBVIOUS
    <3> QED
      BY <2>1, <2>2, <3>2, <3>3, MakesMore
  <2>3. CASE Goes(l, "idle", <<>>) /\ UNCHANGED made
    BY <2>1, <2>3, GoesTyped, MixedStepOf DEF Where
  <2> QED
    BY <1>8, <2>2, <2>3 DEF Summarise
<1>9. ASSUME NEW l \in Agent, Dies(l) PROVE Mixed'
  <2>1. data' = data /\ made' = made /\ Goes(l, "idle", <<>>)
    BY <1>9 DEF Dies, CloseAll
  <2>2. \A m \in Agent : plan'[m] = plan[m] \/ plan'[m] = Nothing
    BY <1>9 DEF Dies, Typed
  <2> QED
    BY <2>1, <2>2, GoesTyped, MixedStepOf DEF Where
<1> QED
  BY <1>1, <1>2, <1>3, <1>4, <1>5, <1>6, <1>7, <1>8, <1>9 DEF Next

LEMMA MixedInvariant == Spec => []Mixed
<1>1. Init => Mixed
  <2> SUFFICES ASSUME Init PROVE Mixed
    OBVIOUS
  <2>1. \A l \in Agent : left[l] = <<>> /\ step[l] = "idle" /\ plan[l] = Nothing
    BY DEF Init
  <2>2. \A n \in Inode : data[n].kind # "whole"
    BY DEF Init, FileInit, Empty
  <2>3. ASSUME NEW l \in Agent PROVE Queued(l)
    <3>1. left[l] = <<>> /\ step[l] = "idle" /\ <<>> \in Seq(AnEntry) /\ Len(<<>>) = 0
      BY <2>1, EmptySeq
    <3> QED
      BY <3>1 DEF Queued
  <2>4. made \in [Agent -> Nat]
    BY DEF Init
  <2> QED
    BY <2>1, <2>2, <2>3, <2>4, FitsNothing DEF Mixed
<1>2. Typed /\ Undisturbed /\ (Typed /\ Undisturbed)' /\ Mixed /\ [Next]_vars => Mixed'
  BY MixedStep
<1> QED
  BY <1>1, <1>2, UndisturbedInvariant, PTL DEF Spec

\* Whatever overlaps, fails or ends: a loop's entries that are in the session are
\* there once and in the order in which it appended them.
THEOREM OwnEntriesStayInOrder == Spec => []OwnEntriesInOrder
<1>1. Typed /\ Mixed => OwnEntriesInOrder
  <2> SUFFICES ASSUME Typed, Mixed, Readable,
                      NEW s \in {data[live].holds.messages, data[live].holds.points}
               PROVE  /\ \A j, k \in DOMAIN s :
                             j < k /\ s[j].by = s[k].by => s[j].number < s[k].number
                      /\ \A e \in ToSet(s) : e.number <= made[e.by]
    BY DEF OwnEntriesInOrder
  <2>1. Good(s, made, Due)
    BY DEF Mixed, Fits, Readable, Exists, Typed
  <2>2. DOMAIN s = 1..Len(s)
    BY <2>1, LenProperties DEF Good, InOrder
  <2> QED
    BY <2>1, <2>2 DEF Good, InOrder, Before, ToSet
<1> QED
  BY <1>1, UndisturbedInvariant, MixedInvariant, PTL
-----------------------------------------------------------------------------
(***************************************************************************)
(* For any number of memories and any top_k: the triggers keep the index   *)
(* equal to the table, and what a search returns, whatever is written      *)
(* between its statements.                                                 *)
(*                                                                         *)
(* The argument: while a search runs a row number is not used twice, and a *)
(* row keeps its id and, once it has them, its vector and its being        *)
(* superseded; its text may change (Kept).  A row that a statement found   *)
(* is therefore, when the next one reads it, the same memory or gone.      *)
(* FoundSoFar says that what is collected was wanted, NoneLost that a      *)
(* memory wanted throughout is collected or still to be found.             *)
(***************************************************************************)

Row == [row : Nat \ {0}, id : Id, text : {"hit", "miss"}, vector : BOOLEAN, superseded : BOOLEAN]
At == {"none", "match", "lookup", "scan", "refetch", "rank", "done"}
Search ==
    [at : At, embedding : BOOLEAN, superseded : BOOLEAN, rows : SUBSET Nat, scanned : SUBSET Id,
     found : SUBSET Id, result : SUBSET Id, ranked : Nat, crowded : BOOLEAN,
     always : SUBSET Id, ever : SUBSET Id]

\* Rows differ in their number and in their id, and lastRow is above them all.
TableTyped ==
    /\ table \subseteq Row /\ IsFiniteSet(table) /\ lastRow \in Nat
    /\ \A r \in table : r.row <= lastRow
    /\ \A r, q \in table : r.row = q.row \/ r.id = q.id => r = q

SearchTyped ==
    /\ search \in Search /\ IsFiniteSet(search.found) /\ IsFiniteSet(search.scanned)
    /\ \A n \in search.rows : n <= lastRow
    /\ search.at \in {"scan", "refetch"} => search.embedding

\* What a search has collected was wanted at some moment of it.
FoundSoFar ==
    /\ search.found \cup search.scanned \cup search.result \subseteq search.ever
    /\ Searching => search.always \subseteq Wanted(table, search)
    /\ Searching => Wanted(table, search) \subseteq search.ever
    /\ search.at = "lookup" =>
          \A r \in Visible(table, search) : r.row \in search.rows => r.id \in search.ever

\* What was wanted throughout is collected, or a statement to come will find it.
ToCome(r) == search.embedding /\ r.vector
NoneLost ==
    /\ search.at = "lookup" /\ ~search.crowded =>
          \A r \in table : r.id \in search.always => r.row \in search.rows \/ ToCome(r)
    /\ search.at = "scan" /\ ~search.crowded =>
          \A r \in table : r.id \in search.always => r.id \in search.found \/ ToCome(r)
    /\ search.at = "refetch" /\ ~search.crowded =>
          search.always \subseteq search.found \cup search.scanned
    /\ search.at = "rank" /\ ~search.crowded => search.always \subseteq search.found

IInv == TableTyped /\ IndexAgrees /\ SearchTyped /\ FoundSoFar /\ NoneLost /\ WantedIsFound
-----------------------------------------------------------------------------
LEMMA Sizes == TopK \in Nat \ {0} /\ Oversample * TopK \in Nat /\ MaxScan \in Nat \ {0}
<1>1. {TopK, Oversample, MaxScan} \subseteq Nat \ {0}
  BY MemoryAssumption
<1>2. TopK \in Nat \ {0} /\ Oversample \in Nat \ {0} /\ MaxScan \in Nat \ {0}
  BY <1>1
<1> QED
  BY <1>2

LEMMA Extremes ==
    ASSUME NEW m \in Nat, NEW n \in Nat
    PROVE  /\ Min({m, n}) = IF m <= n THEN m ELSE n
           /\ Max({m, n}) = IF m >= n THEN m ELSE n
  BY DEF Min, Max

\* The best n of a set are the set, or n of it.
LEMMA BestOf ==
    ASSUME NEW S, IsFiniteSet(S), NEW n \in Nat, NEW best \in Best(n, S)
    PROVE  /\ best \subseteq S /\ IsFiniteSet(best) /\ Cardinality(best) \in Nat
           /\ Leaves(n, S) => Cardinality(best) = n
           /\ ~Leaves(n, S) => best = S
<1>1. best \in SUBSET S /\ Cardinality(best) = Min({n, Cardinality(S)})
  BY DEF Best, kSubset
<1>2. Cardinality(S) \in Nat
  BY FS_CardinalityType
<1>3. /\ IsFiniteSet(best)
      /\ Cardinality(S) = Cardinality(best) => S = best
  BY <1>1, FS_Subset
<1>4. Cardinality(best) = IF n <= Cardinality(S) THEN n ELSE Cardinality(S)
  BY <1>1, <1>2, Extremes
<1> QED
  BY <1>1, <1>2, <1>3, <1>4 DEF Leaves

LEMMA IdsFinite ==
    ASSUME NEW S, IsFiniteSet(S)
    PROVE  IsFiniteSet(Ids(S))
<1> DEFINE f == [r \in S |-> r.id]
<1>1. f \in Surjection(S, Ids(S))
  BY DEF Ids, Surjection
<1> QED
  BY <1>1, FS_Surjection

\* A row after a write is a new one, or the one of its number and its id.
Old(r) ==
    \E q \in table : /\ q.row = r.row /\ q.id = r.id
                     /\ (q.superseded => r.superseded) /\ (q.vector => r.vector)
Kept == \A r \in table' : Old(r) \/ (r.row > lastRow /\ r.id \notin Ids(table))

Write == Save \/ Update \/ Delete \/ Supersede

\* Every write keeps the table sound, the index equal to it, and the rows.
LEMMA WriteKeeps ==
    ASSUME TableTyped, IndexAgrees, Write
    PROVE  TableTyped' /\ IndexAgrees' /\ Kept /\ lastRow' \in Nat /\ lastRow' >= lastRow
<1> USE DEF TableTyped, IndexAgrees, Kept, Old, Commit
<1>1. CASE Save
  <2>1. PICK i \in Id \ Ids(table), text \in {"hit", "miss"}, vector \in BOOLEAN :
            LET r == [row |-> NextRow, id |-> i, text |-> text, vector |-> vector,
                      superseded |-> FALSE]
            IN  Commit(table \cup {r}, AfterInsert(r))
    BY <1>1 DEF Save
  <2> DEFINE r == [row |-> NextRow, id |-> i, text |-> text, vector |-> vector,
                   superseded |-> FALSE]
  <2>2. table' = table \cup {r} /\ index' = index \cup {Indexed(r)}
    BY <2>1 DEF AfterInsert
  <2>3. NextRow = lastRow + 1 /\ NextRow \in Nat \ {0} /\ NextRow > lastRow
    BY DEF NextRow
  <2>4. lastRow' = NextRow
    <3>1. lastRow' = Max({lastRow, NextRow})
      BY <1>1 DEF Save
    <3>2. Max({lastRow, NextRow}) = IF lastRow >= NextRow THEN lastRow ELSE NextRow
      BY <2>3, Extremes
    <3> QED
      BY <2>3, <3>1, <3>2
  <2>5. r \in Row /\ r.row = NextRow /\ r.id = i
    BY <2>3 DEF Row
  <2>6. \A q \in table : q.row \in Nat /\ q.row < NextRow /\ q.id # i
    BY <2>3 DEF Row, Ids
  <2> HIDE DEF r
  <2>7. IsFiniteSet(table')
    BY <2>2, FS_AddElement
  <2>8. \A q, s \in table' : q.row = s.row \/ q.id = s.id => q = s
    BY <2>2, <2>5, <2>6, <2>3
  <2>9. \A q \in table' : q.row <= lastRow'
    BY <2>2, <2>3, <2>4, <2>5, <2>6
  <2>10. TableTyped'
    BY <2>2, <2>3, <2>4, <2>5, <2>7, <2>8, <2>9
  <2>11. IndexAgrees'
    BY <2>2
  <2>12. Kept
    BY <2>2, <2>3, <2>5
  <2> QED
    BY <2>3, <2>4, <2>10, <2>11, <2>12
<1>2. ASSUME NEW r \in table, NEW new \in Row, new.row = r.row, new.id = r.id,
             r.superseded => new.superseded, r.vector => new.vector,
             table' = (table \ {r}) \cup {new}, lastRow' = lastRow
      PROVE  TableTyped' /\ Kept
  <2>1. IsFiniteSet(table')
    BY <1>2, FS_AddElement, FS_RemoveElement
  <2>2. table' \subseteq Row /\ \A q \in table' : q = new \/ (q \in table /\ q # r)
    BY <1>2
  <2>3. \A q, s \in table' : q.row = s.row \/ q.id = s.id => q = s
    BY <1>2, <2>2
  <2>4. \A q \in table' : q.row <= lastRow'
    BY <1>2, <2>2
  <2>5. Kept
    BY <1>2, <2>2
  <2> QED
    BY <1>2, <2>1, <2>2, <2>3, <2>4, <2>5
<1>3. CASE Update
  <2>1. PICK r \in table, text \in {"hit", "miss"}, vector \in BOOLEAN :
            LET new == [r EXCEPT !.text = text, !.vector = @ \/ vector]
            IN  Commit((table \ {r}) \cup {new}, AfterUpdate(r, new))
    BY <1>3 DEF Update
  <2> DEFINE new == [r EXCEPT !.text = text, !.vector = @ \/ vector]
  <2>2. table' = (table \ {r}) \cup {new} /\ index' = AfterUpdate(r, new) /\ lastRow' = lastRow
    BY <1>3, <2>1 DEF Update
  <2>3. /\ new \in Row /\ new.row = r.row /\ new.id = r.id /\ new.text = text
        /\ new.superseded = r.superseded /\ (r.vector => new.vector)
    BY DEF Row
  <2> HIDE DEF new
  <2>4. TableTyped' /\ Kept
    BY <1>2, <2>2, <2>3
  <2>5. IndexAgrees'
    <3>1. CASE r.text = new.text
      <4>1. index' = index /\ Indexed(new) = Indexed(r)
        BY <2>2, <2>3, <3>1 DEF AfterUpdate, Indexed
      <4> QED
        BY <2>2, <4>1
    <3>2. CASE r.text # new.text
      <4>1. index' = {e \in index : e.row # r.row} \cup {Indexed(new)}
        BY <2>2, <3>2 DEF AfterUpdate, AfterDelete
      <4>2. {e \in index : e.row # r.row} = {Indexed(q) : q \in table \ {r}}
        BY DEF Indexed
      <4> QED
        BY <2>2, <4>1, <4>2
    <3> QED
      BY <3>1, <3>2
  <2> QED
    BY <2>2, <2>4, <2>5
<1>4. CASE Delete
  <2>1. PICK r \in table : table' = table \ {r} /\ index' = {e \in index : e.row # r.row}
                           /\ lastRow' = lastRow
    BY <1>4 DEF Delete, AfterDelete
  <2>2. IsFiniteSet(table')
    BY <2>1, FS_RemoveElement
  <2>3. IndexAgrees'
    BY <2>1 DEF Indexed
  <2> QED
    BY <2>1, <2>2, <2>3
<1>5. CASE Supersede
  <2>1. PICK r \in table : /\ table' = (table \ {r}) \cup {[r EXCEPT !.superseded = TRUE]}
                           /\ index' = index /\ lastRow' = lastRow
    BY <1>5 DEF Supersede
  <2> DEFINE new == [r EXCEPT !.superseded = TRUE]
  <2>2. /\ new \in Row /\ new.row = r.row /\ new.id = r.id /\ new.text = r.text
        /\ new.superseded /\ (r.vector => new.vector)
    BY DEF Row
  <2>3. table' = (table \ {r}) \cup {new}
    BY <2>1
  <2> HIDE DEF new
  <2>4. TableTyped' /\ Kept
    BY <1>2, <2>1, <2>2, <2>3
  <2>5. Indexed(new) = Indexed(r)
    BY <2>2 DEF Indexed
  <2>6. IndexAgrees'
    BY <2>1, <2>3, <2>5
  <2> QED
    BY <2>1, <2>4, <2>6
<1> QED
  BY <1>1, <1>3, <1>4, <1>5 DEF Write

LEMMA WantedAre ==
    ASSUME NEW rows, NEW s
    PROVE  /\ Wanted(rows, s) \subseteq Ids(rows)
           /\ \A i \in Wanted(rows, s) : \E r \in rows :
                 /\ r.id = i /\ (s.superseded \/ ~r.superseded)
                 /\ r.text = "hit" \/ (s.embedding /\ r.vector)
           /\ \A r \in rows :
                 (s.superseded \/ ~r.superseded) /\ (r.text = "hit" \/ (s.embedding /\ r.vector))
                 => r.id \in Wanted(rows, s)
  BY DEF Wanted, Visible, Ids

\* Without a search there is nothing to lose.
LEMMA NoSearchIsSound ==
    ASSUME search' = NoSearch
    PROVE  SearchTyped' /\ FoundSoFar' /\ NoneLost' /\ WantedIsFound'
<1>1. /\ search'.at = "none" /\ search'.found = {} /\ search'.scanned = {} /\ search'.rows = {}
      /\ search'.result = {}
  BY DEF NoSearch
<1>2. search' \in Search
  BY DEF NoSearch, Search, At
<1> QED
  BY <1>1, <1>2, FS_EmptySet DEF SearchTyped, FoundSoFar, NoneLost, WantedIsFound, Searching

\* A write takes nothing from a search but what is no longer wanted.
LEMMA WriteSearch ==
    ASSUME IInv, Write, TableTyped', Kept, lastRow' >= lastRow, lastRow' \in Nat
    PROVE  SearchTyped' /\ FoundSoFar' /\ NoneLost' /\ WantedIsFound'
<1>1. search' = IF ~Searching THEN NoSearch
                ELSE [search EXCEPT !.always = @ \cap Wanted(table', search),
                                    !.ever = @ \cup Wanted(table', search)]
  BY DEF Write, Save, Update, Delete, Supersede, Commit
<1>2. CASE ~Searching
  BY <1>1, <1>2, NoSearchIsSound
<1>3. CASE Searching
  <2>0. search \in Search /\ TableTyped
    BY DEF IInv, SearchTyped
  <2>1. /\ search'.always = search.always \cap Wanted(table', search)
        /\ search'.ever = search.ever \cup Wanted(table', search)
        /\ search'.at = search.at /\ search'.rows = search.rows
        /\ search'.found = search.found /\ search'.scanned = search.scanned
        /\ search'.result = search.result /\ search'.crowded = search.crowded
        /\ search'.embedding = search.embedding /\ search'.superseded = search.superseded
        /\ search'.ranked = search.ranked
    BY <1>1, <1>3, <2>0 DEF Search
  <2>2. Wanted(table', search) = Wanted(table, search)' /\ Wanted(table', search) \subseteq Id
    BY <2>1 DEF Wanted, Visible, Ids, TableTyped, Row
  <2>3. search' \in Search
    BY <1>1, <1>3, <2>0, <2>2 DEF Search
  <2>4. SearchTyped'
    <3>1. lastRow \in Nat /\ \A n \in search.rows : n \in Nat /\ n <= lastRow
      BY <2>0 DEF IInv, SearchTyped, Search, TableTyped
    <3>2. \A n \in search'.rows : n <= lastRow'
      BY <2>1, <3>1
    <3>3. search.at \in {"scan", "refetch"} => search.embedding
      BY DEF IInv, SearchTyped
    <3>4. IsFiniteSet(search'.found) /\ IsFiniteSet(search'.scanned)
      BY <2>1 DEF IInv, SearchTyped
    <3> QED
      BY <2>1, <2>3, <3>2, <3>3, <3>4 DEF SearchTyped
  <2>5. \A r \in table' : r.row \in search.rows => Old(r)
    <3>1. lastRow \in Nat /\ \A n \in search.rows : n \in Nat /\ n <= lastRow
      BY <2>0 DEF IInv, SearchTyped, Search, TableTyped
    <3>2. \A n \in search.rows : ~(n > lastRow)
      BY <3>1
    <3> QED
      BY <3>2 DEF Kept
  <2>6. \A r \in table' : r.id \in search'.always => r.id \in search.always /\ Old(r)
    BY <1>3, <2>1, WantedAre DEF Kept, IInv, FoundSoFar
  <2>7. FoundSoFar'
    <3>1. \A r \in Visible(table, search)' : r \in table' /\ (search.superseded \/ ~r.superseded)
      BY <2>1 DEF Visible
    <3>2. \A r \in table : (search.superseded \/ ~r.superseded) => r \in Visible(table, search)
      BY DEF Visible
    <3>3. search'.at = "lookup" =>
             \A r \in Visible(table, search)' : r.row \in search'.rows => r.id \in search'.ever
      BY <2>1, <2>5, <3>1, <3>2 DEF Old, IInv, FoundSoFar
    <3>4. search'.found \cup search'.scanned \cup search'.result \subseteq search'.ever
      BY <2>1 DEF IInv, FoundSoFar
    <3> QED
      BY <2>1, <2>2, <3>3, <3>4 DEF FoundSoFar
  <2>8. NoneLost'
    <3>1. \A r \in table' : r.id \in search'.always =>
             \E q \in table : q.id \in search.always /\ q.id = r.id /\ q.row = r.row
                              /\ (ToCome(q) => ToCome(r)')
      BY <2>1, <2>6 DEF Old, ToCome
    <3>2. search'.at = "lookup" /\ ~search'.crowded =>
             \A r \in table' : r.id \in search'.always => r.row \in search'.rows \/ ToCome(r)'
      BY <2>1, <3>1 DEF IInv, NoneLost
    <3>3. search'.at = "scan" /\ ~search'.crowded =>
             \A r \in table' : r.id \in search'.always => r.id \in search'.found \/ ToCome(r)'
      BY <2>1, <3>1 DEF IInv, NoneLost
    <3>4. search'.at \in {"refetch", "rank"} /\ ~search'.crowded =>
             /\ search'.at = "refetch" => search'.always \subseteq search'.found \cup search'.scanned
             /\ search'.at = "rank" => search'.always \subseteq search'.found
      BY <2>1 DEF IInv, NoneLost
    <3>5. \A r : ToCome(r)' = (search'.embedding /\ r.vector)
      BY DEF ToCome
    <3> QED
      BY <3>2, <3>3, <3>4, <3>5 DEF NoneLost, ToCome
  <2>9. WantedIsFound'
    BY <1>3, <2>1 DEF WantedIsFound, Searching
  <2> QED
    BY <2>4, <2>7, <2>8, <2>9
<1> QED
  BY <1>2, <1>3

\* A search begins, and its statements only read.
LEMMA ReadKeeps ==
    ASSUME TableTyped, IndexAgrees, UNCHANGED storeVars
    PROVE  TableTyped' /\ IndexAgrees'
  BY DEF TableTyped, IndexAgrees, storeVars

LEMMA BeginSearch ==
    ASSUME IInv, StartSearch
    PROVE  SearchTyped' /\ FoundSoFar' /\ NoneLost' /\ WantedIsFound'
<1>1. PICK embedding \in BOOLEAN, superseded \in BOOLEAN :
          LET s == [NoSearch EXCEPT !.at = "match", !.embedding = embedding,
                                    !.superseded = superseded]
          IN  search' = [s EXCEPT !.always = Wanted(table, s), !.ever = Wanted(table, s)]
  BY DEF StartSearch
<1> DEFINE s == [NoSearch EXCEPT !.at = "match", !.embedding = embedding,
                                 !.superseded = superseded]
<1>2. /\ search' = [s EXCEPT !.always = Wanted(table, s), !.ever = Wanted(table, s)]
      /\ table' = table
  BY <1>1 DEF StartSearch, storeVars
<1>3. s \in Search /\ s.embedding = embedding /\ s.superseded = superseded
      /\ s.at = "match" /\ s.rows = {} /\ s.found = {} /\ s.scanned = {} /\ s.result = {}
  <2>1. NoSearch \in Search
    BY DEF NoSearch, Search, At
  <2>2. /\ NoSearch.rows = {} /\ NoSearch.found = {} /\ NoSearch.scanned = {}
        /\ NoSearch.result = {}
    BY DEF NoSearch
  <2> HIDE DEF NoSearch
  <2> QED
    BY <2>1, <2>2 DEF Search, At
<1> HIDE DEF s
<1>4. /\ search'.at = "match" /\ search'.rows = {} /\ search'.found = {} /\ search'.scanned = {}
      /\ search'.result = {} /\ search'.embedding = embedding /\ search'.superseded = superseded
      /\ search'.always = Wanted(table, s) /\ search'.ever = Wanted(table, s)
  BY <1>2, <1>3 DEF Search
<1>5. Wanted(table, search)' = Wanted(table, s) /\ Wanted(table, s) \subseteq Id
  BY <1>2, <1>3, <1>4 DEF Wanted, Visible, Ids, IInv, TableTyped, Row
<1>6. search' \in Search
  BY <1>2, <1>3, <1>5 DEF Search
<1> QED
  BY <1>4, <1>5, <1>6, FS_EmptySet DEF SearchTyped, FoundSoFar, NoneLost, WantedIsFound, Searching

\* What the index finds is in the table under the row's own number.
LEMMA MatchSearch ==
    ASSUME IInv, Match
    PROVE  SearchTyped' /\ FoundSoFar' /\ NoneLost' /\ WantedIsFound'
<1> DEFINE hits == {e.row : e \in {x \in index : x.text = "hit"}}
<1>1. CASE search' = NoSearch
  BY <1>1, NoSearchIsSound
<1>2. ASSUME NEW best \in Best(Oversample * TopK, hits),
             search' = [search EXCEPT !.rows = best, !.crowded = Leaves(Oversample * TopK, hits),
                               !.at = IF best = {} THEN AfterText(search) ELSE "lookup"]
      PROVE  SearchTyped' /\ FoundSoFar' /\ NoneLost' /\ WantedIsFound'
  <2>0. search \in Search /\ TableTyped /\ search.at = "match" /\ table' = table /\ lastRow' = lastRow
    BY DEF IInv, SearchTyped, Match, Go, storeVars
  <2>1. hits = {r.row : r \in {q \in table : q.text = "hit"}}
    <3>1. index = {Indexed(r) : r \in table}
      BY DEF IInv, IndexAgrees
    <3>2. \A r : Indexed(r).row = r.row /\ Indexed(r).text = r.text
      BY DEF Indexed
    <3>3. hits \subseteq {r.row : r \in {q \in table : q.text = "hit"}}
      BY <3>1, <3>2
    <3>4. {r.row : r \in {q \in table : q.text = "hit"}} \subseteq hits
      <4> SUFFICES ASSUME NEW r \in table, r.text = "hit" PROVE r.row \in hits
        OBVIOUS
      <4>1. Indexed(r) \in {x \in index : x.text = "hit"}
        BY <3>1, <3>2
      <4> QED
        BY <3>2, <4>1
    <3> QED
      BY <3>3, <3>4
  <2>2. /\ hits \subseteq Nat /\ \A n \in hits : n <= lastRow
        /\ \A r \in table : r.text = "hit" <=> r.row \in hits
    BY <2>0, <2>1 DEF TableTyped, Row
  <2>3. IsFiniteSet(hits)
    BY <2>0, <2>2, FS_BoundedSetOfNaturals DEF TableTyped
  <2> HIDE DEF hits
  <2>4. /\ best \subseteq hits
        /\ ~Leaves(Oversample * TopK, hits) => best = hits
    BY <1>2, <2>3, Sizes, BestOf
  <2>5. /\ search'.rows = best /\ search'.crowded = Leaves(Oversample * TopK, hits)
        /\ search'.at = IF best = {} THEN AfterText(search) ELSE "lookup"
        /\ search'.found = search.found /\ search'.scanned = search.scanned
        /\ search'.result = search.result /\ search'.embedding = search.embedding
        /\ search'.superseded = search.superseded /\ search'.always = search.always
        /\ search'.ever = search.ever
    BY <1>2, <2>0 DEF Search
  <2>6. AfterText(search) = IF search.embedding THEN "scan" ELSE "rank"
    BY DEF AfterText
  <2>7. search' \in Search
    <3>1. search'.at \in At /\ best \in SUBSET Nat /\ Leaves(Oversample * TopK, hits) \in BOOLEAN
      BY <2>2, <2>4, <2>5, <2>6 DEF At, Leaves
    <3> QED
      BY <1>2, <2>0, <2>5, <3>1 DEF Search
  <2>8. SearchTyped'
    BY <2>0, <2>2, <2>4, <2>5, <2>6, <2>7 DEF IInv, SearchTyped
  <2>9. Wanted(table, search)' = Wanted(table, search)
    BY <2>0, <2>5 DEF Wanted, Visible
  <2>10. /\ search.always \subseteq Wanted(table, search)
         /\ Wanted(table, search) \subseteq search.ever
    BY <2>0 DEF IInv, FoundSoFar, Searching
  <2>11. FoundSoFar'
    <3>1. \A r \in Visible(table, search)' : r \in table /\ (search.superseded \/ ~r.superseded)
      BY <2>0, <2>5 DEF Visible
    <3>2. \A r \in Visible(table, search)' : r.row \in best => r.id \in Wanted(table, search)
      BY <2>2, <2>4, <3>1, WantedAre
    <3> QED
      BY <2>5, <2>9, <2>10, <3>2 DEF FoundSoFar, IInv
  <2>12. NoneLost'
    <3>1. \A r \in table : r.id \in search.always => r.text = "hit" \/ ToCome(r)
      <4>1. \A i \in search.always : \E r \in table :
               r.id = i /\ (r.text = "hit" \/ (search.embedding /\ r.vector))
        BY <2>10, WantedAre
      <4> QED
        BY <2>0, <4>1 DEF TableTyped, ToCome
    <3>2. \A i \in search.always : \E r \in table : r.id = i
      BY <2>10, WantedAre
    <3>3. \A r : ToCome(r)' = ToCome(r)
      BY <2>5 DEF ToCome
    <3>4. ~search'.crowded => best = hits
      BY <2>4, <2>5
    <3>5. ~search'.crowded => \A r \in table : r.id \in search.always => r.row \in best \/ ToCome(r)
      BY <2>2, <3>1, <3>4
    <3>6. search'.at = "rank" => ~search.embedding
      BY <2>5, <2>6
    <3>7. search'.at = "rank" /\ ~search'.crowded => search.always = {}
      BY <2>5, <3>2, <3>5, <3>6 DEF ToCome
    <3> QED
      BY <2>0, <2>5, <2>6, <3>3, <3>5, <3>7 DEF NoneLost
  <2>13. WantedIsFound'
    BY <2>5, <2>6 DEF WantedIsFound
  <2> QED
    BY <2>8, <2>11, <2>12, <2>13
<1> QED
  BY <1>1, <1>2 DEF Match, Go

\* The rows found that are still there, and were not superseded before.
LEMMA LookupSearch ==
    ASSUME IInv, Lookup
    PROVE  SearchTyped' /\ FoundSoFar' /\ NoneLost' /\ WantedIsFound'
<1> DEFINE ids == Ids({r \in Visible(table, search) : r.row \in search.rows})
<1>0. search \in Search /\ TableTyped /\ search.at = "lookup" /\ table' = table /\ lastRow' = lastRow
  BY DEF IInv, SearchTyped, Lookup, Go, storeVars
<1>1. search' = [search EXCEPT !.found = ids, !.at = AfterText(search)]
  BY DEF Lookup, Go
<1>2. /\ \A i \in ids : \E r \in table : r.id = i /\ r.row \in search.rows /\ r \in Visible(table, search)
      /\ \A r \in Visible(table, search) : r.row \in search.rows => r.id \in ids
      /\ ids \subseteq Id
  BY <1>0 DEF Ids, Visible, TableTyped, Row
<1>3. IsFiniteSet(ids)
  <2>1. {r \in Visible(table, search) : r.row \in search.rows} \in SUBSET table
    BY DEF Visible
  <2> QED
    BY <1>0, <2>1, FS_Subset, IdsFinite DEF TableTyped
<1> HIDE DEF ids
<1>4. /\ search'.found = ids /\ search'.at = AfterText(search)
      /\ search'.rows = search.rows /\ search'.crowded = search.crowded
      /\ search'.scanned = search.scanned
      /\ search'.result = search.result /\ search'.embedding = search.embedding
      /\ search'.superseded = search.superseded /\ search'.always = search.always
      /\ search'.ever = search.ever
  BY <1>0, <1>1 DEF Search
<1>5. AfterText(search) = IF search.embedding THEN "scan" ELSE "rank"
  BY DEF AfterText
<1>6. search' \in Search
  BY <1>0, <1>1, <1>2, <1>5 DEF Search, At
<1>7. SearchTyped'
  BY <1>0, <1>3, <1>4, <1>5, <1>6 DEF IInv, SearchTyped
<1>8. Wanted(table, search)' = Wanted(table, search)
  BY <1>0, <1>4 DEF Wanted, Visible
<1>9. /\ search.always \subseteq Wanted(table, search)
      /\ Wanted(table, search) \subseteq search.ever
  BY <1>0 DEF IInv, FoundSoFar, Searching
<1>10. FoundSoFar'
  <2>1. ids \subseteq search.ever
    BY <1>0, <1>2 DEF IInv, FoundSoFar
  <2> QED
    BY <1>4, <1>5, <1>8, <1>9, <2>1 DEF IInv, FoundSoFar
<1>11. NoneLost'
  <2>1. \A r \in table : r.id \in search.always => r \in Visible(table, search)
    <3>1. \A i \in search.always : \E r \in table : r.id = i /\ (search.superseded \/ ~r.superseded)
      BY <1>9, WantedAre
    <3> QED
      BY <1>0, <3>1 DEF TableTyped, Visible
  <2>2. ~search.crowded =>
           \A r \in table : r.id \in search.always => r.row \in search.rows \/ ToCome(r)
    BY <1>0 DEF IInv, NoneLost
  <2>3. ~search.crowded => \A r \in table : r.id \in search.always => r.id \in ids \/ ToCome(r)
    BY <1>2, <2>1, <2>2
  <2>4. \A i \in search.always : \E r \in table : r.id = i
    BY <1>9, WantedAre
  <2>5. \A r : ToCome(r)' = ToCome(r)
    BY <1>4 DEF ToCome
  <2>6. search'.at = "rank" => ~search.embedding
    BY <1>4, <1>5
  <2>7. search'.at = "rank" /\ ~search.crowded => search.always \subseteq ids
    BY <2>3, <2>4, <2>6 DEF ToCome
  <2> QED
    BY <1>0, <1>4, <1>5, <2>3, <2>5, <2>7 DEF NoneLost
<1>12. WantedIsFound'
  BY <1>4, <1>5 DEF WantedIsFound
<1> QED
  BY <1>7, <1>10, <1>11, <1>12

\* The embeddings that are there now: what has one keeps it.
LEMMA ScanSearch ==
    ASSUME IInv, Scan
    PROVE  SearchTyped' /\ FoundSoFar' /\ NoneLost' /\ WantedIsFound'
<1> DEFINE rows == {r \in Visible(table, search) : r.vector}
           most == Min({Oversample * TopK, MaxScan})
<1>0. /\ search \in Search /\ TableTyped /\ search.at = "scan" /\ search.embedding
      /\ table' = table /\ lastRow' = lastRow
  BY DEF IInv, SearchTyped, Scan, Go, storeVars
<1>1. PICK best \in Best(most, rows) :
        search' = [search EXCEPT !.scanned = Ids(best), !.at = "refetch",
                                 !.crowded = @ \/ Leaves(most, rows)]
  BY DEF Scan, Go
<1>2. rows \subseteq table /\ IsFiniteSet(rows) /\ most \in Nat
  <2>1. rows \in SUBSET table
    BY DEF Visible
  <2>2. most = IF Oversample * TopK <= MaxScan THEN Oversample * TopK ELSE MaxScan
    BY Sizes, Extremes
  <2> QED
    BY <1>0, <2>1, <2>2, FS_Subset, Sizes DEF TableTyped
<1>3. /\ \A r \in rows : r.id \in Wanted(table, search)
      /\ \A r \in Visible(table, search) : r.vector => r \in rows
  BY <1>0, WantedAre DEF Visible
<1>4. Leaves(most, rows) \in BOOLEAN
  BY DEF Leaves
<1> HIDE DEF rows, most
<1>5. /\ best \subseteq rows /\ IsFiniteSet(best)
      /\ ~Leaves(most, rows) => best = rows
  BY <1>2, BestOf
<1>6. /\ IsFiniteSet(Ids(best)) /\ Ids(best) \subseteq Id /\ Ids(best) \subseteq Wanted(table, search)
      /\ \A r \in best : r.id \in Ids(best)
  BY <1>0, <1>2, <1>3, <1>5, IdsFinite DEF Ids, TableTyped, Row
<1>7. /\ search'.scanned = Ids(best) /\ search'.at = "refetch"
      /\ search'.found = search.found
      /\ search'.rows = search.rows
      /\ search'.result = search.result /\ search'.embedding = search.embedding
      /\ search'.superseded = search.superseded /\ search'.always = search.always
      /\ search'.ever = search.ever
  BY <1>0, <1>1 DEF Search
<1>8. search'.crowded = (search.crowded \/ Leaves(most, rows))
  BY <1>0, <1>1 DEF Search
<1>9. search' \in Search
  <2>1. (search.crowded \/ Leaves(most, rows)) \in BOOLEAN
    OBVIOUS
  <2>2. search' = [search EXCEPT !.scanned = Ids(best), !.at = "refetch",
                                 !.crowded = search.crowded \/ Leaves(most, rows)]
    BY <1>1
  <2> QED
    BY <1>0, <1>6, <2>1, <2>2 DEF Search, At
<1>10. SearchTyped'
  BY <1>0, <1>6, <1>7, <1>9 DEF IInv, SearchTyped
<1>11. Wanted(table, search)' = Wanted(table, search)
  BY <1>0, <1>7 DEF Wanted, Visible
<1>12. /\ search.always \subseteq Wanted(table, search)
       /\ Wanted(table, search) \subseteq search.ever
  BY <1>0 DEF IInv, FoundSoFar, Searching
<1>13. FoundSoFar'
  BY <1>6, <1>7, <1>11, <1>12 DEF IInv, FoundSoFar
<1>14. NoneLost'
  <2>1. \A i \in search.always : \E r \in table : r.id = i /\ r \in Visible(table, search)
    BY <1>12, WantedAre DEF Visible
  <2>2. ~search.crowded => \A r \in table : r.id \in search.always => r.id \in search.found \/ r.vector
    BY <1>0 DEF IInv, NoneLost, ToCome
  <2>3. ~search.crowded /\ ~Leaves(most, rows) => search.always \subseteq search.found \cup Ids(best)
    BY <1>3, <1>5, <1>6, <2>1, <2>2
  <2> QED
    BY <1>7, <1>8, <2>3 DEF NoneLost
<1>15. WantedIsFound'
  BY <1>7 DEF WantedIsFound
<1> QED
  BY <1>10, <1>13, <1>14, <1>15

LEMMA RefetchSearch ==
    ASSUME IInv, Refetch
    PROVE  SearchTyped' /\ FoundSoFar' /\ NoneLost' /\ WantedIsFound'
<1>0. /\ search \in Search /\ TableTyped /\ search.at = "refetch"
      /\ table' = table /\ lastRow' = lastRow
      /\ search' = [search EXCEPT !.found = @ \cup (search.scanned \cap Ids(table)), !.at = "rank"]
  BY DEF IInv, SearchTyped, Refetch, Go, storeVars
<1>1. /\ search'.found = search.found \cup (search.scanned \cap Ids(table)) /\ search'.at = "rank"
      /\ search'.rows = search.rows /\ search'.crowded = search.crowded
      /\ search'.scanned = search.scanned
      /\ search'.result = search.result /\ search'.embedding = search.embedding
      /\ search'.superseded = search.superseded /\ search'.always = search.always
      /\ search'.ever = search.ever
  BY <1>0 DEF Search
<1>2. search' \in Search
  BY <1>0 DEF Search, At
<1>3. IsFiniteSet(search'.found)
  <2>1. search.scanned \cap Ids(table) \in SUBSET search.scanned
    OBVIOUS
  <2>2. IsFiniteSet(search.scanned \cap Ids(table))
    BY <2>1, FS_Subset DEF IInv, SearchTyped
  <2>3. IsFiniteSet(search.found)
    BY DEF IInv, SearchTyped
  <2>4. IsFiniteSet(search.found \cup (search.scanned \cap Ids(table)))
    BY <2>2, <2>3, FS_Union
  <2> QED
    BY <1>1, <2>4
<1>4. SearchTyped'
  BY <1>0, <1>1, <1>2, <1>3 DEF IInv, SearchTyped
<1>5. Wanted(table, search)' = Wanted(table, search)
  BY <1>0, <1>1 DEF Wanted, Visible
<1>6. /\ search.always \subseteq Wanted(table, search)
      /\ Wanted(table, search) \subseteq search.ever
  BY <1>0 DEF IInv, FoundSoFar, Searching
<1>7. FoundSoFar'
  BY <1>1, <1>5, <1>6 DEF IInv, FoundSoFar
<1>8. NoneLost'
  BY <1>0, <1>1, <1>6, WantedAre DEF IInv, NoneLost
<1>9. WantedIsFound'
  BY <1>1 DEF WantedIsFound
<1> QED
  BY <1>4, <1>7, <1>8, <1>9

LEMMA RankSearch ==
    ASSUME IInv, Rank
    PROVE  SearchTyped' /\ FoundSoFar' /\ NoneLost' /\ WantedIsFound'
<1>0. /\ search \in Search /\ TableTyped /\ search.at = "rank"
      /\ table' = table /\ lastRow' = lastRow /\ IsFiniteSet(search.found)
  BY DEF IInv, SearchTyped, Rank, Go, storeVars
<1>1. PICK best \in Best(TopK, search.found) :
        search' = [search EXCEPT !.result = Ids(table) \cap best, !.ranked = Cardinality(best),
                                 !.rows = {}, !.scanned = {}, !.found = {}, !.at = "done"]
  BY DEF Rank, Go
<1>2. /\ best \subseteq search.found /\ Cardinality(best) \in Nat
      /\ Leaves(TopK, search.found) => Cardinality(best) = TopK
      /\ ~Leaves(TopK, search.found) => best = search.found
  BY <1>0, Sizes, BestOf
<1>3. /\ search'.found = {} /\ search'.at = "done" /\ search'.rows = {} /\ search'.scanned = {}
      /\ search'.crowded = search.crowded
      /\ search'.result = Ids(table) \cap best /\ search'.ranked = Cardinality(best)
      /\ search'.always = search.always /\ search'.ever = search.ever
  BY <1>0, <1>1 DEF Search
<1>4. Ids(table) \cap best \in SUBSET Id
  BY <1>0, <1>2 DEF Search
<1>5. search' \in Search
  BY <1>0, <1>1, <1>2, <1>4 DEF Search, At
<1>6. SearchTyped'
  BY <1>3, <1>5, FS_EmptySet DEF SearchTyped
<1>7. FoundSoFar'
  BY <1>2, <1>3 DEF IInv, FoundSoFar, Searching
<1>8. NoneLost'
  BY <1>3 DEF NoneLost
<1>9. search.always \subseteq Ids(table) /\ (~search.crowded => search.always \subseteq search.found)
  BY <1>0, WantedAre DEF IInv, NoneLost, FoundSoFar, Searching
<1>10. WantedIsFound'
  BY <1>2, <1>3, <1>9 DEF WantedIsFound
<1> QED
  BY <1>6, <1>7, <1>8, <1>10
-----------------------------------------------------------------------------
THEOREM MemoryInvariant == MemorySpec => []IInv
<1>1. ASSUME MemoryInit PROVE IInv
  <2>1. table = {} /\ index = {} /\ lastRow = 0 /\ search = NoSearch
    BY <1>1 DEF MemoryInit
  <2>2. /\ search.at = "none" /\ search.found = {} /\ search.scanned = {} /\ search.rows = {}
        /\ search.result = {}
    BY <2>1 DEF NoSearch
  <2>3. search \in Search
    BY <2>1 DEF NoSearch, Search, At
  <2>4. TableTyped /\ IndexAgrees
    BY <2>1, FS_EmptySet DEF TableTyped, IndexAgrees
  <2> QED
    BY <2>2, <2>3, <2>4, FS_EmptySet
    DEF IInv, SearchTyped, FoundSoFar, NoneLost, WantedIsFound, Searching
<1>2. ASSUME IInv, [MemoryNext]_memoryVars PROVE IInv'
  <2>1. CASE Write
    BY <1>2, <2>1, WriteKeeps, WriteSearch DEF IInv
  <2>2. CASE Close
    <3>1. TableTyped' /\ IndexAgrees'
      <4>1. CASE table' = {} /\ index' = {} /\ lastRow' = 0
        <5>1. IsFiniteSet(table')
          BY <4>1, FS_EmptySet
        <5> QED
          BY <4>1, <5>1 DEF TableTyped, IndexAgrees
      <4>2. CASE UNCHANGED <<table, index, lastRow>>
        BY <1>2, <4>2 DEF IInv, TableTyped, IndexAgrees
      <4> QED
        BY <2>2, <4>1, <4>2 DEF Close
    <3>2. search' = NoSearch
      BY <2>2 DEF Close
    <3> QED
      BY <3>1, <3>2, NoSearchIsSound DEF IInv
  <2>3. CASE StartSearch \/ Match \/ Lookup \/ Scan \/ Refetch \/ Rank
    <3>1. UNCHANGED storeVars
      BY <2>3 DEF StartSearch, Match, Lookup, Scan, Refetch, Rank, Go
    <3>2. TableTyped' /\ IndexAgrees'
      BY <1>2, <3>1, ReadKeeps DEF IInv
    <3>3. SearchTyped' /\ FoundSoFar' /\ NoneLost' /\ WantedIsFound'
      BY <1>2, <2>3, BeginSearch, MatchSearch, LookupSearch, ScanSearch, RefetchSearch, RankSearch
    <3> QED
      BY <3>2, <3>3 DEF IInv
  <2>4. CASE UNCHANGED memoryVars
    <3>1. UNCHANGED <<storeVars, search>>
      BY <2>4 DEF memoryVars
    <3>2. TableTyped' /\ IndexAgrees'
      BY <1>2, <3>1, ReadKeeps DEF IInv
    <3>3. table' = table /\ lastRow' = lastRow /\ search' = search
      BY <3>1 DEF storeVars
    <3>4. Wanted(table, search)' = Wanted(table, search) /\ Visible(table, search)' = Visible(table, search)
      BY <3>3
    <3>5. SearchTyped' /\ WantedIsFound'
      BY <1>2, <3>3 DEF IInv, SearchTyped, WantedIsFound
    <3>6. FoundSoFar' /\ NoneLost'
      BY <1>2, <3>3, <3>4 DEF IInv, FoundSoFar, NoneLost, ToCome, Searching
    <3> QED
      BY <3>2, <3>5, <3>6 DEF IInv
  <2> QED
    BY <1>2, <2>1, <2>2, <2>3, <2>4 DEF MemoryNext, Write
<1> QED
  BY <1>1, <1>2, PTL DEF MemorySpec

\* The triggers of memory.py keep the index equal to the table, for any calls.
THEOREM IndexAlwaysAgrees == MemorySpec => []IndexAgrees
<1>1. IInv => IndexAgrees
  BY DEF IInv
<1> QED
  BY <1>1, MemoryInvariant, PTL

\* search() returns nothing that was not to be found while it ran.
THEOREM SearchFindsWanted == MemorySpec => []FoundWasWanted
<1>1. IInv => FoundWasWanted
  BY DEF IInv, FoundSoFar, FoundWasWanted
<1> QED
  BY <1>1, MemoryInvariant, PTL

\* search() misses nothing that was to be found throughout, unless it is crowded out.
THEOREM SearchMissesNothing == MemorySpec => []WantedIsFound
<1>1. IInv => WantedIsFound
  BY DEF IInv
<1> QED
  BY <1>1, MemoryInvariant, PTL
=============================================================================
