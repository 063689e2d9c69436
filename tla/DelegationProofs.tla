-------------------------- MODULE DelegationProofs --------------------------
(***************************************************************************)
(* For any number of agents, calls and deaths: what the shared todo list   *)
(* promises a call that is alone, and what a session holds, whatever       *)
(* happens and as long as nothing overlaps.                                *)
(***************************************************************************)
EXTENDS Delegation, SequenceTheorems, FiniteSetTheorems, TLAPS

TodoTyped ==
    /\ todo \in [Agent -> {"start", "idle", "open", "flush", "replace"}]
    /\ DOMAIN plan = Agent /\ DOMAIN data = Inode
    /\ handle \in [Agent -> Inode \cup {0}]
    /\ live \in Inode \cup {0} /\ tmp \in Inode \cup {0}
    /\ live # 0 => live # tmp
    /\ \A a \in Agent : handle[a] # 0 => todo[a] = "flush"
    /\ mixed \in BOOLEAN

\* The temporary file of a call that is alone is its own, and the list stays as
\* it was until the call moves its own in its place.
TodoAlone ==
    ~mixed =>
        /\ \A a, b \in InCall : a = b
        /\ \A a \in Agent : todo[a] = "flush" => tmp # 0 /\ handle[a] = tmp /\ data[tmp] = Empty
        /\ \A a \in Agent : todo[a] = "replace" => tmp # 0 /\ data[tmp] = Whole(plan[a])
        /\ \A a \in InCall : Items = before
-----------------------------------------------------------------------------
\* There is an inode for a file that is opened when all the others are in use.
LEMMA InodesLeft ==
    ASSUME TodoTyped, tmp = 0
    PROVE  Inode \ ({live, tmp} \cup {handle[b] : b \in Agent}) # {}
<1> DEFINE T == {handle[b] : b \in Agent}
           N == Cardinality(Agent)
<1>1. IsFiniteSet(T) /\ Cardinality(T) <= N
  <2>1. handle \in [Agent -> T] /\ \A t \in T : \E b \in Agent : handle[b] = t
    BY DEF TodoTyped
  <2>2. handle \in Surjection(Agent, T)
    BY <2>1 DEF Surjection
  <2> QED
    BY <2>2, FileAssumption, FS_Surjection
<1>2. N \in Nat
  BY FileAssumption, FS_CardinalityType
<1>3. IsFiniteSet(Inode) /\ Cardinality(Inode) = N + 2
  BY <1>2, FS_Interval DEF Inode
<1> DEFINE U == T \cup {live}
<1>4. IsFiniteSet(U) /\ Cardinality(U) <= N + 1
  BY <1>1, <1>2, FS_AddElement, FS_CardinalityType
<1>5. ASSUME Inode \subseteq U PROVE FALSE
  <2>1. Cardinality(Inode) <= Cardinality(U)
    BY <1>4, <1>5, FS_Subset
  <2>2. Cardinality(U) \in Nat
    BY <1>4, FS_CardinalityType
  <2> QED
    BY <1>2, <1>3, <1>4, <2>1, <2>2
<1>6. 0 \notin Inode
  BY <1>2 DEF Inode
<1> QED
  BY <1>5, <1>6

LEMMA InodesAreNotNull == 0 \notin Inode
  BY FileAssumption, FS_CardinalityType DEF Inode

LEMMA Opened ==
    ASSUME TodoTyped, NEW a \in Agent, OpenTmp(a)
    PROVE  \E n \in Inode :
              /\ tmp' = n /\ handle' = [handle EXCEPT ![a] = n]
              /\ data' = [data EXCEPT ![n] = Empty] /\ live' = live
              /\ n # live
<1> DEFINE unused == Inode \ ({live, tmp} \cup {handle[b] : b \in Agent})
           n == IF tmp # 0 THEN tmp ELSE CHOOSE m \in unused : TRUE
<1>1. n \in Inode /\ n # live
  <2>1. CASE tmp # 0
    BY <2>1, InodesAreNotNull DEF TodoTyped
  <2>2. CASE tmp = 0
    BY <2>2, InodesLeft
  <2> QED
    BY <2>1, <2>2
<1>2. /\ tmp' = n /\ handle' = [handle EXCEPT ![a] = n]
      /\ data' = [data EXCEPT ![n] = Empty] /\ live' = live
  BY DEF OpenTmp
<1> HIDE DEF n
<1> QED
  BY <1>1, <1>2
-----------------------------------------------------------------------------
\* A call begins: it is alone, or the calls are mixed.
LEMMA BeginKeeps ==
    ASSUME TodoTyped, NEW a \in Agent, todo[a] \in {"start", "idle"}, NEW items, Begin(a, items)
    PROVE  TodoTyped' /\ TodoAlone'
<1>1. /\ UNCHANGED <<live, tmp, data, handle>> /\ Items' = Items
      /\ todo' = [todo EXCEPT ![a] = "open"] /\ plan' = [plan EXCEPT ![a] = items]
      /\ mixed' = (InCall # {})
  BY DEF Begin, fileVars, Items
<1>2. TodoTyped'
  BY <1>1 DEF TodoTyped
<1>3. ASSUME ~mixed' PROVE InCall' = {a} /\ Items' = before'
  BY <1>1, <1>3 DEF Begin, InCall, TodoTyped
<1>4. ASSUME ~mixed', NEW b \in Agent PROVE todo'[b] \notin {"flush", "replace"}
  BY <1>1, <1>3, <1>4 DEF InCall, TodoTyped
<1> QED
  BY <1>2, <1>3, <1>4 DEF TodoAlone

LEMMA CallKeeps == ASSUME TodoTyped, NEW a \in Agent, TodoCall(a) PROVE TodoTyped' /\ TodoAlone'
<1>1. \E items : Change(a, items)
  BY DEF TodoCall, NewItem, Update, Delete, Reorder, Clear, SetItems
<1> QED
  BY <1>1, BeginKeeps DEF Change

LEMMA EnsureKeeps ==
    ASSUME TodoTyped, TodoAlone, NEW a \in Agent, Ensure(a) PROVE TodoTyped' /\ TodoAlone'
<1>1. CASE live = 0 /\ Begin(a, <<>>)
  BY <1>1, BeginKeeps DEF Ensure
<1>2. CASE /\ live # 0 /\ todo' = [todo EXCEPT ![a] = "idle"]
           /\ UNCHANGED <<fileVars, plan, before, mixed>>
  <2>1. todo[a] = "start" /\ UNCHANGED <<live, tmp, data, handle>> /\ Items' = Items
    BY <1>2 DEF Ensure, fileVars, Items
  <2>2. InCall' = InCall
    BY <1>2, <2>1 DEF InCall, TodoTyped
  <2>3. TodoTyped'
    BY <1>2, <2>1 DEF TodoTyped
  <2>4. TodoAlone'
    BY <1>2, <2>1, <2>2 DEF TodoAlone, TodoTyped
  <2> QED
    BY <2>3, <2>4
<1> QED
  BY <1>1, <1>2 DEF Ensure

\* While a is in a call that is alone nobody else is in one.
LEMMA NobodyElse ==
    ASSUME TodoTyped, TodoAlone, ~mixed, NEW a \in InCall
    PROVE  \A b \in Agent \ {a} : todo[b] \in {"start", "idle"} /\ handle[b] = 0
  BY DEF TodoTyped, TodoAlone, InCall

LEMMA OpenKeeps ==
    ASSUME TodoTyped, TodoAlone, NEW a \in Agent, Open(a) PROVE TodoTyped' /\ TodoAlone'
<1>1. PICK n \in Inode :
         /\ tmp' = n /\ handle' = [handle EXCEPT ![a] = n]
         /\ data' = [data EXCEPT ![n] = Empty] /\ live' = live /\ n # live
  BY Opened DEF Open
<1>2. /\ todo[a] = "open" /\ todo' = [todo EXCEPT ![a] = "flush"]
      /\ UNCHANGED <<plan, before, mixed>>
  BY DEF Open
<1>3. TodoTyped'
  BY <1>1, <1>2 DEF TodoTyped
<1>4. ASSUME ~mixed PROVE InCall' = {a} /\ a \in InCall /\ \A b \in Agent \ {a} : todo'[b] \in {"start", "idle"}
  BY <1>2, <1>4, NobodyElse DEF InCall, TodoTyped
<1>5. Items' = Items
  BY <1>1 DEF Items, TodoTyped
<1>6. n # 0
  BY InodesAreNotNull
<1>7. ASSUME ~mixed PROVE /\ \A b \in Agent : todo'[b] = "flush" => tmp' # 0 /\ handle'[b] = tmp' /\ data'[tmp'] = Empty
                          /\ \A b \in Agent : todo'[b] # "replace"
  BY <1>1, <1>2, <1>4, <1>6, <1>7 DEF TodoTyped
<1>8. ASSUME ~mixed PROVE Items' = before'
  BY <1>2, <1>4, <1>5, <1>8 DEF TodoAlone
<1> QED
  BY <1>2, <1>3, <1>4, <1>7, <1>8 DEF TodoAlone

LEMMA FlushKeeps ==
    ASSUME TodoTyped, TodoAlone, NEW a \in Agent, Flush(a) PROVE TodoTyped' /\ TodoAlone'
<1>1. /\ todo[a] = "flush" /\ todo' = [todo EXCEPT ![a] = "replace"]
      /\ handle' = [handle EXCEPT ![a] = 0]
      /\ UNCHANGED <<live, tmp, plan, before, mixed>>
  BY DEF Flush, WriteTmp
<1>2. DOMAIN data' = Inode /\ \A n \in Inode \ {handle[a]} : data'[n] = data[n]
  BY DEF Flush, WriteTmp, TodoTyped
<1>3. TodoTyped'
  BY <1>1, <1>2 DEF TodoTyped
<1>4. SUFFICES ASSUME ~mixed PROVE TodoAlone'
  BY <1>1, <1>3 DEF TodoAlone
<1>5. a \in InCall /\ tmp # 0 /\ handle[a] = tmp /\ data[tmp] = Empty /\ tmp \in Inode
  BY <1>1, <1>4 DEF InCall, TodoAlone, TodoTyped
<1>6. \A b \in Agent \ {a} : todo[b] \in {"start", "idle"} /\ handle[b] = 0
  BY <1>4, <1>5, NobodyElse
<1>7. data' = [data EXCEPT ![tmp] = Whole(plan[a])]
  <2>1. ~(data[handle[a]] # Empty \/ \E b \in Agent \ {a} : handle[b] = handle[a])
    BY <1>5, <1>6
  <2> QED
    BY <1>5, <2>1 DEF Flush, WriteTmp
<1>8. InCall' = {a}
  BY <1>1, <1>6 DEF InCall, TodoTyped
<1>9. Items' = Items
  BY <1>1, <1>7 DEF Items, TodoTyped
<1>10. Items = before
  BY <1>4, <1>5 DEF TodoAlone
<1>11. data'[tmp'] = Whole(plan'[a]) /\ tmp' # 0
  BY <1>1, <1>5, <1>7 DEF TodoTyped
<1>12. \A b \in Agent : todo'[b] # "flush" /\ (todo'[b] = "replace" => b = a)
  BY <1>1, <1>6 DEF TodoTyped
<1> QED
  BY <1>1, <1>8, <1>9, <1>10, <1>11, <1>12 DEF TodoAlone

LEMMA ReplaceKeeps ==
    ASSUME TodoTyped, TodoAlone, NEW a \in Agent, Replace(a) PROVE TodoTyped' /\ TodoAlone'
<1>1. /\ todo[a] = "replace" /\ todo' = [todo EXCEPT ![a] = "idle"]
      /\ plan' = [plan EXCEPT ![a] = <<>>] /\ UNCHANGED <<before, mixed, handle>>
  BY DEF Replace, EndCall, Move, MoveFails, fileVars
<1>2. DOMAIN data' = Inode /\ live' \in Inode \cup {0} /\ tmp' = 0
  BY DEF Replace, Move, MoveFails, fileVars, TodoTyped
<1>3. TodoTyped'
  BY <1>1, <1>2 DEF TodoTyped
<1>4. ASSUME ~mixed PROVE \A b \in Agent : todo'[b] \in {"start", "idle"}
  <2>1. a \in InCall
    BY <1>1 DEF InCall
  <2> QED
    BY <1>1, <1>4, <2>1, NobodyElse DEF TodoTyped
<1> QED
  BY <1>1, <1>3, <1>4 DEF TodoAlone, InCall

LEMMA TodoDiesKeeps ==
    ASSUME TodoTyped, TodoAlone, NEW a \in Agent, TodoDies(a) PROVE TodoTyped' /\ TodoAlone'
<1>1. /\ todo' = [todo EXCEPT ![a] = "start"] /\ plan' = [plan EXCEPT ![a] = <<>>]
      /\ handle' = [handle EXCEPT ![a] = 0] /\ UNCHANGED <<live, tmp, data, before, mixed>>
  BY DEF TodoDies, EndCall, CloseAll
<1>2. TodoTyped'
  BY <1>1 DEF TodoTyped
<1>3. InCall' = InCall \ {a} /\ Items' = Items
  BY <1>1 DEF InCall, Items, TodoTyped
<1>4. \A b \in Agent : todo'[b] # "start" => b # a /\ todo'[b] = todo[b] /\ handle'[b] = handle[b] /\ plan'[b] = plan[b]
  BY <1>1 DEF TodoTyped
<1> QED
  BY <1>1, <1>2, <1>3, <1>4 DEF TodoAlone
-----------------------------------------------------------------------------
LEMMA TodoSteps ==
    ASSUME TodoTyped, TodoAlone, [Next]_vars PROVE TodoTyped' /\ TodoAlone'
<1>1. CASE UNCHANGED todoVars
  BY <1>1 DEF todoVars, fileVars, TodoTyped, TodoAlone, InCall, Items
<1>2. ASSUME NEW a \in Agent, UseTodo(a) PROVE TodoTyped' /\ TodoAlone'
  BY <1>2, CallKeeps, EnsureKeeps, OpenKeeps, FlushKeeps, ReplaceKeeps DEF UseTodo, TodoStep
<1>3. ASSUME NEW a \in Agent, Dies(a) PROVE TodoTyped' /\ TodoAlone'
  BY <1>3, TodoDiesKeeps DEF Dies
<1>4. ASSUME NEW a \in Agent, UNCHANGED vars \/ (\E x \in Exchange, how \in {"consult", "dispatch"} : Call(a, x, how))
                   \/ LoopEnds(a) \/ DispatchRaises(a) \/ OpenSession(a) \/ WriteSession(a)
      PROVE  UNCHANGED todoVars
  BY <1>4 DEF vars, Call, LoopEnds, DispatchRaises, OpenSession, WriteSession
<1>5. UNCHANGED vars => UNCHANGED todoVars
  BY DEF vars
<1> QED
  BY <1>1, <1>2, <1>3, <1>4, <1>5 DEF Next

LEMMA TodoInitial == Init => TodoTyped /\ TodoAlone
<1> SUFFICES ASSUME Init PROVE TodoTyped /\ TodoAlone
  OBVIOUS
<1> USE DEF Init, TodoInit, FileInit
<1>1. TodoTyped
  BY DEF TodoTyped
<1>2. TodoAlone
  BY DEF TodoAlone, InCall
<1> QED
  BY <1>1, <1>2

\* "Atomically write the JSON file": whatever the agents do and whoever dies, a
\* call of the todo tool that no other call overlaps takes effect as a whole or
\* not at all, and finds its own temporary file when it moves it.
THEOREM TodoCallsAloneAreWhole == Spec => []AloneIsAllOrNothing
<1>1. TodoAlone => AloneIsAllOrNothing
  BY DEF TodoAlone, AloneIsAllOrNothing
<1> QED
  BY <1>1, TodoInitial, TodoSteps, PTL DEF Spec
-----------------------------------------------------------------------------
(***************************************************************************)
(* The session.  A history Knows the calls told, T, when it is made of     *)
(* whole exchanges, all of them told and in the order of T.                *)
(***************************************************************************)
Message == [role : {"User", "Agent"}, of : Exchange]
MadeOf(h, e) ==
    /\ Len(h) = 2 * Len(e)
    /\ \A i \in 1..Len(e) : /\ h[2 * i - 1] = [role |-> "User", of |-> e[i]]
                            /\ h[2 * i] = [role |-> "Agent", of |-> e[i]]
InOrder(e, T) ==
    /\ \A i \in 1..Len(e) : \E m \in 1..Len(T) : T[m] = e[i]
    /\ \A i, j \in 1..Len(e) : i < j =>
          \E m, n \in 1..Len(T) : m < n /\ T[m] = e[i] /\ T[n] = e[j]
Knows(h, T) ==
    /\ h \in Seq(Message)
    /\ \E e \in Seq(Exchange) : MadeOf(h, e) /\ InOrder(e, T)

\* T2 has what T has, in the same order.
Later(T, T2) ==
    \E f \in [1..Len(T) -> 1..Len(T2)] :
       /\ \A m \in 1..Len(T) : T2[f[m]] = T[m]
       /\ \A m, n \in 1..Len(T) : m < n => f[m] < f[n]

LEMMA KnowsNothing == ASSUME NEW T \in Seq(Exchange) PROVE Knows(<<>>, T)
<1>1. <<>> \in Seq(Message) /\ <<>> \in Seq(Exchange) /\ Len(<<>>) = 0
  OBVIOUS
<1>2. MadeOf(<<>>, <<>>) /\ InOrder(<<>>, T)
  BY <1>1 DEF MadeOf, InOrder
<1> QED
  BY <1>1, <1>2 DEF Knows

LEMMA KnowsLater ==
    ASSUME NEW T \in Seq(Exchange), NEW T2 \in Seq(Exchange), Later(T, T2),
           NEW h, Knows(h, T)
    PROVE  Knows(h, T2)
<1>1. PICK e \in Seq(Exchange) : MadeOf(h, e) /\ InOrder(e, T)
  BY DEF Knows
<1>2. PICK f \in [1..Len(T) -> 1..Len(T2)] :
         /\ \A m \in 1..Len(T) : T2[f[m]] = T[m]
         /\ \A m, n \in 1..Len(T) : m < n => f[m] < f[n]
  BY DEF Later
<1>3. ASSUME NEW i \in 1..Len(e) PROVE \E m \in 1..Len(T2) : T2[m] = e[i]
  <2>1. PICK m \in 1..Len(T) : T[m] = e[i]
    BY <1>1 DEF InOrder
  <2>2. f[m] \in 1..Len(T2) /\ T2[f[m]] = e[i]
    BY <1>2, <2>1
  <2> QED
    BY <2>2
<1>4. ASSUME NEW i \in 1..Len(e), NEW j \in 1..Len(e), i < j
      PROVE  \E m, n \in 1..Len(T2) : m < n /\ T2[m] = e[i] /\ T2[n] = e[j]
  <2>1. PICK m, n \in 1..Len(T) : m < n /\ T[m] = e[i] /\ T[n] = e[j]
    BY <1>1, <1>4 DEF InOrder
  <2>2. f[m] \in 1..Len(T2) /\ f[n] \in 1..Len(T2) /\ f[m] < f[n]
        /\ T2[f[m]] = e[i] /\ T2[f[n]] = e[j]
    BY <1>2, <2>1
  <2> QED
    BY <2>2
<1> QED
  BY <1>1, <1>3, <1>4 DEF Knows, InOrder

LEMMA AppendLater ==
    ASSUME NEW T \in Seq(Exchange), NEW x \in Exchange PROVE Later(T, Append(T, x))
<1> DEFINE f == [m \in 1..Len(T) |-> m]
           T2 == Append(T, x)
<1>1. Len(T) \in Nat /\ Len(T2) = Len(T) + 1 /\ \A m \in 1..Len(T) : T2[m] = T[m]
  OBVIOUS
<1> HIDE DEF T2
<1>2. f \in [1..Len(T) -> 1..Len(T2)]
  BY <1>1
<1>3. \A m \in 1..Len(T) : f[m] = m
  OBVIOUS
<1>4. \A m, n \in 1..Len(T) : m < n => f[m] < f[n]
  BY <1>3
<1>5. \A m \in 1..Len(T) : T2[f[m]] = T[m]
  BY <1>1, <1>3
<1> HIDE DEF f
<1>6. Later(T, T2)
  BY <1>2, <1>4, <1>5 DEF Later
<1> QED
  BY <1>6 DEF T2

LEMMA InsertLater ==
    ASSUME NEW T \in Seq(Exchange), NEW x \in Exchange, NEW g \in Exchange
    PROVE  Later(Append(T, g), Append(Append(T, x), g))
<1> DEFINE A == Append(T, g)
           B == Append(Append(T, x), g)
           f == [m \in 1..Len(A) |-> IF m <= Len(T) THEN m ELSE m + 1]
<1>1. /\ Len(T) \in Nat /\ Len(A) = Len(T) + 1 /\ Len(B) = Len(T) + 2
      /\ \A m \in 1..Len(T) : A[m] = T[m] /\ B[m] = T[m]
      /\ A[Len(T) + 1] = g /\ B[Len(T) + 2] = g
  <2>1. Append(T, x) \in Seq(Exchange) /\ Len(Append(T, x)) = Len(T) + 1
        /\ \A m \in 1..Len(T) : Append(T, x)[m] = T[m]
    OBVIOUS
  <2> DEFINE C == Append(T, x)
  <2> HIDE DEF C
  <2>2. Len(Append(C, g)) = Len(C) + 1 /\ Append(C, g)[Len(C) + 1] = g
        /\ \A m \in 1..Len(C) : Append(C, g)[m] = C[m]
    BY <2>1 DEF C
  <2> QED
    BY <2>1, <2>2 DEF C
<1> HIDE DEF A, B
<1>2. f \in [1..Len(A) -> 1..Len(B)]
  BY <1>1
<1>3. \A m \in 1..Len(A) : B[f[m]] = A[m]
  BY <1>1
<1>4. \A m, n \in 1..Len(A) : m < n => f[m] < f[n]
  BY <1>1
<1> HIDE DEF f
<1>5. Later(A, B)
  BY <1>2, <1>3, <1>4 DEF Later
<1> QED
  BY <1>5 DEF A, B

LEMMA TwoMore ==
    ASSUME NEW S, NEW h \in Seq(S), NEW b \in Seq(S), Len(b) = 2
    PROVE  /\ h \o b \in Seq(S) /\ Len(h \o b) = Len(h) + 2
           /\ \A k \in 1..Len(h) : (h \o b)[k] = h[k]
           /\ (h \o b)[Len(h) + 1] = b[1] /\ (h \o b)[Len(h) + 2] = b[2]
<1>1. /\ h \o b \in Seq(S) /\ Len(h \o b) = Len(h) + Len(b)
      /\ \A k \in 1..(Len(h) + Len(b)) : (h \o b)[k] = IF k <= Len(h) THEN h[k] ELSE b[k - Len(h)]
  BY ConcatProperties
<1>2. Len(h) \in Nat
  OBVIOUS
<1> DEFINE c == h \o b
<1> HIDE DEF c
<1>3. /\ c \in Seq(S) /\ Len(c) = Len(h) + 2
      /\ \A k \in 1..Len(h) + 2 : c[k] = IF k <= Len(h) THEN h[k] ELSE b[k - Len(h)]
  BY <1>1 DEF c
<1>4. \A k \in 1..Len(h) : c[k] = h[k]
  BY <1>2, <1>3
<1>5. c[Len(h) + 1] = b[1] /\ c[Len(h) + 2] = b[2]
  BY <1>2, <1>3
<1> QED
  BY <1>3, <1>4, <1>5 DEF c

\* The exchange that is told last, behind what was known before it.
LEMMA KnowsMore ==
    ASSUME NEW T \in Seq(Exchange), NEW x \in Exchange, NEW h, Knows(h, T)
    PROVE  Knows(h \o Messages(x), Append(T, x))
<1>1. PICK e \in Seq(Exchange) : MadeOf(h, e) /\ InOrder(e, T)
  BY DEF Knows
<1> DEFINE e2 == Append(e, x)
           T2 == Append(T, x)
           h2 == h \o Messages(x)
<1>2. /\ Messages(x) \in Seq(Message) /\ Len(Messages(x)) = 2
      /\ Messages(x)[1] = [role |-> "User", of |-> x]
      /\ Messages(x)[2] = [role |-> "Agent", of |-> x]
  BY DEF Messages, Message
<1>3. h \in Seq(Message)
  BY DEF Knows
<1>4. /\ h2 \in Seq(Message) /\ Len(h2) = Len(h) + 2
      /\ \A k \in 1..Len(h) : h2[k] = h[k]
      /\ h2[Len(h) + 1] = Messages(x)[1] /\ h2[Len(h) + 2] = Messages(x)[2]
  BY <1>2, <1>3, TwoMore
<1>5. /\ e2 \in Seq(Exchange) /\ Len(e2) = Len(e) + 1 /\ e2[Len(e) + 1] = x
      /\ \A i \in 1..Len(e) : e2[i] = e[i]
  OBVIOUS
<1>6. /\ Len(T2) = Len(T) + 1 /\ T2[Len(T) + 1] = x /\ Len(T) \in Nat
      /\ \A m \in 1..Len(T) : T2[m] = T[m]
  OBVIOUS
<1> HIDE DEF e2, T2, h2
<1>7. MadeOf(h2, e2)
  <2>1. Len(h) = 2 * Len(e) /\ Len(e) \in Nat
    BY <1>1 DEF MadeOf
  <2>2. Len(h2) = 2 * Len(e2)
    BY <2>1, <1>4, <1>5
  <2>3. ASSUME NEW i \in 1..Len(e)
        PROVE  h2[2 * i - 1] = [role |-> "User", of |-> e2[i]]
               /\ h2[2 * i] = [role |-> "Agent", of |-> e2[i]]
    <3>1. 2 * i - 1 \in 1..Len(h) /\ 2 * i \in 1..Len(h)
      BY <2>1
    <3> QED
      BY <1>1, <1>4, <1>5, <3>1 DEF MadeOf
  <2>4. h2[2 * (Len(e) + 1) - 1] = [role |-> "User", of |-> x]
        /\ h2[2 * (Len(e) + 1)] = [role |-> "Agent", of |-> x]
    <3>1. 2 * (Len(e) + 1) - 1 = Len(h) + 1 /\ 2 * (Len(e) + 1) = Len(h) + 2
      BY <2>1
    <3> QED
      BY <1>2, <1>4, <3>1
  <2>5. ASSUME NEW i \in 1..Len(e2)
        PROVE  h2[2 * i - 1] = [role |-> "User", of |-> e2[i]]
               /\ h2[2 * i] = [role |-> "Agent", of |-> e2[i]]
    <3>1. i \in 1..Len(e) \/ i = Len(e) + 1
      BY <1>5, <2>1
    <3> QED
      BY <1>5, <2>3, <2>4, <3>1
  <2> QED
    BY <2>2, <2>5 DEF MadeOf
<1>8. InOrder(e2, T2)
  <2>1. ASSUME NEW i \in 1..Len(e)
        PROVE  \E m \in 1..Len(T) : T2[m] = e2[i]
    BY <1>1, <1>5, <1>6 DEF InOrder
  <2>2. ASSUME NEW i \in 1..Len(e2) PROVE \E m \in 1..Len(T2) : T2[m] = e2[i]
    <3>1. CASE i \in 1..Len(e)
      BY <3>1, <2>1, <1>6
    <3>2. CASE i = Len(e) + 1
      BY <3>2, <1>5, <1>6
    <3> QED
      BY <3>1, <3>2, <1>5
  <2>3. ASSUME NEW i \in 1..Len(e2), NEW j \in 1..Len(e2), i < j
        PROVE  \E m, n \in 1..Len(T2) : m < n /\ T2[m] = e2[i] /\ T2[n] = e2[j]
    <3>1. i \in 1..Len(e) /\ Len(e) \in Nat
      BY <2>3, <1>5
    <3>2. CASE j \in 1..Len(e)
      <4>1. PICK m, n \in 1..Len(T) : m < n /\ T[m] = e[i] /\ T[n] = e[j]
        BY <1>1, <2>3, <3>1, <3>2 DEF InOrder
      <4>2. m \in 1..Len(T2) /\ n \in 1..Len(T2) /\ m < n
        BY <4>1, <1>6
      <4>3. T2[m] = e[i] /\ T2[n] = e[j]
        BY <4>1, <1>6
      <4>4. e[i] = e2[i] /\ e[j] = e2[j]
        BY <1>5, <3>1, <3>2
      <4> QED
        BY <4>2, <4>3, <4>4
    <3>3. CASE j = Len(e) + 1
      <4>1. PICK m \in 1..Len(T) : T2[m] = e2[i]
        BY <2>1, <3>1
      <4>2. m \in 1..Len(T2) /\ Len(T) + 1 \in 1..Len(T2) /\ m < Len(T) + 1
            /\ T2[Len(T) + 1] = e2[j]
        BY <3>3, <1>5, <1>6, <4>1
      <4> QED
        BY <4>1, <4>2
    <3>4. j \in 1..Len(e) \/ j = Len(e) + 1
      BY <3>1, <1>5
    <3> QED
      BY <3>2, <3>3, <3>4
  <2> QED
    BY <2>2, <2>3 DEF InOrder
<1>9. Knows(h2, T2)
  BY <1>4, <1>5, <1>7, <1>8 DEF Knows
<1> QED
  BY <1>9 DEF h2, T2
-----------------------------------------------------------------------------
LEMMA KeptIsEven == \E n \in Nat : n > 0 /\ Kept = 2 * n
<1>1. Kept \in Nat /\ Kept # 0 /\ Kept % 2 = 0
  BY DelegationAssumption
<1>2. Kept \div 2 \in Nat /\ Kept = 2 * (Kept \div 2)
  BY <1>1
<1> QED
  BY <1>1, <1>2

\* What is kept of a history.
LEMMA KeptPart ==
    ASSUME NEW h \in Seq(Message)
    PROVE  /\ LastKept(h) \in Seq(Message)
           /\ Len(LastKept(h)) = IF Len(h) <= Kept THEN Len(h) ELSE Kept
           /\ \A k \in 1..Len(LastKept(h)) : LastKept(h)[k] = h[k + (Len(h) - Len(LastKept(h)))]
<1>1. Kept \in Nat /\ Len(h) \in Nat
  BY DelegationAssumption
<1>2. CASE Len(h) <= Kept
  BY <1>1, <1>2 DEF LastKept
<1>3. CASE Len(h) > Kept
  <2>1. LastKept(h) = SubSeq(h, Len(h) - Kept + 1, Len(h))
    BY <1>1, <1>3 DEF LastKept
  <2>2. Len(h) - Kept + 1 \in 1..Len(h) + 1
    BY <1>1, <1>3
  <2>3. /\ SubSeq(h, Len(h) - Kept + 1, Len(h)) \in Seq(Message)
        /\ Len(SubSeq(h, Len(h) - Kept + 1, Len(h))) = Kept
        /\ \A k \in 1..Kept : SubSeq(h, Len(h) - Kept + 1, Len(h))[k] = h[k + (Len(h) - Kept)]
    BY <1>1, <1>3, <2>2
  <2> QED
    BY <1>1, <1>3, <2>1, <2>3
<1> QED
  BY <1>1, <1>2, <1>3

LEMMA KnowsKept ==
    ASSUME NEW T \in Seq(Exchange), NEW h, Knows(h, T) PROVE Knows(LastKept(h), T)
<1>1. PICK e \in Seq(Exchange) : MadeOf(h, e) /\ InOrder(e, T)
  BY DEF Knows
<1>2. h \in Seq(Message) /\ Len(h) = 2 * Len(e) /\ Len(e) \in Nat
  BY <1>1 DEF Knows, MadeOf
<1>3. CASE Len(h) <= Kept
  BY <1>3 DEF LastKept
<1>4. CASE ~(Len(h) <= Kept)
  <2>1. PICK K \in Nat : K > 0 /\ Kept = 2 * K
    BY KeptIsEven
  <2> DEFINE d == Len(e) - K
             e2 == SubSeq(e, d + 1, Len(e))
             h2 == LastKept(h)
  <2>2. d \in Nat /\ Len(e) = d + K /\ Len(h) - Kept = 2 * d
    BY <1>2, <1>4, <2>1
  <2>3. e2 \in Seq(Exchange) /\ Len(e2) = K /\ \A i \in 1..K : e2[i] = e[i + d]
    BY <1>2, <2>1, <2>2
  <2>4. h2 \in Seq(Message) /\ Len(h2) = 2 * K /\ \A k \in 1..2 * K : h2[k] = h[k + 2 * d]
    BY <1>2, <1>4, <2>1, <2>2, KeptPart
  <2> HIDE DEF d, e2, h2
  <2>5. MadeOf(h2, e2)
    <3>1. ASSUME NEW i \in 1..K
          PROVE  h2[2 * i - 1] = [role |-> "User", of |-> e2[i]]
                 /\ h2[2 * i] = [role |-> "Agent", of |-> e2[i]]
      <4>1. 2 * i - 1 \in 1..2 * K /\ 2 * i \in 1..2 * K /\ i + d \in 1..Len(e)
        BY <2>2
      <4>2. h2[2 * i - 1] = h[2 * (i + d) - 1] /\ h2[2 * i] = h[2 * (i + d)]
        <5>1. (2 * i - 1) + 2 * d = 2 * (i + d) - 1 /\ 2 * i + 2 * d = 2 * (i + d)
          BY <2>2
        <5> QED
          BY <4>1, <5>1, <2>4
      <4> QED
        BY <1>1, <2>3, <4>1, <4>2 DEF MadeOf
    <3> QED
      BY <3>1, <2>3, <2>4 DEF MadeOf
  <2>6. InOrder(e2, T)
    <3>1. ASSUME NEW i \in 1..K PROVE i + d \in 1..Len(e) /\ e2[i] = e[i + d]
      BY <2>1, <2>2, <2>3
    <3>2. ASSUME NEW i \in 1..Len(e2) PROVE \E m \in 1..Len(T) : T[m] = e2[i]
      <4>1. i + d \in 1..Len(e) /\ e2[i] = e[i + d]
        BY <2>3, <3>1
      <4> QED
        BY <1>1, <4>1 DEF InOrder
    <3>3. ASSUME NEW i \in 1..Len(e2), NEW j \in 1..Len(e2), i < j
          PROVE  \E m, n \in 1..Len(T) : m < n /\ T[m] = e2[i] /\ T[n] = e2[j]
      <4>1. i + d \in 1..Len(e) /\ j + d \in 1..Len(e) /\ i + d < j + d
            /\ e2[i] = e[i + d] /\ e2[j] = e[j + d]
        BY <2>1, <2>2, <2>3, <3>1, <3>3
      <4> QED
        BY <1>1, <4>1 DEF InOrder
    <3> QED
      BY <3>2, <3>3 DEF InOrder
  <2>7. Knows(h2, T)
    BY <2>3, <2>4, <2>5, <2>6 DEF Knows
  <2> QED
    BY <2>7 DEF h2
<1> QED
  BY <1>3, <1>4
-----------------------------------------------------------------------------
\* Every call is for an exchange of its own, and is told once.
SessionTyped ==
    /\ pc \in [Agent -> {"idle", "consult", "dispatch", "open", "write"}]
    /\ DOMAIN goal = Agent /\ DOMAIN history = Agent
    /\ begun \subseteq Exchange /\ told \in Seq(Exchange)
    /\ crossed \in BOOLEAN /\ hurt \in BOOLEAN
    /\ \A i \in 1..Len(told) : told[i] \in begun
    /\ \A i, j \in 1..Len(told) : told[i] = told[j] => i = j
    /\ \A a \in Agent : pc[a] # "idle" =>
          goal[a] \in begun /\ \A i \in 1..Len(told) : told[i] # goal[a]
    /\ \A a, b \in Agent : pc[a] # "idle" /\ pc[b] # "idle" /\ goal[a] = goal[b] => a = b

\* What anybody has of the session is known: the file, what a call has read, and
\* what it is about to write, which has its own exchange at the end.
OnlyKnown ==
    /\ Knows(file.history, told)
    /\ \A a \in Agent : pc[a] \in {"consult", "dispatch"} => Knows(history[a], told)
    /\ \A a \in Agent : pc[a] \in {"open", "write"} => Knows(history[a], Append(told, goal[a]))

LEMMA AppendFacts ==
    ASSUME NEW T \in Seq(Exchange), NEW x \in Exchange
    PROVE  /\ Append(T, x) \in Seq(Exchange) /\ Len(Append(T, x)) = Len(T) + 1
           /\ Append(T, x)[Len(T) + 1] = x /\ \A i \in 1..Len(T) : Append(T, x)[i] = T[i]
           /\ Len(T) \in Nat
  OBVIOUS

LEMMA BackFacts ==
    ASSUME SessionTyped, NEW a \in Agent, Back(a)
    PROVE  /\ pc' \in [Agent -> {"idle", "consult", "dispatch", "open", "write"}]
           /\ DOMAIN goal' = Agent /\ DOMAIN history' = Agent /\ pc'[a] = "idle"
           /\ \A b \in Agent \ {a} : pc'[b] = pc[b] /\ goal'[b] = goal[b] /\ history'[b] = history[b]
  BY DEF SessionTyped, Back

\* A call ends without being told.
LEMMA BackKeeps ==
    ASSUME SessionTyped, OnlyKnown, NEW a \in Agent, Back(a), UNCHANGED <<file, begun, told, crossed>>,
           hurt' \in BOOLEAN
    PROVE  SessionTyped' /\ OnlyKnown'
<1>1. SessionTyped'
  BY BackFacts DEF SessionTyped
<1>2. OnlyKnown'
  BY BackFacts DEF OnlyKnown
<1> QED
  BY <1>1, <1>2

LEMMA SessionCall ==
    ASSUME SessionTyped, OnlyKnown, NEW a \in Agent, NEW x \in Exchange,
           NEW how \in {"consult", "dispatch"}, Call(a, x, how)
    PROVE  SessionTyped' /\ OnlyKnown'
<1>1. /\ pc[a] = "idle" /\ x \notin begun /\ begun' = begun \cup {x} /\ crossed' \in BOOLEAN
      /\ UNCHANGED <<file, told, hurt>>
  BY DEF Call
<1>2. CASE UNCHANGED <<pc, goal, history>>
  <2>1. SessionTyped'
    BY <1>1, <1>2 DEF SessionTyped
  <2>2. OnlyKnown'
    BY <1>1, <1>2 DEF OnlyKnown
  <2> QED
    BY <2>1, <2>2
<1>3. CASE /\ pc' = [pc EXCEPT ![a] = how] /\ goal' = [goal EXCEPT ![a] = x]
           /\ history' = [history EXCEPT ![a] = file.history]
  <2>1. /\ pc' \in [Agent -> {"idle", "consult", "dispatch", "open", "write"}]
        /\ DOMAIN goal' = Agent /\ DOMAIN history' = Agent
        /\ pc'[a] = how /\ goal'[a] = x /\ history'[a] = file.history
        /\ \A b \in Agent \ {a} : pc'[b] = pc[b] /\ goal'[b] = goal[b] /\ history'[b] = history[b]
    BY <1>3 DEF SessionTyped
  <2>2. \A i \in 1..Len(told) : told[i] # x
    BY <1>1 DEF SessionTyped
  <2>3. SessionTyped'
    BY <1>1, <2>1, <2>2 DEF SessionTyped
  <2>4. OnlyKnown'
    BY <1>1, <2>1 DEF OnlyKnown
  <2> QED
    BY <2>3, <2>4
<1> QED
  BY <1>2, <1>3 DEF Call

LEMMA SessionLoopEnds ==
    ASSUME SessionTyped, OnlyKnown, NEW a \in Agent, LoopEnds(a)
    PROVE  SessionTyped' /\ OnlyKnown'
<1>1. /\ pc[a] = "consult" /\ UNCHANGED <<file, goal, begun, told, crossed, hurt>>
      /\ pc' = [pc EXCEPT ![a] = "open"]
      /\ DOMAIN history' = Agent /\ history'[a] = history[a] \o Messages(goal[a])
      /\ \A b \in Agent \ {a} : history'[b] = history[b]
  BY DEF LoopEnds, SessionTyped
<1>2. SessionTyped'
  BY <1>1 DEF SessionTyped
<1>3. told \in Seq(Exchange) /\ goal[a] \in Exchange /\ Knows(history[a], told)
  BY <1>1 DEF SessionTyped, OnlyKnown
<1>4. Knows(history'[a], Append(told, goal[a]))
  BY <1>1, <1>3, KnowsMore
<1>5. OnlyKnown'
  BY <1>1, <1>4 DEF OnlyKnown, SessionTyped
<1> QED
  BY <1>2, <1>5

LEMMA SessionOpens ==
    ASSUME SessionTyped, OnlyKnown, NEW a \in Agent, OpenSession(a)
    PROVE  SessionTyped' /\ OnlyKnown'
<1>1. /\ pc[a] = "open" /\ UNCHANGED <<goal, history, begun, told, crossed, hurt>>
      /\ pc' = [pc EXCEPT ![a] = "write"] /\ file'.history = <<>>
  BY DEF OpenSession, EmptySession
<1>2. SessionTyped'
  BY <1>1 DEF SessionTyped
<1>3. Knows(file'.history, told)
  BY <1>1, KnowsNothing DEF SessionTyped
<1>4. OnlyKnown'
  BY <1>1, <1>3 DEF OnlyKnown, SessionTyped
<1> QED
  BY <1>2, <1>4

LEMMA SessionWrites ==
    ASSUME SessionTyped, OnlyKnown, NEW a \in Agent, WriteSession(a)
    PROVE  SessionTyped' /\ OnlyKnown'
<1> DEFINE g == goal[a]
<1>1. /\ pc[a] = "write" /\ told' = Append(told, g) /\ Back(a) /\ UNCHANGED <<begun, crossed, hurt>>
      /\ file'.history \in {LastKept(history[a]), <<>>}
  BY DEF WriteSession, Saved, Unreadable
<1>2. told \in Seq(Exchange) /\ g \in Exchange /\ g \in begun /\ \A i \in 1..Len(told) : told[i] # g
  BY <1>1 DEF SessionTyped
<1>3. /\ told' \in Seq(Exchange) /\ Len(told') = Len(told) + 1 /\ Len(told) \in Nat
      /\ told'[Len(told) + 1] = g /\ \A i \in 1..Len(told) : told'[i] = told[i]
  BY <1>1, <1>2, AppendFacts
<1>4. /\ pc' \in [Agent -> {"idle", "consult", "dispatch", "open", "write"}]
      /\ DOMAIN goal' = Agent /\ DOMAIN history' = Agent /\ pc'[a] = "idle"
      /\ \A b \in Agent \ {a} : pc'[b] = pc[b] /\ goal'[b] = goal[b] /\ history'[b] = history[b]
  BY <1>1, BackFacts
<1>5. \A b \in Agent : pc'[b] # "idle" => b # a /\ pc[b] # "idle" /\ goal'[b] = goal[b] /\ goal[b] # g
                                          /\ goal[b] \in begun
  BY <1>1, <1>4 DEF SessionTyped
<1> HIDE DEF g
<1>6. SessionTyped'
  <2>1. \A i \in 1..Len(told') : i \in 1..Len(told) \/ i = Len(told) + 1
    BY <1>3
  <2>2. \A i \in 1..Len(told') : told'[i] \in begun'
    BY <1>1, <1>2, <1>3, <2>1 DEF SessionTyped
  <2>3. \A i, j \in 1..Len(told') : told'[i] = told'[j] => i = j
    BY <1>2, <1>3, <2>1 DEF SessionTyped
  <2>4. ASSUME NEW b \in Agent, pc'[b] # "idle", NEW i \in 1..Len(told') PROVE told'[i] # goal'[b]
    BY <1>3, <1>5, <2>1, <2>4 DEF SessionTyped
  <2>5. \A b, c \in Agent : pc'[b] # "idle" /\ pc'[c] # "idle" /\ goal'[b] = goal'[c] => b = c
    BY <1>5 DEF SessionTyped
  <2>6. \A b \in Agent : pc'[b] # "idle" => goal'[b] \in begun'
    BY <1>1, <1>5
  <2>7. begun' \subseteq Exchange /\ crossed' \in BOOLEAN /\ hurt' \in BOOLEAN
    BY <1>1 DEF SessionTyped
  <2> QED
    BY <1>3, <1>4, <2>2, <2>3, <2>4, <2>5, <2>6, <2>7 DEF SessionTyped
<1>7. Knows(file'.history, told')
  <2>1. Knows(history[a], told')
    BY <1>1 DEF OnlyKnown, g
  <2> QED
    BY <1>1, <1>3, <2>1, KnowsKept, KnowsNothing
<1>8. ASSUME NEW b \in Agent, pc'[b] \in {"consult", "dispatch"} PROVE Knows(history'[b], told')
  <2>1. Later(told, told')
    BY <1>1, <1>2, AppendLater
  <2>2. Knows(history[b], told) /\ history'[b] = history[b]
    BY <1>4, <1>8 DEF OnlyKnown
  <2> QED
    BY <1>2, <1>3, <2>1, <2>2, KnowsLater
<1>9. ASSUME NEW b \in Agent, pc'[b] \in {"open", "write"} PROVE Knows(history'[b], Append(told', goal'[b]))
  <2>1. /\ Knows(history[b], Append(told, goal[b])) /\ history'[b] = history[b]
        /\ goal'[b] = goal[b] /\ goal[b] \in Exchange
    BY <1>4, <1>5, <1>9 DEF OnlyKnown, SessionTyped
  <2>2. Later(Append(told, goal[b]), Append(told', goal[b]))
    BY <1>1, <1>2, <2>1, InsertLater
  <2>3. Append(told, goal[b]) \in Seq(Exchange) /\ Append(told', goal[b]) \in Seq(Exchange)
    BY <1>2, <1>3, <2>1
  <2> QED
    BY <2>1, <2>2, <2>3, KnowsLater
<1> QED
  BY <1>6, <1>7, <1>8, <1>9 DEF OnlyKnown

LEMMA SessionSteps ==
    ASSUME SessionTyped, OnlyKnown, [Next]_vars PROVE SessionTyped' /\ OnlyKnown'
<1>1. CASE UNCHANGED sessionVars
  <2>1. SessionTyped'
    BY <1>1 DEF sessionVars, SessionTyped
  <2>2. OnlyKnown'
    BY <1>1 DEF sessionVars, OnlyKnown
  <2> QED
    BY <2>1, <2>2
<1>2. ASSUME NEW a \in Agent, UseTodo(a) PROVE UNCHANGED sessionVars
  BY <1>2 DEF UseTodo
<1>3. ASSUME NEW a \in Agent, DispatchRaises(a) PROVE SessionTyped' /\ OnlyKnown'
  BY <1>3, BackKeeps DEF DispatchRaises, SessionTyped
<1>4. ASSUME NEW a \in Agent, Dies(a) PROVE SessionTyped' /\ OnlyKnown'
  BY <1>4, BackKeeps DEF Dies, SessionTyped
<1>5. UNCHANGED vars => UNCHANGED sessionVars
  BY DEF vars
<1> QED
  BY <1>1, <1>2, <1>3, <1>4, <1>5, SessionCall, SessionLoopEnds, SessionOpens, SessionWrites DEF Next

LEMMA SessionInitial == Init => SessionTyped /\ OnlyKnown
<1> SUFFICES ASSUME Init PROVE SessionTyped /\ OnlyKnown
  OBVIOUS
<1>1. told \in Seq(Exchange) /\ Len(told) = 0 /\ told = <<>> /\ file.history = <<>>
      /\ \A a \in Agent : pc[a] = "idle"
  BY DEF Init, NoSession
<1>2. SessionTyped
  <2>1. 1..Len(told) = {}
    BY <1>1
  <2> QED
    BY <1>1, <2>1 DEF Init, SessionTyped
<1>3. OnlyKnown
  BY <1>1, KnowsNothing DEF OnlyKnown
<1> QED
  BY <1>2, <1>3

LEMMA SessionInvariant == Spec => [](SessionTyped /\ OnlyKnown)
  BY SessionInitial, SessionSteps, PTL DEF Spec
-----------------------------------------------------------------------------
LEMMA Halves == ASSUME NEW n \in Nat, NEW k \in 1..2 * n
                PROVE  \E i \in 1..n : k = 2 * i - 1 \/ k = 2 * i
<1>1. k \in Nat /\ (k % 2 = 0 \/ k % 2 = 1)
  OBVIOUS
<1>2. CASE k % 2 = 0
  <2>1. k \div 2 \in 1..n /\ k = 2 * (k \div 2)
    BY <1>1, <1>2
  <2> QED
    BY <2>1
<1>3. CASE k % 2 = 1
  <2>1. k \div 2 + 1 \in 1..n /\ k = 2 * (k \div 2 + 1) - 1
    BY <1>1, <1>3
  <2> QED
    BY <2>1
<1> QED
  BY <1>1, <1>2, <1>3

\* What is known is in whole exchanges and in order.
LEMMA KnownIsWhole ==
    ASSUME NEW T \in Seq(Exchange), \A i, j \in 1..Len(T) : T[i] = T[j] => i = j,
           NEW h, Knows(h, T), NEW x \in Exchange, NEW users, NEW agents,
           users = {k \in DOMAIN h : h[k] = [role |-> "User", of |-> x]},
           agents = {k \in DOMAIN h : h[k] = [role |-> "Agent", of |-> x]}
    PROVE  /\ Cardinality(users) <= 1
           /\ agents = {k + 1 : k \in users}
           /\ users # {} => x \in ToSet(T)
<1>1. PICK e \in Seq(Exchange) : MadeOf(h, e) /\ InOrder(e, T)
  BY DEF Knows
<1>2. DOMAIN h = 1..2 * Len(e) /\ Len(e) \in Nat
  <2>1. h \in Seq(Message) /\ Len(h) = 2 * Len(e)
    BY <1>1 DEF Knows, MadeOf
  <2> QED
    BY <2>1
<1>3. ASSUME NEW i \in 1..Len(e)
      PROVE  /\ 2 * i - 1 \in DOMAIN h /\ h[2 * i - 1] = [role |-> "User", of |-> e[i]]
             /\ 2 * i \in DOMAIN h /\ h[2 * i] = [role |-> "Agent", of |-> e[i]]
  BY <1>1, <1>2 DEF MadeOf
<1>4. users = {2 * i - 1 : i \in {i \in 1..Len(e) : e[i] = x}}
  <2>1. ASSUME NEW k \in users PROVE \E i \in 1..Len(e) : e[i] = x /\ k = 2 * i - 1
    <3>1. k \in 1..2 * Len(e) /\ h[k].role = "User" /\ h[k].of = x
      BY <1>2
    <3>2. PICK i \in 1..Len(e) : k = 2 * i - 1 \/ k = 2 * i
      BY <1>2, <3>1, Halves
    <3>3. /\ h[2 * i - 1].role = "User" /\ h[2 * i - 1].of = e[i]
          /\ h[2 * i].role = "Agent" /\ h[2 * i].of = e[i]
      <4>1. /\ h[2 * i - 1] = [role |-> "User", of |-> e[i]]
            /\ h[2 * i] = [role |-> "Agent", of |-> e[i]]
        BY <1>3
      <4> QED
        BY <4>1
    <3> QED
      BY <3>1, <3>2, <3>3
  <2>2. ASSUME NEW i \in 1..Len(e), e[i] = x PROVE 2 * i - 1 \in users
    BY <1>3, <2>2
  <2> QED
    BY <2>1, <2>2
<1>5. agents = {2 * i : i \in {i \in 1..Len(e) : e[i] = x}}
  <2>1. ASSUME NEW k \in agents PROVE \E i \in 1..Len(e) : e[i] = x /\ k = 2 * i
    <3>1. k \in 1..2 * Len(e) /\ h[k].role = "Agent" /\ h[k].of = x
      BY <1>2
    <3>2. PICK i \in 1..Len(e) : k = 2 * i - 1 \/ k = 2 * i
      BY <1>2, <3>1, Halves
    <3>3. /\ h[2 * i - 1].role = "User" /\ h[2 * i - 1].of = e[i]
          /\ h[2 * i].role = "Agent" /\ h[2 * i].of = e[i]
      <4>1. /\ h[2 * i - 1] = [role |-> "User", of |-> e[i]]
            /\ h[2 * i] = [role |-> "Agent", of |-> e[i]]
        BY <1>3
      <4> QED
        BY <4>1
    <3> QED
      BY <3>1, <3>2, <3>3
  <2>2. ASSUME NEW i \in 1..Len(e), e[i] = x PROVE 2 * i \in agents
    BY <1>3, <2>2
  <2> QED
    BY <2>1, <2>2
<1>6. \A i, j \in 1..Len(e) : e[i] = x /\ e[j] = x => i = j
  <2>1. ASSUME NEW i \in 1..Len(e), NEW j \in 1..Len(e), e[i] = x, e[j] = x, i < j PROVE FALSE
    <3>1. PICK m, n \in 1..Len(T) : m < n /\ T[m] = e[i] /\ T[n] = e[j]
      BY <1>1, <2>1 DEF InOrder
    <3> QED
      BY <2>1, <3>1
  <2> QED
    BY <2>1
<1>7. Cardinality(users) <= 1
  <2>1. ASSUME NEW j \in users, NEW k \in users PROVE j = k
    <3>1. PICK p \in 1..Len(e) : e[p] = x /\ j = 2 * p - 1
      BY <1>4
    <3>2. PICK q \in 1..Len(e) : e[q] = x /\ k = 2 * q - 1
      BY <1>4
    <3> QED
      BY <1>6, <3>1, <3>2
  <2>2. CASE users = {}
    <3>1. Cardinality(users) = 0
      BY <2>2, FS_EmptySet
    <3> QED
      BY <3>1
  <2>3. CASE \E k : users = {k}
    <3>1. Cardinality(users) = 1
      BY <2>3, FS_Singleton
    <3> QED
      BY <3>1
  <2>4. ASSUME users # {} PROVE \E k : users = {k}
    <3>1. PICK k : k \in users
      BY <2>4
    <3>2. users = {k}
      BY <2>1, <3>1
    <3> QED
      BY <3>2
  <2> QED
    BY <2>2, <2>3, <2>4
<1>8. agents = {k + 1 : k \in users}
  <2>1. ASSUME NEW i \in 1..Len(e) PROVE 2 * i = (2 * i - 1) + 1
    OBVIOUS
  <2>2. ASSUME NEW k \in agents PROVE \E u \in users : k = u + 1
    <3>1. PICK i \in 1..Len(e) : e[i] = x /\ k = 2 * i
      BY <1>5
    <3> QED
      BY <1>4, <2>1, <3>1
  <2>3. ASSUME NEW u \in users PROVE u + 1 \in agents
    <3>1. PICK i \in 1..Len(e) : e[i] = x /\ u = 2 * i - 1
      BY <1>4
    <3> QED
      BY <1>5, <2>1, <3>1
  <2> QED
    BY <2>2, <2>3
<1>9. users # {} => x \in ToSet(T)
  <2> SUFFICES ASSUME users # {} PROVE x \in ToSet(T)
    OBVIOUS
  <2>1. PICK i \in 1..Len(e) : e[i] = x
    BY <1>4
  <2>2. PICK m \in 1..Len(T) : T[m] = x
    BY <1>1, <2>1 DEF InOrder
  <2> QED
    BY <2>2 DEF ToSet
<1> QED
  BY <1>7, <1>8, <1>9

LEMMA KnownIsInOrder ==
    ASSUME NEW T \in Seq(Exchange), NEW h, Knows(h, T),
           NEW j \in DOMAIN h, NEW k \in DOMAIN h, j < k
    PROVE  \E m, n \in DOMAIN T : m <= n /\ T[m] = h[j].of /\ T[n] = h[k].of
<1>1. PICK e \in Seq(Exchange) : MadeOf(h, e) /\ InOrder(e, T)
  BY DEF Knows
<1>2. DOMAIN h = 1..2 * Len(e) /\ Len(e) \in Nat /\ DOMAIN T = 1..Len(T)
  <2>1. h \in Seq(Message) /\ Len(h) = 2 * Len(e)
    BY <1>1 DEF Knows, MadeOf
  <2> QED
    BY <2>1
<1>3. ASSUME NEW i \in 1..Len(e) PROVE h[2 * i - 1].of = e[i] /\ h[2 * i].of = e[i]
  <2>1. /\ h[2 * i - 1] = [role |-> "User", of |-> e[i]]
        /\ h[2 * i] = [role |-> "Agent", of |-> e[i]]
    BY <1>1 DEF MadeOf
  <2> QED
    BY <2>1
<1>4. PICK p \in 1..Len(e) : j = 2 * p - 1 \/ j = 2 * p
  BY <1>2, Halves
<1>5. PICK q \in 1..Len(e) : k = 2 * q - 1 \/ k = 2 * q
  BY <1>2, Halves
<1>6. p <= q /\ h[j].of = e[p] /\ h[k].of = e[q]
  BY <1>3, <1>4, <1>5
<1>7. CASE p = q
  <2>1. PICK m \in 1..Len(T) : T[m] = e[p]
    BY <1>1 DEF InOrder
  <2>2. m <= m
    OBVIOUS
  <2> QED
    BY <1>2, <1>6, <1>7, <2>1, <2>2
<1>8. CASE p < q
  <2>1. PICK m, n \in 1..Len(T) : m < n /\ T[m] = e[p] /\ T[n] = e[q]
    BY <1>1, <1>8 DEF InOrder
  <2>2. m <= n
    BY <2>1
  <2> QED
    BY <1>2, <1>6, <2>1, <2>2
<1> QED
  BY <1>6, <1>7, <1>8

\* Whatever calls cross each other, die or fail, and however many messages are
\* kept: a session that can be read holds whole exchanges, told, once, in order.
THEOREM SessionsHoldWholeExchanges == Spec => []WholeExchangesInOrder
<1>1. ASSUME SessionTyped, OnlyKnown PROVE WholeExchangesInOrder
  <2> DEFINE h == file.history
             At(x, role) == {k \in DOMAIN h : h[k] = [role |-> role, of |-> x]}
  <2>1. /\ told \in Seq(Exchange) /\ \A i, j \in 1..Len(told) : told[i] = told[j] => i = j
        /\ Knows(h, told)
    BY <1>1 DEF SessionTyped, OnlyKnown
  <2> HIDE DEF h
  <2>2. ASSUME NEW x \in Exchange
        PROVE  /\ Cardinality(At(x, "User")) <= 1
               /\ At(x, "Agent") = {k + 1 : k \in At(x, "User")}
               /\ At(x, "User") # {} => x \in ToSet(told)
    BY <2>1, KnownIsWhole
  <2>3. ASSUME NEW j \in DOMAIN h, NEW k \in DOMAIN h, j < k
        PROVE  \E m, n \in DOMAIN told : m <= n /\ told[m] = h[j].of /\ told[n] = h[k].of
    BY <2>1, <2>3, KnownIsInOrder
  <2> QED
    BY <2>2, <2>3 DEF WholeExchangesInOrder, h
<1>2. SessionTyped /\ OnlyKnown => WholeExchangesInOrder
  BY <1>1
<1> QED
  BY <1>2, SessionInvariant, PTL
-----------------------------------------------------------------------------
(***************************************************************************)
(* Without an overlap one call at a time is under way, and the session, in *)
(* the file or in what the call has read, is the kept end of all that was  *)
(* told.                                                                   *)
(***************************************************************************)
All(T) == [k \in 1..2 * Len(T) |-> Messages(T[(k + 1) \div 2])[IF k % 2 = 1 THEN 1 ELSE 2]]

Remembered ==
    /\ ~crossed => \A a, b \in Agent : pc[a] # "idle" /\ pc[b] # "idle" => a = b
    /\ ~crossed /\ ~hurt =>
          /\ (\A a \in Agent : pc[a] # "write") =>
                file = IF told = <<>> THEN NoSession ELSE Saved(LastKept(All(told)))
          /\ \A a \in Agent : pc[a] \in {"consult", "dispatch"} => history[a] = LastKept(All(told))
          /\ \A a \in Agent : pc[a] \in {"open", "write"} =>
                history[a] = LastKept(All(told)) \o Messages(goal[a])
          /\ \A a \in Agent : pc[a] = "write" => file = EmptySession

LEMMA MessagesFacts ==
    ASSUME NEW x \in Exchange
    PROVE  Messages(x) \in Seq(Message) /\ Len(Messages(x)) = 2
           /\ Messages(x)[1] \in Message /\ Messages(x)[2] \in Message
  BY DEF Messages, Message

LEMMA AllFacts ==
    ASSUME NEW T \in Seq(Exchange)
    PROVE  /\ All(T) \in Seq(Message) /\ Len(All(T)) = 2 * Len(T) /\ Len(T) \in Nat
           /\ \A i \in 1..Len(T) : /\ All(T)[2 * i - 1] = Messages(T[i])[1]
                                   /\ All(T)[2 * i] = Messages(T[i])[2]
<1>1. Len(T) \in Nat
  OBVIOUS
<1>2. ASSUME NEW k \in 1..2 * Len(T) PROVE All(T)[k] \in Message
  <2>1. (k + 1) \div 2 \in 1..Len(T)
    BY <1>1
  <2>2. T[(k + 1) \div 2] \in Exchange
    BY <2>1
  <2> QED
    BY <2>2, MessagesFacts DEF All
<1>3. All(T) \in [1..2 * Len(T) -> Message]
  BY <1>2 DEF All
<1>4. 2 * Len(T) \in Nat
  BY <1>1
<1>5. All(T) \in Seq(Message) /\ Len(All(T)) = 2 * Len(T)
  BY <1>3, <1>4
<1>6. ASSUME NEW i \in 1..Len(T)
      PROVE  /\ All(T)[2 * i - 1] = Messages(T[i])[1]
             /\ All(T)[2 * i] = Messages(T[i])[2]
  <2>1. /\ 2 * i - 1 \in 1..2 * Len(T) /\ ((2 * i - 1) + 1) \div 2 = i /\ (2 * i - 1) % 2 = 1
        /\ 2 * i \in 1..2 * Len(T) /\ (2 * i + 1) \div 2 = i /\ (2 * i) % 2 = 0
    BY <1>1
  <2>2. All(T)[2 * i - 1] = Messages(T[((2 * i - 1) + 1) \div 2])[IF (2 * i - 1) % 2 = 1 THEN 1 ELSE 2]
    BY <2>1 DEF All
  <2>3. All(T)[2 * i] = Messages(T[(2 * i + 1) \div 2])[IF (2 * i) % 2 = 1 THEN 1 ELSE 2]
    BY <2>1 DEF All
  <2> QED
    BY <2>1, <2>2, <2>3
<1> QED
  BY <1>1, <1>5, <1>6

LEMMA AllOfNone == ASSUME NEW T \in Seq(Exchange), T = <<>> PROVE LastKept(All(T)) = <<>>
<1>1. Len(T) = 0
  OBVIOUS
<1>2. All(T) \in Seq(Message) /\ Len(All(T)) = 0
  <2>1. All(T) \in Seq(Message) /\ Len(All(T)) = 2 * Len(T)
    BY AllFacts
  <2> QED
    BY <1>1, <2>1
<1>3. All(T) = <<>>
  BY <1>2, EmptySeq
<1> QED
  BY <1>2, <1>3, DelegationAssumption DEF LastKept

LEMMA AllAndOne ==
    ASSUME NEW T \in Seq(Exchange), NEW g \in Exchange
    PROVE  All(Append(T, g)) = All(T) \o Messages(g)
<1> DEFINE T2 == Append(T, g)
           u == All(T2)
           b == Messages(g)
           v == All(T) \o b
<1>1. /\ T2 \in Seq(Exchange) /\ Len(T2) = Len(T) + 1 /\ Len(T) \in Nat
      /\ T2[Len(T) + 1] = g /\ \A i \in 1..Len(T) : T2[i] = T[i]
  BY AppendFacts
<1>2. b \in Seq(Message) /\ Len(b) = 2
  BY MessagesFacts
<1>3. All(T) \in Seq(Message) /\ Len(All(T)) = 2 * Len(T)
  BY AllFacts
<1> HIDE DEF T2, b
<1>4. /\ v \in Seq(Message) /\ Len(v) = 2 * Len(T) + 2
      /\ \A k \in 1..2 * Len(T) : v[k] = All(T)[k]
      /\ v[2 * Len(T) + 1] = b[1] /\ v[2 * Len(T) + 2] = b[2]
  BY <1>2, <1>3, TwoMore
<1>5. u \in Seq(Message) /\ Len(u) = 2 * Len(T) + 2
  BY <1>1, AllFacts
<1>6. ASSUME NEW i \in 1..Len(T) PROVE u[2 * i - 1] = All(T)[2 * i - 1] /\ u[2 * i] = All(T)[2 * i]
  <2>1. i \in 1..Len(T2) /\ T2[i] = T[i]
    BY <1>1
  <2> QED
    BY <1>1, <2>1, AllFacts
<1>7. u[2 * Len(T) + 1] = b[1] /\ u[2 * Len(T) + 2] = b[2]
  <2>1. Len(T) + 1 \in 1..Len(T2) /\ 2 * (Len(T) + 1) - 1 = 2 * Len(T) + 1 /\ 2 * (Len(T) + 1) = 2 * Len(T) + 2
    BY <1>1
  <2>2. u[2 * (Len(T) + 1) - 1] = Messages(T2[Len(T) + 1])[1] /\ u[2 * (Len(T) + 1)] = Messages(T2[Len(T) + 1])[2]
    BY <1>1, <2>1, AllFacts
  <2> QED
    BY <1>1, <2>1, <2>2 DEF b
<1> HIDE DEF u, v
<1>8. ASSUME NEW k \in 1..Len(u) PROVE u[k] = v[k]
  <2>1. CASE k \in 1..2 * Len(T)
    <3>1. PICK i \in 1..Len(T) : k = 2 * i - 1 \/ k = 2 * i
      BY <1>1, <2>1, Halves
    <3> QED
      BY <1>4, <1>6, <2>1, <3>1
  <2>2. CASE k = 2 * Len(T) + 1 \/ k = 2 * Len(T) + 2
    BY <1>4, <1>7, <2>2
  <2>3. k \in 1..2 * Len(T) \/ k = 2 * Len(T) + 1 \/ k = 2 * Len(T) + 2
    BY <1>1, <1>5
  <2> QED
    BY <2>1, <2>2, <2>3
<1>9. u = v
  BY <1>4, <1>5, <1>8, SeqEqual
<1> QED
  BY <1>9 DEF u, v, T2, b
-----------------------------------------------------------------------------
\* The end that is kept of a history to which two messages are added is the same
\* whether the messages that are left out go now or went before.
LEMMA KeptOfKept ==
    ASSUME NEW s \in Seq(Message), NEW b \in Seq(Message), Len(b) = 2
    PROVE  LastKept(LastKept(s) \o b) = LastKept(s \o b)
<1>1. Kept \in Nat /\ Kept >= 2
  BY KeptIsEven
<1>2. CASE Len(s) <= Kept
  BY <1>2 DEF LastKept
<1>3. CASE ~(Len(s) <= Kept)
  <2> DEFINE k == LastKept(s)
             n == Len(s)
             x == LastKept(k \o b)
             y == LastKept(s \o b)
             kb == k \o b
             sb == s \o b
  <2>1. n \in Nat /\ n > Kept
    BY <1>1, <1>3
  <2>2. /\ k \in Seq(Message) /\ Len(k) = Kept
        /\ \A i \in 1..Kept : k[i] = s[i + (n - Kept)]
    BY <1>3, KeptPart
  <2> HIDE DEF k
  <2>3. /\ kb \in Seq(Message) /\ Len(kb) = Kept + 2
        /\ \A i \in 1..Kept : kb[i] = k[i]
        /\ kb[Kept + 1] = b[1] /\ kb[Kept + 2] = b[2]
    BY <2>2, TwoMore
  <2>4. /\ sb \in Seq(Message) /\ Len(sb) = n + 2
        /\ \A i \in 1..n : sb[i] = s[i]
        /\ sb[n + 1] = b[1] /\ sb[n + 2] = b[2]
    BY TwoMore
  <2> HIDE DEF n, kb, sb
  <2> DEFINE u == LastKept(kb)
             v == LastKept(sb)
  <2>5. /\ u \in Seq(Message) /\ Len(u) = Kept
        /\ \A i \in 1..Kept : u[i] = kb[i + 2]
    <3>1. /\ u \in Seq(Message) /\ Len(u) = IF Len(kb) <= Kept THEN Len(kb) ELSE Kept
          /\ \A i \in 1..Len(u) : u[i] = kb[i + (Len(kb) - Len(u))]
      BY <2>3, KeptPart
    <3> HIDE DEF u
    <3>2. Len(u) = Kept /\ Len(kb) - Len(u) = 2
      BY <1>1, <2>3, <3>1
    <3> QED
      BY <3>1, <3>2
  <2>6. /\ v \in Seq(Message) /\ Len(v) = Kept
        /\ \A i \in 1..Kept : v[i] = sb[i + (n + 2 - Kept)]
    <3>1. /\ v \in Seq(Message) /\ Len(v) = IF Len(sb) <= Kept THEN Len(sb) ELSE Kept
          /\ \A i \in 1..Len(v) : v[i] = sb[i + (Len(sb) - Len(v))]
      BY <2>4, KeptPart
    <3> HIDE DEF v
    <3>2. Len(v) = Kept /\ Len(sb) - Len(v) = n + 2 - Kept
      BY <1>1, <2>1, <2>4, <3>1
    <3> QED
      BY <3>1, <3>2
  <2> HIDE DEF u, v
  <2>7. ASSUME NEW i \in 1..Kept PROVE u[i] = v[i]
    <3>1. u[i] = kb[i + 2] /\ v[i] = sb[i + (n + 2 - Kept)]
      BY <2>5, <2>6
    <3>2. CASE i + 2 <= Kept
      <4>1. i + 2 \in 1..Kept /\ i + (n + 2 - Kept) \in 1..n
            /\ (i + 2) + (n - Kept) = i + (n + 2 - Kept)
        BY <1>1, <2>1, <3>2
      <4>2. kb[i + 2] = s[(i + 2) + (n - Kept)]
        BY <2>2, <2>3, <4>1
      <4>3. sb[i + (n + 2 - Kept)] = s[i + (n + 2 - Kept)]
        BY <2>4, <4>1
      <4> QED
        BY <3>1, <4>1, <4>2, <4>3
    <3>3. CASE i = Kept - 1
      <4>1. i + 2 = Kept + 1 /\ i + (n + 2 - Kept) = n + 1
        BY <1>1, <2>1, <3>3
      <4> QED
        BY <3>1, <4>1, <2>3, <2>4
    <3>4. CASE i = Kept
      <4>1. i + 2 = Kept + 2 /\ i + (n + 2 - Kept) = n + 2
        BY <1>1, <2>1, <3>4
      <4> QED
        BY <3>1, <4>1, <2>3, <2>4
    <3> QED
      BY <1>1, <3>2, <3>3, <3>4
  <2>8. u = v
    BY <2>5, <2>6, <2>7, SeqEqual
  <2> QED
    BY <2>8 DEF u, v, kb, sb, k
<1> QED
  BY <1>2, <1>3

LEMMA KeptOfAll ==
    ASSUME NEW T \in Seq(Exchange), NEW g \in Exchange
    PROVE  LastKept(LastKept(All(T)) \o Messages(g)) = LastKept(All(Append(T, g)))
<1>1. All(T) \in Seq(Message) /\ Messages(g) \in Seq(Message) /\ Len(Messages(g)) = 2
  BY AllFacts, MessagesFacts
<1> QED
  BY <1>1, KeptOfKept, AllAndOne

\* A call that does not save ends.
LEMMA RememberedBack ==
    ASSUME SessionTyped, Remembered, NEW a \in Agent, Back(a), UNCHANGED <<file, told, crossed>>,
           hurt' = hurt \/ (hurt' /\ pc[a] = "write"), ~hurt' => pc[a] # "write"
    PROVE  Remembered'
<1>1. /\ pc'[a] = "idle"
      /\ \A b \in Agent \ {a} : pc'[b] = pc[b] /\ goal'[b] = goal[b] /\ history'[b] = history[b]
  BY BackFacts
<1>2. ASSUME ~hurt' PROVE ~hurt /\ ((\A b \in Agent : pc'[b] # "write") <=> (\A b \in Agent : pc[b] # "write"))
  BY <1>1, <1>2
<1> QED
  BY <1>1, <1>2 DEF Remembered

LEMMA RememberedCall ==
    ASSUME SessionTyped, Remembered, NEW a \in Agent, NEW x \in Exchange,
           NEW how \in {"consult", "dispatch"}, Call(a, x, how)
    PROVE  Remembered'
<1>1. /\ pc[a] = "idle" /\ UNCHANGED <<file, told, hurt>>
      /\ crossed' = (crossed \/ \E b \in Agent : pc[b] # "idle")
  BY DEF Call
<1>2. SUFFICES ASSUME ~crossed' PROVE Remembered'
  BY <1>1 DEF Remembered
<1>3. ~crossed /\ \A b \in Agent : pc[b] = "idle"
  BY <1>1, <1>2
<1>4. CASE UNCHANGED <<pc, goal, history>>
  BY <1>1, <1>3, <1>4 DEF Remembered
<1>5. CASE /\ pc' = [pc EXCEPT ![a] = how] /\ goal' = [goal EXCEPT ![a] = x]
           /\ history' = [history EXCEPT ![a] = file.history]
  <2>1. pc'[a] = how /\ history'[a] = file.history /\ \A b \in Agent \ {a} : pc'[b] = "idle"
    BY <1>3, <1>5 DEF SessionTyped
  <2>2. ASSUME ~hurt PROVE file = IF told = <<>> THEN NoSession ELSE Saved(LastKept(All(told)))
    BY <1>3, <2>2 DEF Remembered
  <2>3. ASSUME ~hurt PROVE file.history = LastKept(All(told))
    <3>1. CASE told = <<>>
      <4>1. file.history = <<>>
        BY <2>2, <2>3, <3>1 DEF NoSession
      <4>2. LastKept(All(told)) = <<>>
        BY <3>1, AllOfNone DEF SessionTyped
      <4> QED
        BY <4>1, <4>2
    <3>2. CASE told # <<>>
      BY <2>2, <2>3, <3>2 DEF Saved
    <3> QED
      BY <3>1, <3>2
  <2> QED
    BY <1>1, <2>1, <2>2, <2>3 DEF Remembered
<1> QED
  BY <1>4, <1>5 DEF Call

LEMMA RememberedLoopEnds ==
    ASSUME SessionTyped, Remembered, NEW a \in Agent, LoopEnds(a) PROVE Remembered'
<1>1. /\ pc[a] = "consult" /\ UNCHANGED <<file, goal, told, crossed, hurt>>
      /\ pc'[a] = "open" /\ \A b \in Agent \ {a} : pc'[b] = pc[b]
      /\ history'[a] = history[a] \o Messages(goal[a])
      /\ \A b \in Agent \ {a} : history'[b] = history[b]
  BY DEF LoopEnds, SessionTyped
<1> QED
  BY <1>1 DEF Remembered

LEMMA RememberedOpens ==
    ASSUME SessionTyped, Remembered, NEW a \in Agent, OpenSession(a) PROVE Remembered'
<1>1. /\ pc[a] = "open" /\ UNCHANGED <<goal, history, told, crossed, hurt>>
      /\ pc'[a] = "write" /\ \A b \in Agent \ {a} : pc'[b] = pc[b]
      /\ file' = EmptySession
  BY DEF OpenSession, SessionTyped
<1> QED
  BY <1>1 DEF Remembered

LEMMA RememberedWrites ==
    ASSUME SessionTyped, Remembered, NEW a \in Agent, WriteSession(a) PROVE Remembered'
<1>1. /\ pc[a] = "write" /\ told' = Append(told, goal[a]) /\ Back(a) /\ UNCHANGED <<crossed, hurt>>
  BY DEF WriteSession
<1>2. /\ pc'[a] = "idle"
      /\ \A b \in Agent \ {a} : pc'[b] = pc[b] /\ goal'[b] = goal[b] /\ history'[b] = history[b]
  BY <1>1, BackFacts
<1>3. ASSUME ~crossed PROVE \A b \in Agent \ {a} : pc[b] = "idle"
  BY <1>1, <1>3 DEF Remembered
<1>4. SUFFICES ASSUME ~crossed, ~hurt PROVE Remembered'
  BY <1>1, <1>2, <1>3 DEF Remembered
<1>5. file = EmptySession /\ history[a] = LastKept(All(told)) \o Messages(goal[a])
  BY <1>1, <1>4 DEF Remembered
<1>6. file' = Saved(LastKept(history[a]))
  <2>1. ~(file # EmptySession \/ \E b \in Agent \ {a} : pc[b] = "write")
    BY <1>3, <1>4, <1>5
  <2> QED
    BY <2>1 DEF WriteSession
<1>7. told \in Seq(Exchange) /\ goal[a] \in Exchange
  BY <1>1 DEF SessionTyped
<1>8. LastKept(history[a]) = LastKept(All(told'))
  BY <1>1, <1>5, <1>7, KeptOfAll
<1>9. told' # <<>>
  BY <1>1, <1>7
<1> QED
  BY <1>2, <1>3, <1>4, <1>6, <1>8, <1>9 DEF Remembered

LEMMA RememberedStep == ASSUME SessionTyped, Remembered, [Next]_vars PROVE Remembered'
<1>1. CASE UNCHANGED sessionVars
  BY <1>1 DEF sessionVars, Remembered
<1>2. ASSUME NEW a \in Agent, UseTodo(a) PROVE UNCHANGED sessionVars
  BY <1>2 DEF UseTodo
<1>3. ASSUME NEW a \in Agent, DispatchRaises(a) PROVE Remembered'
  BY <1>3, RememberedBack DEF DispatchRaises
<1>4. ASSUME NEW a \in Agent, Dies(a) PROVE Remembered'
  BY <1>4, RememberedBack DEF Dies, SessionTyped
<1>5. UNCHANGED vars => UNCHANGED sessionVars
  BY DEF vars
<1> QED
  BY <1>1, <1>2, <1>3, <1>4, <1>5, RememberedCall, RememberedLoopEnds, RememberedOpens,
     RememberedWrites DEF Next

LEMMA RememberedInit == Init => Remembered
  BY DEF Init, Remembered

LEMMA KeptIsSuffix ==
    ASSUME NEW s \in Seq(Message)
    PROVE  IsSuffix(LastKept(s), s) /\ Len(LastKept(s)) = Min({Len(s), Kept})
<1> DEFINE k == LastKept(s)
           n == Len(s)
           l == Len(k)
           d == n - l
<1>1. n \in Nat /\ Kept \in Nat
  BY DelegationAssumption
<1>2. /\ k \in Seq(Message) /\ l = IF n <= Kept THEN n ELSE Kept
      /\ \A i \in 1..l : k[i] = s[i + d]
  BY KeptPart
<1>3. l \in Nat /\ l <= n
  BY <1>1, <1>2
<1>4. l = Min({n, Kept})
  <2>1. \E m \in {n, Kept} : \A y \in {n, Kept} : m <= y
    BY <1>1
  <2>2. Min({n, Kept}) \in {n, Kept} /\ \A y \in {n, Kept} : Min({n, Kept}) <= y
    BY <2>1 DEF Min
  <2> HIDE DEF l, n
  <2> QED
    BY <1>1, <1>2, <2>2
<1>5. /\ Reverse(k) \in Seq(Message) /\ Len(Reverse(k)) = l
      /\ \A i \in 1..l : Reverse(k)[i] = k[l - i + 1]
  <2>1. \A i \in 1..l : l - i + 1 \in 1..l
    BY <1>3
  <2>2. \A i \in 1..l : k[l - i + 1] \in Message
    BY <1>2, <2>1
  <2>3. Reverse(k) \in [1..l -> Message]
    BY <2>2 DEF Reverse
  <2> QED
    BY <1>3, <2>3 DEF Reverse
<1>6. /\ Reverse(s) \in Seq(Message) /\ Len(Reverse(s)) = n
      /\ \A i \in 1..n : Reverse(s)[i] = s[n - i + 1]
  <2>1. \A i \in 1..n : n - i + 1 \in 1..n
    BY <1>1
  <2>2. \A i \in 1..n : s[n - i + 1] \in Message
    BY <2>1
  <2>3. Reverse(s) \in [1..n -> Message]
    BY <2>2 DEF Reverse
  <2> QED
    BY <1>1, <2>3 DEF Reverse
<1> DEFINE rk == Reverse(k)
           rs == Reverse(s)
<1>7. ASSUME NEW i \in 1..l PROVE rk[i] = rs[i]
  <2>1. l - i + 1 \in 1..l /\ i \in 1..n /\ (l - i + 1) + d = n - i + 1
    BY <1>1, <1>3
  <2>2. rk[i] = s[(l - i + 1) + d]
    BY <1>2, <1>5, <2>1
  <2> QED
    BY <1>6, <2>1, <2>2
<1> HIDE DEF rk, rs, l, n, k, d
<1>8. IsPrefix(rk, rs)
  <2>1. Len(rk) = l /\ Len(rs) = n /\ rk \in Seq(Message) /\ rs \in Seq(Message)
    BY <1>5, <1>6 DEF rk, rs
  <2>2. /\ SubSeq(rk, 1, l) \in Seq(Message) /\ Len(SubSeq(rk, 1, l)) = l
        /\ \A i \in 1..l : SubSeq(rk, 1, l)[i] = rk[i]
    BY <1>3, <2>1
  <2>3. /\ SubSeq(rs, 1, l) \in Seq(Message) /\ Len(SubSeq(rs, 1, l)) = l
        /\ \A i \in 1..l : SubSeq(rs, 1, l)[i] = rs[i]
    BY <1>1, <1>3, <2>1
  <2>4. SubSeq(rk, 1, l) = SubSeq(rs, 1, l)
    BY <1>7, <2>2, <2>3, SeqEqual
  <2> QED
    BY <1>3, <2>1, <2>4 DEF IsPrefix
<1>9. IsSuffix(k, s)
  BY <1>8 DEF IsSuffix, rk, rs
<1> QED
  BY <1>4, <1>9 DEF k, l, n

\* "Session ID for multi-turn conversations": as long as calls on the session did
\* not overlap and none died while it saved, nothing that was told is missing.
THEOREM SessionsRemember == Spec => []SessionRemembers
<1>1. ASSUME SessionTyped, Remembered PROVE SessionRemembers
  <2> SUFFICES ASSUME ~crossed, ~hurt, \A a \in Agent : pc[a] # "write"
               PROVE  /\ file.kind = (IF told = <<>> THEN "absent" ELSE "saved")
                      /\ IsSuffix(file.history, All(told))
                      /\ Len(file.history) = Min({Len(All(told)), Kept})
    BY DEF SessionRemembers, All
  <2>1. file = IF told = <<>> THEN NoSession ELSE Saved(LastKept(All(told)))
    BY <1>1 DEF Remembered
  <2>2. file.history = LastKept(All(told))
    <3>1. CASE told = <<>>
      <4>1. file.history = <<>>
        BY <2>1, <3>1 DEF NoSession
      <4>2. LastKept(All(told)) = <<>>
        BY <1>1, <3>1, AllOfNone DEF SessionTyped
      <4> QED
        BY <4>1, <4>2
    <3>2. CASE told # <<>>
      BY <2>1, <3>2 DEF Saved
    <3> QED
      BY <3>1, <3>2
  <2>3. file.kind = (IF told = <<>> THEN "absent" ELSE "saved")
    BY <2>1 DEF NoSession, Saved
  <2>4. All(told) \in Seq(Message)
    BY <1>1, AllFacts DEF SessionTyped
  <2> QED
    BY <2>2, <2>3, <2>4, KeptIsSuffix
<1>2. SessionTyped /\ Remembered => SessionRemembers
  BY <1>1
<1>3. SessionTyped /\ Remembered /\ [Next]_vars => Remembered'
  BY RememberedStep
<1> QED
  BY <1>2, <1>3, RememberedInit, SessionInvariant, PTL DEF Spec
=============================================================================
