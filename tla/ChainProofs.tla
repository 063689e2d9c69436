---------------------------- MODULE ChainProofs ----------------------------
(***************************************************************************)
(* For any loops, prompts, failures and lost answers: loops that take      *)
(* turns on a provider in "responses" mode always send what, joined to     *)
(* what the service has, is their conversation.                            *)
(*                                                                         *)
(* What a call takes of the messages is defined by recursion, so the       *)
(* lemmas about it (PickAppend above all) are proved by induction: the     *)
(* numbers are well founded, hence a set of numbers that has 0 and the     *)
(* successor of each of its members has them all (Reaches).                *)
(***************************************************************************)
EXTENDS ResponsesChain, Integers, SequenceTheorems, WellFoundedInduction, TLAPS

\* A set of numbers that is not empty has a least one.
LEMMA Least ==
    ASSUME NEW T \in SUBSET Nat, T # {}
    PROVE  \E x \in T : \A y \in T : x <= y
<1>1. IsWellFoundedOn(OpToRel(<, Nat), Nat)
  BY NatLessThanWellFounded
<1>2. PICK x \in T : \A y \in T : <<y, x>> \notin OpToRel(<, Nat)
  BY <1>1, WFMin
<1>3. ASSUME NEW y \in T PROVE x <= y
  <2>1. <<y, x>> \in Nat \X Nat
    OBVIOUS
  <2>2. ~ (y < x)
    BY <2>1, <1>2 DEF OpToRel
  <2> QED
    BY <2>2
<1> QED
  BY <1>3

\* Induction up to a number.
LEMMA Reaches ==
    ASSUME NEW T \in SUBSET Nat, NEW n \in Nat, 0 \in T, \A i \in T : i < n => i + 1 \in T
    PROVE  0..n \subseteq T
<1> SUFFICES ASSUME NEW k \in 0..n, k \notin T PROVE FALSE
  OBVIOUS
<1> DEFINE Out == {i \in 0..n : i \notin T}
<1>1. Out \in SUBSET Nat /\ Out # {}
  OBVIOUS
<1>2. PICK x \in Out : \A y \in Out : x <= y
  <2> HIDE DEF Out
  <2> QED
    BY <1>1, Least
<1>3. x # 0 /\ x \in 0..n /\ x - 1 \in 0..n /\ x - 1 < n
  BY <1>2
<1>4. x - 1 \in T
  BY <1>2, <1>3
<1> QED
  BY <1>2, <1>3, <1>4
-----------------------------------------------------------------------------
\* f[i] is what is picked of the first i messages.
IsUpto(f, s, places, n) ==
    /\ DOMAIN f = 0..n /\ f[0] = <<>>
    /\ \A i \in 1..n : f[i] = IF i \in places THEN Append(f[i - 1], s[i]) ELSE f[i - 1]

LEMMA UptoExists ==
    ASSUME NEW s, NEW places, NEW n \in Nat
    PROVE  \E f : IsUpto(f, s, places, n) /\ f = [i \in 0..n |-> f[i]]
<1> DEFINE T == {k \in Nat : \E f : IsUpto(f, s, places, k) /\ f = [i \in 0..k |-> f[i]]}
<1>1. 0 \in T
  <2> DEFINE f == [i \in 0..0 |-> <<>>]
  <2>1. IsUpto(f, s, places, 0) /\ f = [i \in 0..0 |-> f[i]]
    BY DEF IsUpto
  <2> QED
    BY <2>1
<1>2. ASSUME NEW k \in T PROVE k + 1 \in T
  <2>1. PICK g : IsUpto(g, s, places, k)
    OBVIOUS
  <2> DEFINE f == [i \in 0..k + 1 |-> IF i <= k THEN g[i]
                     ELSE IF k + 1 \in places THEN Append(g[k], s[k + 1]) ELSE g[k]]
  <2>2. IsUpto(f, s, places, k + 1)
    BY <2>1 DEF IsUpto
  <2>3. f = [i \in 0..k + 1 |-> f[i]]
    OBVIOUS
  <2> QED
    BY <2>2, <2>3
<1>3. 0..n \subseteq T
  <2>1. T \in SUBSET Nat
    OBVIOUS
  <2> HIDE DEF T
  <2> QED
    BY <1>1, <1>2, <2>1, Reaches
<1> QED
  BY <1>3

LEMMA PickIs ==
    ASSUME NEW S, NEW s \in Seq(S), NEW places
    PROVE  \E f : IsUpto(f, s, places, Len(s)) /\ Pick(s, places) = f[Len(s)]
<1> DEFINE step(f) == [i \in 0..Len(s) |->
              IF i = 0 THEN <<>> ELSE IF i \in places THEN Append(f[i - 1], s[i]) ELSE f[i - 1]]
           u == CHOOSE f : f = step(f)
<1>0. Len(s) \in Nat
  OBVIOUS
<1>1. PICK g : IsUpto(g, s, places, Len(s)) /\ g = [i \in 0..Len(s) |-> g[i]]
  BY <1>0, UptoExists
<1>2. g = step(g)
  BY <1>0, <1>1 DEF IsUpto
<1>3. u = step(u)
  <2> HIDE DEF step
  <2> QED
    BY <1>2
<1>4. Pick(s, places) = u[Len(s)]
  BY DEF Pick
<1>5. ASSUME NEW f, f = step(f) PROVE IsUpto(f, s, places, Len(s))
  <2>1. DOMAIN f = 0..Len(s)
    BY <1>5
  <2>2. \A i \in 0..Len(s) : f[i] = IF i = 0 THEN <<>>
                                    ELSE IF i \in places THEN Append(f[i - 1], s[i]) ELSE f[i - 1]
    BY <1>5
  <2> HIDE DEF step
  <2>3. f[0] = <<>>
    BY <1>0, <2>2
  <2>4. ASSUME NEW i \in 1..Len(s)
        PROVE  f[i] = IF i \in places THEN Append(f[i - 1], s[i]) ELSE f[i - 1]
    <3>1. i \in 0..Len(s) /\ i # 0
      BY <1>0
    <3> QED
      BY <2>2, <3>1
  <2> QED
    BY <2>1, <2>3, <2>4 DEF IsUpto
<1> HIDE DEF u, step
<1> QED
  BY <1>3, <1>4, <1>5

\* What is picked of some messages does not depend on what follows them.
Alike(s, t, P, Q, n) == \A i \in 1..n : s[i] = t[i] /\ (i \in P <=> i \in Q)

LEMMA UptoSame ==
    ASSUME NEW s, NEW t, NEW P, NEW Q, NEW n \in Nat, Alike(s, t, P, Q, n),
           NEW f, IsUpto(f, s, P, n), NEW g, IsUpto(g, t, Q, n + 1)
    PROVE  f[n] = g[n]
<1> DEFINE T == {i \in Nat : i <= n => f[i] = g[i]}
<1>1. 0 \in T
  BY DEF IsUpto
<1>2. ASSUME NEW i \in T, i < n PROVE i + 1 \in T
  <2>1. i + 1 \in 1..n /\ i + 1 \in 1..n + 1 /\ (i + 1) - 1 = i /\ f[i] = g[i]
    BY <1>2
  <2>2. f[i + 1] = IF i + 1 \in P THEN Append(f[i], s[i + 1]) ELSE f[i]
    BY <2>1 DEF IsUpto
  <2>3. g[i + 1] = IF i + 1 \in Q THEN Append(g[i], t[i + 1]) ELSE g[i]
    BY <2>1 DEF IsUpto
  <2>4. s[i + 1] = t[i + 1] /\ (i + 1 \in P <=> i + 1 \in Q)
    BY <2>1 DEF Alike
  <2> QED
    BY <2>1, <2>2, <2>3, <2>4
<1>3. 0..n \subseteq T
  <2>1. T \in SUBSET Nat
    OBVIOUS
  <2> HIDE DEF T
  <2> QED
    BY <1>1, <1>2, <2>1, Reaches
<1> QED
  BY <1>3

LEMMA PickType ==
    ASSUME NEW S, NEW s \in Seq(S), NEW places
    PROVE  Pick(s, places) \in Seq(S)
<1>1. PICK f : IsUpto(f, s, places, Len(s)) /\ Pick(s, places) = f[Len(s)]
  BY PickIs
<1> DEFINE T == {i \in Nat : i <= Len(s) => f[i] \in Seq(S)}
<1>2. Len(s) \in Nat
  OBVIOUS
<1>3. 0 \in T
  <2>1. f[0] = <<>> /\ <<>> \in Seq(S)
    BY <1>1, EmptySeq DEF IsUpto
  <2> QED
    BY <2>1
<1>4. ASSUME NEW i \in T, i < Len(s) PROVE i + 1 \in T
  <2>1. i + 1 \in 1..Len(s) /\ (i + 1) - 1 = i /\ f[i] \in Seq(S) /\ s[i + 1] \in S
    BY <1>2, <1>4
  <2>2. f[i + 1] = IF i + 1 \in places THEN Append(f[i], s[i + 1]) ELSE f[i]
    BY <1>1, <2>1 DEF IsUpto
  <2>3. Append(f[i], s[i + 1]) \in Seq(S)
    BY <2>1, AppendProperties
  <2>4. f[i + 1] \in Seq(S)
    BY <2>1, <2>2, <2>3
  <2> QED
    BY <2>4
<1>5. 0..Len(s) \subseteq T
  <2>1. T \in SUBSET Nat
    OBVIOUS
  <2> HIDE DEF T
  <2> QED
    BY <1>2, <1>3, <1>4, <2>1, Reaches
<1> QED
  BY <1>1, <1>2, <1>5

\* One message more is picked or not.
LEMMA PickAppend ==
    ASSUME NEW S, NEW s \in Seq(S), NEW m \in S, NEW P, NEW Q,
           \A i \in 1..Len(s) : i \in P <=> i \in Q
    PROVE  Pick(Append(s, m), Q) = IF Len(s) + 1 \in Q THEN Append(Pick(s, P), m) ELSE Pick(s, P)
<1> DEFINE t == Append(s, m)
<1>1. /\ t \in Seq(S) /\ Len(t) = Len(s) + 1 /\ Len(s) \in Nat /\ t[Len(s) + 1] = m
      /\ \A i \in 1..Len(s) : s[i] = t[i]
  OBVIOUS
<1> HIDE DEF t
<1>2. PICK f : IsUpto(f, s, P, Len(s)) /\ Pick(s, P) = f[Len(s)]
  BY PickIs
<1>3. PICK g : IsUpto(g, t, Q, Len(t)) /\ Pick(t, Q) = g[Len(t)]
  BY <1>1, PickIs
<1>4. Alike(s, t, P, Q, Len(s))
  BY <1>1 DEF Alike
<1>5. f[Len(s)] = g[Len(s)]
  <2>1. IsUpto(g, t, Q, Len(s) + 1) /\ Len(s) \in Nat
    BY <1>1, <1>3
  <2> QED
    BY <1>2, <1>4, <2>1, UptoSame
<1>6. g[Len(s) + 1] = IF Len(s) + 1 \in Q THEN Append(g[Len(s)], t[Len(s) + 1]) ELSE g[Len(s)]
  <2>1. Len(s) + 1 \in 1..Len(t) /\ (Len(s) + 1) - 1 = Len(s)
    BY <1>1
  <2> QED
    BY <1>3, <2>1 DEF IsUpto
<1>7. Pick(t, Q) = IF Len(s) + 1 \in Q THEN Append(Pick(s, P), m) ELSE Pick(s, P)
  BY <1>1, <1>2, <1>3, <1>5, <1>6
<1> QED
  BY <1>7 DEF t

\* Nothing is picked where there is no place.
LEMMA PickNothing ==
    ASSUME NEW S, NEW s \in Seq(S), NEW P, \A i \in 1..Len(s) : i \notin P
    PROVE  Pick(s, P) = <<>>
<1>1. PICK f : IsUpto(f, s, P, Len(s)) /\ Pick(s, P) = f[Len(s)]
  BY PickIs
<1> DEFINE T == {i \in Nat : i <= Len(s) => f[i] = <<>>}
<1>2. Len(s) \in Nat
  OBVIOUS
<1>3. 0 \in T
  BY <1>1 DEF IsUpto
<1>4. ASSUME NEW i \in T, i < Len(s) PROVE i + 1 \in T
  <2>1. i + 1 \in 1..Len(s) /\ (i + 1) - 1 = i /\ f[i] = <<>>
    BY <1>2, <1>4
  <2>2. f[i + 1] = IF i + 1 \in P THEN Append(f[i], s[i + 1]) ELSE f[i]
    BY <1>1, <2>1 DEF IsUpto
  <2> QED
    BY <2>1, <2>2
<1>5. 0..Len(s) \subseteq T
  <2>1. T \in SUBSET Nat
    OBVIOUS
  <2> HIDE DEF T
  <2> QED
    BY <1>2, <1>3, <1>4, <2>1, Reaches
<1> QED
  BY <1>1, <1>2, <1>5
-----------------------------------------------------------------------------
Asking == {"turn", "compact", "final"}
Said ==
    {"", "system", "summarizer"} \cup {Prompt[l] : l \in Loop}
    \cup ({"steer", "carryover", "summarise", "result"} \X Loop \X Nat \X Nat)
    \cup ({"final"} \X Loop \X Nat)
    \cup (Answers \X Loop \X Nat \X Nat \X Asking)
Message == [role : {"system", "user", "assistant", "tool"}, text : Said, call : BOOLEAN]

Chain == [id : Nat, key : Seq(Message), count : Nat, instructions : Seq(Message)]
Request == [prev : Nat, input : Seq(Message), instructions : Seq(Message)]

\* The types the argument needs.
ChainTypes ==
    /\ lpc \in [Loop -> {"idle", "turn", "check", "build", "flight", "reply"}]
    /\ runs \in [Loop -> Nat] /\ turns \in [Loop -> Nat]
    /\ conv \in [Loop -> Seq(Message)] /\ asking \in [Loop -> Asking]
    /\ DOMAIN attempt = Loop /\ DOMAIN reply = Loop
    /\ req \in [Loop -> Request] /\ chain \in Chain /\ stored \in Seq(Seq(Message))
    /\ chain.id <= Len(stored) /\ \A l \in Loop : req[l].prev <= Len(stored)

TakeTurns == \A l, m \in Loop : lpc[l] # "idle" /\ lpc[m] # "idle" => l = m

\* A conversation begins with the system prompt and has no other.
Opened(s) == Len(s) >= 2 /\ s[1] = System /\ Instructions(s) = <<System>>

\* What the service has, with what a request would add, is the conversation.
Joins(id, count, s) ==
    /\ count <= Len(s)
    /\ stored[id] \o NewItems(s, count) = Items(s)

Whole(s) == chain.id # 0 => Joins(chain.id, chain.count, s)

\* The chain belongs to a conversation.
Belongs(s) == chain.key = Key(s) /\ chain.instructions = Instructions(s)
Fits(s) == chain.key = Key(s) => Belongs(s) /\ Whole(s)

Stage(l) ==
    /\ lpc[l] # "idle" => Opened(conv[l])
    /\ lpc[l] \in {"idle", "turn"} => asking[l] = "turn"
    /\ lpc[l] = "turn" => (chain.key = <<>> \/ chain.key[1] = System)
    /\ lpc[l] \in {"turn", "check"} => Fits(Talk(l))
    /\ lpc[l] = "build" => Belongs(Talk(l)) /\ Whole(Talk(l))
    /\ lpc[l] = "flight" => /\ Belongs(Talk(l))
                            /\ Context(req[l]) = Items(Talk(l))
                            /\ req[l].instructions = Instructions(Talk(l))
    /\ lpc[l] = "reply" => /\ Belongs(Talk(l)) /\ reply[l].kind \in Answers
                           /\ reply[l].id \in 1..Len(stored)
                           /\ stored[reply[l].id] = Items(Talk(l)) \o Items(<<Output(l, reply[l].kind)>>)

Stages == \A l \in Loop : Stage(l)
CInv == ChainTypes /\ TakeTurns /\ Stages
-----------------------------------------------------------------------------
\* What the loops, the service and the summarising call say are messages.
LEMMA Texts ==
    ASSUME NEW l \in Loop, NEW r \in Nat, NEW t \in Nat
    PROVE  /\ System \in Message /\ Summarizer \in Message
           /\ Text("user", Prompt[l]) \in Message
           /\ \A what \in {"steer", "carryover", "summarise"} : Text("user", <<what, l, r, t>>) \in Message
           /\ Text("user", <<"final", l, r>>) \in Message
           /\ Text("tool", <<"result", l, r, t>>) \in Message
<1>1. "system" \in Said /\ "summarizer" \in Said /\ Prompt[l] \in Said
  BY DEF Said
<1>2. \A what \in {"steer", "carryover", "summarise", "result"} : <<what, l, r, t>> \in Said
  BY DEF Said
<1>3. <<"final", l, r>> \in Said
  BY DEF Said
<1> QED
  BY <1>1, <1>2, <1>3 DEF Message, System, Summarizer, Text

LEMMA Outputs ==
    ASSUME NEW l \in Loop, runs[l] \in Nat, turns[l] \in Nat, asking[l] \in Asking,
           NEW kind \in Answers
    PROVE  Output(l, kind) \in Message /\ Output(l, kind).role = "assistant"
<1>1. <<kind, l, runs[l], turns[l], asking[l]>> \in Said /\ "" \in Said
  BY DEF Said
<1>2. (IF kind = "empty" THEN "" ELSE <<kind, l, runs[l], turns[l], asking[l]>>) \in Said
  BY <1>1
<1>3. (kind = "calls") \in BOOLEAN
  OBVIOUS
<1> QED
  BY <1>2, <1>3 DEF Output, Message

\* Each message is an item, a new item and an instruction, or not.
LEMMA ItemsType ==
    ASSUME NEW s \in Seq(Message), NEW c
    PROVE  Items(s) \in Seq(Message) /\ NewItems(s, c) \in Seq(Message)
           /\ Instructions(s) \in Seq(Message)
  BY PickType DEF Items, NewItems, Instructions

LEMMA ItemsAppend ==
    ASSUME NEW s \in Seq(Message), NEW m \in Message
    PROVE  Items(Append(s, m)) = IF IsItem(m) THEN Append(Items(s), m) ELSE Items(s)
<1> DEFINE t == Append(s, m)
           P == {i \in DOMAIN s : IsItem(s[i])}
           Q == {i \in DOMAIN t : IsItem(t[i])}
<1>1. /\ Len(s) \in Nat /\ DOMAIN s = 1..Len(s) /\ DOMAIN t = 1..Len(s) + 1
      /\ t[Len(s) + 1] = m /\ \A i \in 1..Len(s) : t[i] = s[i]
  OBVIOUS
<1> HIDE DEF t
<1>2. \A i \in 1..Len(s) : i \in P <=> i \in Q
  BY <1>1
<1>3. Len(s) + 1 \in Q <=> IsItem(m)
  BY <1>1
<1>4. Items(s) = Pick(s, P) /\ Items(t) = Pick(t, Q)
  BY DEF Items
<1> HIDE DEF P, Q
<1>5. Pick(t, Q) = IF Len(s) + 1 \in Q THEN Append(Pick(s, P), m) ELSE Pick(s, P)
  BY <1>2, PickAppend DEF t
<1> QED
  BY <1>3, <1>4, <1>5 DEF t

LEMMA InstructionsAppend ==
    ASSUME NEW s \in Seq(Message), NEW m \in Message
    PROVE  Instructions(Append(s, m)) = IF IsInstruction(m) THEN Append(Instructions(s), m)
                                        ELSE Instructions(s)
<1> DEFINE t == Append(s, m)
           P == {i \in DOMAIN s : IsInstruction(s[i])}
           Q == {i \in DOMAIN t : IsInstruction(t[i])}
<1>1. /\ Len(s) \in Nat /\ DOMAIN s = 1..Len(s) /\ DOMAIN t = 1..Len(s) + 1
      /\ t[Len(s) + 1] = m /\ \A i \in 1..Len(s) : t[i] = s[i]
  OBVIOUS
<1> HIDE DEF t
<1>2. \A i \in 1..Len(s) : i \in P <=> i \in Q
  BY <1>1
<1>3. Len(s) + 1 \in Q <=> IsInstruction(m)
  BY <1>1
<1>4. Instructions(s) = Pick(s, P) /\ Instructions(t) = Pick(t, Q)
  BY DEF Instructions
<1> HIDE DEF P, Q
<1>5. Pick(t, Q) = IF Len(s) + 1 \in Q THEN Append(Pick(s, P), m) ELSE Pick(s, P)
  BY <1>2, PickAppend DEF t
<1> QED
  BY <1>3, <1>4, <1>5 DEF t

LEMMA NewAppend ==
    ASSUME NEW s \in Seq(Message), NEW m \in Message, NEW c \in Nat, c <= Len(s)
    PROVE  NewItems(Append(s, m), c) = IF IsNew(m) THEN Append(NewItems(s, c), m) ELSE NewItems(s, c)
<1> DEFINE t == Append(s, m)
           P == {i \in c + 1..Len(s) : IsNew(s[i])}
           Q == {i \in c + 1..Len(t) : IsNew(t[i])}
<1>1. /\ Len(s) \in Nat /\ Len(t) = Len(s) + 1
      /\ t[Len(s) + 1] = m /\ \A i \in 1..Len(s) : t[i] = s[i]
  OBVIOUS
<1> HIDE DEF t
<1>2. \A i \in 1..Len(s) : i \in P <=> i \in Q
  BY <1>1
<1>3. Len(s) + 1 \in Q <=> IsNew(m)
  BY <1>1
<1>4. NewItems(s, c) = Pick(s, P) /\ NewItems(t, c) = Pick(t, Q)
  BY DEF NewItems
<1> HIDE DEF P, Q
<1>5. Pick(t, Q) = IF Len(s) + 1 \in Q THEN Append(Pick(s, P), m) ELSE Pick(s, P)
  BY <1>2, PickAppend DEF t
<1> QED
  BY <1>3, <1>4, <1>5 DEF t

LEMMA NewNothing ==
    ASSUME NEW s \in Seq(Message)
    PROVE  NewItems(s, Len(s)) = <<>>
<1> DEFINE P == {i \in Len(s) + 1..Len(s) : IsNew(s[i])}
<1>1. \A i \in 1..Len(s) : i \notin P
  OBVIOUS
<1>2. NewItems(s, Len(s)) = Pick(s, P)
  BY DEF NewItems
<1> HIDE DEF P
<1> QED
  BY <1>1, <1>2, PickNothing
-----------------------------------------------------------------------------
LEMMA NoMessages == Items(<<>>) = <<>> /\ Instructions(<<>>) = <<>>
<1>1. <<>> \in Seq(Message) /\ \A P : \A i \in 1..Len(<<>>) : i \notin P
  OBVIOUS
<1>2. \A P : Pick(<<>>, P) = <<>>
  BY <1>1, PickNothing
<1> QED
  BY <1>2 DEF Items, Instructions

LEMMA OneItem ==
    ASSUME NEW m \in Message
    PROVE  /\ Items(<<m>>) = IF IsItem(m) THEN <<m>> ELSE <<>>
           /\ Instructions(<<m>>) = IF IsInstruction(m) THEN <<m>> ELSE <<>>
<1>1. <<>> \in Seq(Message) /\ Append(<<>>, m) = <<m>>
  OBVIOUS
<1> QED
  BY <1>1, NoMessages, ItemsAppend, InstructionsAppend

Speaks(m) == m \in Message /\ m.role \in {"user", "tool"} /\ ~m.call

LEMMA SpeaksNew ==
    ASSUME NEW m, Speaks(m)
    PROVE  ~IsInstruction(m) /\ (IsItem(m) <=> IsNew(m)) /\ m \in Message
  BY DEF Speaks, IsInstruction, IsItem, IsNew

LEMMA Pair ==
    ASSUME NEW S, NEW a \in S, NEW b \in S
    PROVE  Append(<<a>>, b) = <<a, b>>
<1> DEFINE s == Append(<<a>>, b)
           t == <<a, b>>
<1>1. s \in Seq(S) /\ Len(s) = 2 /\ s[1] = a /\ s[2] = b
  OBVIOUS
<1>2. t \in Seq(S) /\ Len(t) = 2 /\ t[1] = a /\ t[2] = b
  OBVIOUS
<1> HIDE DEF s, t
<1>3. s = t
  <2>1. Len(s) = Len(t) /\ \A i \in 1..Len(s) : s[i] = t[i]
    BY <1>1, <1>2
  <2> QED
    BY <1>1, <1>2, <2>1, SeqEqual
<1> QED
  BY <1>3 DEF s, t

\* The two conversations begin with a system prompt of their own.
LEMMA Beginnings ==
    ASSUME NEW m, Speaks(m), NEW first \in {System, Summarizer}
    PROVE  /\ <<first, m>> \in Seq(Message) /\ Len(<<first, m>>) = 2
           /\ Instructions(<<first, m>>) = <<first>>
<1>1. first \in Message /\ IsInstruction(first)
  <2>1. "system" \in Said /\ "summarizer" \in Said
    BY DEF Said
  <2>2. System \in Message /\ Summarizer \in Message
    BY <2>1 DEF System, Summarizer, Message
  <2>3. IsInstruction(System) /\ IsInstruction(Summarizer)
    BY DEF System, Summarizer, IsInstruction
  <2> QED
    BY <2>2, <2>3
<1>2. m \in Message /\ ~IsInstruction(m)
  BY SpeaksNew
<1>3. Instructions(<<first>>) = <<first>>
  BY <1>1, OneItem
<1>4. <<first>> \in Seq(Message) /\ Append(<<first>>, m) = <<first, m>>
  <2>1. <<first>> \in Seq(Message)
    BY <1>1
  <2>2. Append(<<first>>, m) = <<first, m>>
    BY <1>1, <1>2, Pair
  <2> QED
    BY <2>1, <2>2
<1>5. Instructions(<<first, m>>) = <<first>>
  BY <1>2, <1>3, <1>4, InstructionsAppend
<1> QED
  BY <1>1, <1>2, <1>5

LEMMA KeyIs ==
    ASSUME NEW s \in Seq(Message), Len(s) >= 2
    PROVE  Key(s) \in Seq(Message) /\ Key(s) = <<s[1], s[2]>> /\ Key(s) # <<>> /\ Key(s)[1] = s[1]
<1>1. s[1] \in Message /\ s[2] \in Message
  BY ElementOfSeq
<1>2. <<s[1], s[2]>> \in Seq(Message)
  BY <1>1
<1>3. /\ Key(s) \in Seq(Message) /\ Len(Key(s)) = 2
      /\ Key(s)[1] = s[1] /\ Key(s)[2] = s[2]
  <2>1. \A i \in 1..2 : s[i] \in Message
    BY <1>1
  <2> QED
    BY <2>1, SubSeqProperties DEF Key
<1>4. Key(s) = <<s[1], s[2]>>
  <2> DEFINE k == Key(s)
             t == <<s[1], s[2]>>
  <2>1. Len(t) = 2 /\ t[1] = s[1] /\ t[2] = s[2]
    OBVIOUS
  <2>2. k \in Seq(Message) /\ t \in Seq(Message) /\ Len(k) = Len(t)
        /\ \A i \in 1..Len(k) : k[i] = t[i]
    BY <1>2, <1>3, <2>1
  <2> HIDE DEF k, t
  <2>3. k = t
    BY <2>2, SeqEqual
  <2> QED
    BY <2>3 DEF k, t
<1> QED
  BY <1>3, <1>4

\* One message more that is no system prompt.
LEMMA OneMore ==
    ASSUME NEW s \in Seq(Message), Opened(s), NEW m \in Message, ~IsInstruction(m)
    PROVE  /\ Append(s, m) \in Seq(Message) /\ Opened(Append(s, m))
           /\ Key(Append(s, m)) = Key(s) /\ Instructions(Append(s, m)) = Instructions(s)
<1> DEFINE t == Append(s, m)
<1>1. t \in Seq(Message) /\ Len(t) = Len(s) + 1 /\ Len(s) \in Nat /\ \A i \in 1..Len(s) : t[i] = s[i]
  OBVIOUS
<1>2. Len(s) >= 2 /\ s[1] = System /\ Instructions(s) = <<System>>
  BY DEF Opened
<1>3. Instructions(t) = Instructions(s)
  BY InstructionsAppend
<1> HIDE DEF t
<1>4. Len(t) >= 2 /\ t[1] = s[1] /\ t[2] = s[2]
  BY <1>1, <1>2
<1>5. Opened(t)
  BY <1>2, <1>3, <1>4 DEF Opened
<1>6. Key(t) = Key(s)
  BY <1>1, <1>2, <1>4, KeyIs
<1> QED
  BY <1>1, <1>3, <1>5, <1>6 DEF t

LEMMA JoinsAppend ==
    ASSUME NEW s \in Seq(Message), NEW m, Speaks(m), NEW id, stored[id] \in Seq(Message),
           NEW c \in Nat, Joins(id, c, s)
    PROVE  Joins(id, c, Append(s, m))
<1>1. m \in Message /\ (IsItem(m) <=> IsNew(m))
  BY SpeaksNew
<1>2. c <= Len(s) /\ stored[id] \o NewItems(s, c) = Items(s)
  BY DEF Joins
<1>3. c <= Len(Append(s, m))
  BY <1>1, <1>2
<1>4. Items(Append(s, m)) = IF IsNew(m) THEN Append(Items(s), m) ELSE Items(s)
  BY <1>1, ItemsAppend
<1>5. NewItems(Append(s, m), c) = IF IsNew(m) THEN Append(NewItems(s, c), m) ELSE NewItems(s, c)
  BY <1>1, <1>2, NewAppend
<1>6. NewItems(s, c) \in Seq(Message)
  BY ItemsType
<1>7. stored[id] \o Append(NewItems(s, c), m) = Append(stored[id] \o NewItems(s, c), m)
  <2> DEFINE a == stored[id]
             b == NewItems(s, c)
  <2>1. a \in Seq(Message) /\ b \in Seq(Message) /\ m \in Message
    BY <1>1, <1>6
  <2> HIDE DEF a, b
  <2>2. a \o Append(b, m) = Append(a \o b, m)
    BY <2>1
  <2> QED
    BY <2>2 DEF a, b
<1> QED
  BY <1>2, <1>3, <1>4, <1>5, <1>7 DEF Joins

LEMMA FitsAppend ==
    ASSUME ChainTypes, NEW s \in Seq(Message), Opened(s), Fits(s), NEW m, Speaks(m)
    PROVE  /\ Append(s, m) \in Seq(Message) /\ Opened(Append(s, m)) /\ Fits(Append(s, m))
<1>1. m \in Message /\ ~IsInstruction(m)
  BY SpeaksNew
<1>2. /\ Append(s, m) \in Seq(Message) /\ Opened(Append(s, m))
      /\ Key(Append(s, m)) = Key(s) /\ Instructions(Append(s, m)) = Instructions(s)
  BY <1>1, OneMore
<1>3. ASSUME chain.key = Key(s), chain.id # 0
      PROVE  Joins(chain.id, chain.count, Append(s, m))
  <2>1. Joins(chain.id, chain.count, s)
    BY <1>3 DEF Fits, Whole
  <2>2. chain.count \in Nat /\ chain.id \in 1..Len(stored) /\ stored \in Seq(Seq(Message))
    BY <1>3 DEF ChainTypes, Chain
  <2>3. stored[chain.id] \in Seq(Message)
    BY <2>2
  <2> QED
    BY <2>1, <2>2, <2>3, JoinsAppend
<1> QED
  BY <1>2, <1>3 DEF Fits, Belongs, Whole

\* What the service stored with its answer is the conversation with the answer.
LEMMA AnswerJoins ==
    ASSUME NEW s \in Seq(Message), NEW o \in Message, o.role = "assistant", NEW id,
           stored[id] = Items(s) \o Items(<<o>>)
    PROVE  Joins(id, Len(s), Append(s, o)) /\ Len(s) \in Nat /\ ~IsInstruction(o)
<1>1. Len(s) \in Nat /\ Len(s) <= Len(Append(s, o)) /\ Len(s) <= Len(s)
  OBVIOUS
<1>2. ~IsNew(o) /\ ~IsInstruction(o)
  BY DEF IsNew, IsInstruction
<1>3. NewItems(Append(s, o), Len(s)) = <<>>
  BY <1>1, <1>2, NewAppend, NewNothing
<1>4. Items(s) \in Seq(Message)
  BY ItemsType
<1>5. Items(Append(s, o)) = IF IsItem(o) THEN Append(Items(s), o) ELSE Items(s)
  BY ItemsAppend
<1>6. Items(<<o>>) = IF IsItem(o) THEN <<o>> ELSE <<>>
  BY OneItem
<1>7. stored[id] \o <<>> = Items(Append(s, o))
  <2> DEFINE a == Items(s)
  <2>1. a \in Seq(Message)
    BY <1>4
  <2> HIDE DEF a
  <2>2. (a \o <<o>>) \o <<>> = Append(a, o) /\ (a \o <<>>) \o <<>> = a
    BY <2>1
  <2> QED
    BY <1>5, <1>6, <2>2 DEF a
<1> QED
  BY <1>1, <1>2, <1>3, <1>7 DEF Joins
-----------------------------------------------------------------------------
\* While one loop is at work the others are idle.
LEMMA OnlyOne ==
    ASSUME CInv, Exclusive, NEW l \in Loop, LoopStep(l)
    PROVE  \A m \in Loop \ {l} : lpc[m] = "idle" /\ lpc'[m] = "idle"
<1> SUFFICES ASSUME NEW m \in Loop \ {l} PROVE lpc[m] = "idle" /\ lpc'[m] = "idle"
  OBVIOUS
<1>1. lpc \in [Loop -> {"idle", "turn", "check", "build", "flight", "reply"}]
  BY DEF CInv, ChainTypes
<1>2. lpc[m] = "idle"
  <2>1. CASE Start(l)
    BY <2>1 DEF Start
  <2>2. CASE lpc[l] # "idle"
    BY <2>2 DEF CInv, TakeTurns
  <2>3. ~Start(l) => lpc[l] # "idle"
    BY DEF LoopStep, Turn, CheckKey, Build, Answer, CallAgain, Fail, Receive, Exhausted
  <2> QED
    BY <2>1, <2>2, <2>3
<1>3. lpc'[m] = lpc[m]
  <2>1. CASE Start(l)
    BY <1>1, <2>1 DEF Start
  <2>2. CASE Turn(l)
    BY <1>1, <2>2 DEF Turn
  <2>3. CASE CheckKey(l)
    BY <1>1, <2>3 DEF CheckKey
  <2>4. CASE Build(l)
    BY <1>1, <2>4 DEF Build
  <2>5. CASE Answer(l)
    BY <1>1, <2>5 DEF Answer
  <2>6. CASE CallAgain(l)
    BY <1>1, <2>6 DEF CallAgain
  <2>7. CASE Fail(l)
    BY <1>1, <2>7 DEF Fail, Resume
  <2>8. CASE Receive(l)
    BY <1>1, <2>8 DEF Receive, Use, Resume
  <2>9. CASE Exhausted(l)
    BY <1>1, <2>9 DEF Exhausted, Resume
  <2> QED
    BY <2>1, <2>2, <2>3, <2>4, <2>5, <2>6, <2>7, <2>8, <2>9 DEF LoopStep
<1> QED
  BY <1>2, <1>3

\* The summarising call's conversation, and a loop's.
LEMMA Summary ==
    ASSUME NEW l \in Loop, NEW r \in Nat, NEW t \in Nat,
           NEW s, s = <<Summarizer, Text("user", <<"summarise", l, r, t>>)>>
    PROVE  /\ s \in Seq(Message) /\ Len(s) >= 2 /\ Key(s)[1] = Summarizer
           /\ Key(s) \in Seq(Message) /\ Key(s) # <<>>
<1> DEFINE ask == Text("user", <<"summarise", l, r, t>>)
<1>1. Speaks(ask)
  <2>1. ask \in Message
    BY Texts
  <2> QED
    BY <2>1 DEF Speaks, Text
<1> HIDE DEF ask
<1>2. s = <<Summarizer, ask>>
  BY DEF ask
<1>3. Summarizer \in {System, Summarizer}
  OBVIOUS
<1>4. s \in Seq(Message) /\ Len(s) = 2
  BY <1>1, <1>2, <1>3, Beginnings
<1>5. s[1] = Summarizer
  BY <1>2
<1>6. Len(s) >= 2
  BY <1>4
<1>7. Key(s) \in Seq(Message) /\ Key(s) # <<>> /\ Key(s)[1] = s[1]
  BY <1>4, <1>6, KeyIs
<1> QED
  BY <1>4, <1>5, <1>6, <1>7

LEMMA Openings ==
    ASSUME NEW s \in Seq(Message), Opened(s)
    PROVE  /\ Len(s) >= 2 /\ Key(s)[1] = System /\ Key(s) \in Seq(Message) /\ Key(s) # <<>>
  BY KeyIs DEF Opened

\* What a loop is in a call about, before and after a step.
LEMMA Talks ==
    ASSUME ChainTypes, NEW l \in Loop, Opened(conv[l])
    PROVE  /\ Talk(l) \in Seq(Message) /\ Len(Talk(l)) >= 2
           /\ asking[l] # "compact" => Talk(l) = conv[l] /\ Key(Talk(l))[1] = System
           /\ asking[l] = "compact" => Key(Talk(l))[1] = Summarizer
           /\ Key(Talk(l)) \in Seq(Message) /\ Key(Talk(l)) # <<>>
<1>1. runs[l] \in Nat /\ turns[l] \in Nat /\ conv[l] \in Seq(Message)
  BY DEF ChainTypes
<1> QED
  BY <1>1, Summary, Openings DEF Talk

LEMMA TalksNext ==
    ASSUME ChainTypes', NEW l \in Loop, Opened(conv'[l])
    PROVE  /\ asking'[l] # "compact" => Talk(l)' = conv'[l] /\ Key(Talk(l)')[1] = System
           /\ asking'[l] = "compact" => Key(Talk(l)')[1] = Summarizer
           /\ Key(Talk(l)') # <<>>
<1>1. runs'[l] \in Nat /\ turns'[l] \in Nat /\ conv'[l] \in Seq(Message)
  BY DEF ChainTypes
<1> QED
  BY <1>1, Summary, Openings DEF Talk

LEMMA FinalSpeaks ==
    ASSUME ChainTypes, NEW l \in Loop
    PROVE  Speaks(FinalPrompt(l))
<1>1. runs[l] \in Nat /\ 0 \in Nat
  BY DEF ChainTypes
<1>2. FinalPrompt(l) \in Message
  BY <1>1, Texts DEF FinalPrompt
<1> QED
  BY <1>2 DEF Speaks, FinalPrompt, Text

LEMMA TwoPrompts == System # Summarizer
  BY DEF System, Summarizer
-----------------------------------------------------------------------------
LEMMA StartStep ==
    ASSUME CInv, NEW l \in Loop, Start(l)
    PROVE  ChainTypes' /\ Stage(l)'
<1> DEFINE s == <<System, Text("user", Prompt[l])>>
<1>1. ChainTypes
  BY DEF CInv
<1>2. Speaks(Text("user", Prompt[l]))
  <2>1. 0 \in Nat
    OBVIOUS
  <2>2. Text("user", Prompt[l]) \in Message
    BY <2>1, Texts
  <2> QED
    BY <2>2 DEF Speaks, Text
<1>3. s \in Seq(Message) /\ Opened(s)
  <2>1. s \in Seq(Message) /\ Len(s) = 2 /\ Instructions(s) = <<System>> /\ s[1] = System
    BY <1>2, Beginnings
  <2> QED
    BY <2>1 DEF Opened
<1> HIDE DEF s
<1>4. /\ runs' = [runs EXCEPT ![l] = @ + 1] /\ turns' = [turns EXCEPT ![l] = 0]
      /\ conv' = [conv EXCEPT ![l] = s] /\ chain' = NoChain
      /\ lpc' = [lpc EXCEPT ![l] = "turn"]
      /\ UNCHANGED <<asking, attempt, req, reply, stored>>
  BY DEF Start, s
<1>5. NoChain \in Chain /\ NoChain.id = 0 /\ NoChain.key = <<>>
  <2>1. <<>> \in Seq(Message)
    OBVIOUS
  <2> QED
    BY <2>1 DEF NoChain, Chain
<1>6. ChainTypes'
  BY <1>1, <1>3, <1>4, <1>5 DEF ChainTypes
<1>7. asking[l] = "turn"
  BY DEF Start, CInv, Stages, Stage
<1>8. /\ lpc'[l] = "turn" /\ asking'[l] = "turn" /\ conv'[l] = s /\ chain'.key = <<>>
  BY <1>1, <1>4, <1>5, <1>7 DEF ChainTypes
<1>9. Opened(conv[l])'
  BY <1>3, <1>8 DEF Opened
<1>10. Fits(Talk(l))'
  <2>1. Talk(l)' = s
    BY <1>8 DEF Talk
  <2>2. Key(s) # <<>>
    BY <1>3, KeyIs DEF Opened
  <2> QED
    BY <1>8, <2>1, <2>2 DEF Fits
<1> QED
  BY <1>6, <1>8, <1>9, <1>10 DEF Stage

LEMMA TurnStep ==
    ASSUME CInv, NEW l \in Loop, Turn(l)
    PROVE  ChainTypes' /\ Stage(l)'
<1> DEFINE said == Text("user", <<"steer", l, runs[l], turns[l]>>)
<1>1. ChainTypes /\ Stage(l) /\ lpc[l] = "turn"
  BY DEF CInv, Stages, Turn
<1>2. /\ asking[l] = "turn" /\ Opened(conv[l]) /\ (chain.key = <<>> \/ chain.key[1] = System)
      /\ Fits(conv[l]) /\ conv[l] \in Seq(Message)
  BY <1>1 DEF Stage, Talk, ChainTypes
<1>3. Speaks(said)
  <2>1. runs[l] \in Nat /\ turns[l] \in Nat
    BY <1>1 DEF ChainTypes
  <2>2. said \in Message
    BY <2>1, Texts
  <2> QED
    BY <2>2 DEF Speaks, Text
<1> HIDE DEF said
<1>4. PICK steer \in {<<>>, <<said>>} : conv' = [conv EXCEPT ![l] = @ \o steer]
  BY DEF Turn, said
<1>5. PICK what \in {"turn", "compact"} : asking' = [asking EXCEPT ![l] = what]
  BY DEF Turn
<1>6. /\ turns' = [turns EXCEPT ![l] = @ + 1] /\ lpc' = [lpc EXCEPT ![l] = "check"]
      /\ UNCHANGED <<runs, attempt, req, reply, chain, stored>>
  BY DEF Turn
<1>7. /\ conv'[l] \in Seq(Message) /\ Opened(conv'[l]) /\ Fits(conv'[l])
  <2>1. CASE steer = <<>>
    <3>1. conv'[l] = conv[l]
      BY <1>1, <1>2, <1>4, <2>1 DEF ChainTypes
    <3> QED
      BY <1>2, <3>1
  <2>2. CASE steer = <<said>>
    <3>1. conv'[l] = Append(conv[l], said)
      BY <1>1, <1>2, <1>3, <1>4, <2>2 DEF ChainTypes, Speaks
    <3> QED
      BY <1>1, <1>2, <1>3, <3>1, FitsAppend
  <2> QED
    BY <2>1, <2>2
<1>8. ChainTypes'
  <2>1. conv' = [conv EXCEPT ![l] = conv'[l]]
    BY <1>1, <1>4 DEF ChainTypes
  <2>2. conv' \in [Loop -> Seq(Message)]
    BY <1>1, <1>7, <2>1 DEF ChainTypes
  <2>3. turns' \in [Loop -> Nat] /\ lpc' \in [Loop -> {"idle", "turn", "check", "build", "flight", "reply"}]
    BY <1>1, <1>6 DEF ChainTypes
  <2>4. asking' \in [Loop -> Asking]
    BY <1>1, <1>5 DEF ChainTypes, Asking
  <2> QED
    BY <1>1, <1>6, <2>2, <2>3, <2>4 DEF ChainTypes
<1>9. lpc'[l] = "check" /\ asking'[l] = what /\ chain' = chain /\ stored' = stored
  BY <1>1, <1>5, <1>6 DEF ChainTypes
<1>10. Opened(conv[l])'
  BY <1>7 DEF Opened
<1>11. Fits(Talk(l))'
  <2>1. CASE what = "turn"
    <3>1. Talk(l)' = conv'[l]
      BY <1>9, <2>1 DEF Talk
    <3> QED
      BY <1>7, <1>9, <3>1 DEF Fits, Belongs, Whole, Joins
  <2>2. CASE what = "compact"
    <3>1. Key(Talk(l)')[1] = Summarizer /\ Key(Talk(l)') # <<>>
      BY <1>7, <1>8, <1>9, <2>2, TalksNext
    <3>2. chain.key # Key(Talk(l)')
      BY <1>2, <3>1, TwoPrompts
    <3> QED
      BY <1>9, <3>2 DEF Fits
  <2> QED
    BY <2>1, <2>2
<1> QED
  BY <1>8, <1>9, <1>10, <1>11 DEF Stage

LEMMA CheckKeyStep ==
    ASSUME CInv, NEW l \in Loop, CheckKey(l)
    PROVE  ChainTypes' /\ Stage(l)'
<1>1. ChainTypes /\ Stage(l) /\ lpc[l] = "check"
  BY DEF CInv, Stages, CheckKey
<1>2. Opened(conv[l]) /\ Fits(Talk(l))
  BY <1>1 DEF Stage
<1>3. Talk(l) \in Seq(Message) /\ Key(Talk(l)) \in Seq(Message) /\ Instructions(Talk(l)) \in Seq(Message)
  BY <1>1, <1>2, Talks, ItemsType
<1>4. /\ lpc' = [lpc EXCEPT ![l] = "build"]
      /\ UNCHANGED <<runs, turns, conv, asking, attempt, req, reply, stored>>
  BY DEF CheckKey
<1>5. Talk(l)' = Talk(l)
  BY <1>4 DEF Talk
<1>6. chain' \in Chain /\ chain'.id <= Len(stored) /\ Belongs(Talk(l))' /\ Whole(Talk(l))'
  <2>1. CASE Key(Talk(l)) = chain.key
    <3>1. chain' = chain /\ stored' = stored
      BY <1>4, <2>1 DEF CheckKey
    <3> QED
      BY <1>1, <1>2, <1>5, <2>1, <3>1 DEF ChainTypes, Fits, Belongs, Whole, Joins
  <2>2. CASE Key(Talk(l)) # chain.key
    <3>1. chain' = [id |-> 0, count |-> 0, key |-> Key(Talk(l)), instructions |-> Instructions(Talk(l))]
      BY <2>2 DEF CheckKey
    <3>2. chain' \in Chain /\ chain'.id = 0
      BY <1>3, <3>1 DEF Chain
    <3> QED
      BY <1>1, <1>5, <3>1, <3>2 DEF ChainTypes, Belongs, Whole
  <2> QED
    BY <2>1, <2>2
<1>7. ChainTypes'
  BY <1>1, <1>4, <1>6 DEF ChainTypes
<1>8. lpc'[l] = "build" /\ Opened(conv[l])'
  BY <1>1, <1>2, <1>4 DEF ChainTypes, Opened
<1> QED
  BY <1>6, <1>7, <1>8 DEF Stage

LEMMA BuildStep ==
    ASSUME CInv, NEW l \in Loop, Build(l)
    PROVE  ChainTypes' /\ Stage(l)'
<1> DEFINE input == IF chain.id = 0 THEN Items(Talk(l)) ELSE NewItems(Talk(l), chain.count)
           r == [prev |-> chain.id, input |-> input, instructions |-> chain.instructions]
<1>1. ChainTypes /\ Stage(l) /\ lpc[l] = "build"
  BY DEF CInv, Stages, Build
<1>2. Opened(conv[l]) /\ Belongs(Talk(l)) /\ Whole(Talk(l))
  BY <1>1 DEF Stage
<1>3. Items(Talk(l)) \in Seq(Message) /\ NewItems(Talk(l), chain.count) \in Seq(Message)
  BY <1>1, <1>2, Talks, ItemsType
<1>4. /\ req' = [req EXCEPT ![l] = r] /\ lpc' = [lpc EXCEPT ![l] = "flight"]
      /\ UNCHANGED <<runs, turns, conv, asking, attempt, reply, chain, stored>>
  BY DEF Build
<1>5. Talk(l)' = Talk(l)
  BY <1>4 DEF Talk
<1>6. input \in Seq(Message)
  BY <1>3
<1>7. (IF chain.id = 0 THEN <<>> ELSE stored[chain.id]) \o input = Items(Talk(l))
  <2>1. CASE chain.id = 0
    BY <1>3, <2>1
  <2>2. CASE chain.id # 0
    BY <1>2, <2>2 DEF Whole, Joins
  <2> QED
    BY <2>1, <2>2
<1> HIDE DEF input
<1>8. r \in Request /\ r.prev = chain.id /\ chain.id <= Len(stored)
  BY <1>1, <1>6 DEF ChainTypes, Chain, Request
<1>9. ChainTypes'
  <2>1. \A m \in Loop : req'[m].prev <= Len(stored)
    BY <1>1, <1>4, <1>8 DEF ChainTypes
  <2>2. req' \in [Loop -> Request]
    BY <1>1, <1>4, <1>8 DEF ChainTypes
  <2> QED
    BY <1>1, <1>4, <2>1, <2>2 DEF ChainTypes
<1>10. lpc'[l] = "flight" /\ req'[l] = r /\ Opened(conv[l])'
  BY <1>1, <1>2, <1>4 DEF ChainTypes, Opened
<1>11. Context(req[l])' = Items(Talk(l))'
  <2>1. req'[l].prev = chain.id /\ req'[l].input = input
    BY <1>10
  <2>2. Context(req[l])' = (IF req'[l].prev = 0 THEN <<>> ELSE stored'[req'[l].prev]) \o req'[l].input
    BY DEF Context
  <2>3. stored' = stored
    BY <1>4
  <2>4. Context(req[l])' = Items(Talk(l))
    BY <1>7, <2>1, <2>2, <2>3
  <2> QED
    BY <1>5, <2>4
<1>12. Belongs(Talk(l))' /\ req'[l].instructions = Instructions(Talk(l))'
  BY <1>2, <1>4, <1>5, <1>10 DEF Belongs
<1> QED
  BY <1>9, <1>10, <1>11, <1>12 DEF Stage
-----------------------------------------------------------------------------
\* The service stores what it has answered, and keeps what it has stored.
Grown ==
    /\ stored' \in Seq(Seq(Message)) /\ Len(stored) <= Len(stored')
    /\ \A i \in 1..Len(stored) : stored'[i] = stored[i]

LEMMA StoresGrow ==
    ASSUME ChainTypes, NEW l \in Loop, NEW kind \in Answers, Stores(l, kind)
    PROVE  /\ Grown /\ Len(stored') = Len(stored) + 1 /\ Len(stored') \in 1..Len(stored')
           /\ stored'[Len(stored')] = Context(req[l]) \o Items(<<Output(l, kind)>>)
<1> DEFINE new == Context(req[l]) \o Items(<<Output(l, kind)>>)
<1>1. stored \in Seq(Seq(Message)) /\ stored' = Append(stored, new)
  BY DEF ChainTypes, Stores
<1>2. new \in Seq(Message)
  <2>1. req[l].prev \in Nat /\ req[l].prev <= Len(stored) /\ req[l].input \in Seq(Message)
    BY DEF ChainTypes, Request
  <2>2. (IF req[l].prev = 0 THEN <<>> ELSE stored[req[l].prev]) \in Seq(Message)
    <3>1. CASE req[l].prev = 0
      BY <3>1
    <3>2. CASE req[l].prev # 0
      <4>1. req[l].prev \in 1..Len(stored)
        BY <1>1, <2>1, <3>2
      <4> QED
        BY <1>1, <3>2, <4>1
    <3> QED
      BY <3>1, <3>2
  <2>3. Context(req[l]) \in Seq(Message)
    BY <2>1, <2>2, ConcatProperties DEF Context
  <2>4. Output(l, kind) \in Message
    BY Outputs DEF ChainTypes
  <2>5. Items(<<Output(l, kind)>>) \in Seq(Message)
    <3>1. <<Output(l, kind)>> \in Seq(Message)
      BY <2>4
    <3> QED
      BY <3>1, ItemsType
  <2> QED
    BY <2>3, <2>5, ConcatProperties
<1> HIDE DEF new
<1>3. /\ stored' \in Seq(Seq(Message)) /\ Len(stored') = Len(stored) + 1 /\ Len(stored) \in Nat
      /\ stored'[Len(stored) + 1] = new /\ \A i \in 1..Len(stored) : stored'[i] = stored[i]
  BY <1>1, <1>2
<1> QED
  BY <1>3 DEF Grown, new

LEMMA LosesGrow ==
    ASSUME ChainTypes, NEW l \in Loop, NEW kind, Loses(l, kind)
    PROVE  Grown
<1>1. "text" \in Answers
  BY DEF Answers
<1>2. CASE UNCHANGED stored
  BY <1>2 DEF ChainTypes, Grown
<1>3. CASE Stores(l, "text")
  BY <1>1, <1>3, StoresGrow
<1> QED
  BY <1>2, <1>3 DEF Loses

LEMMA Emptied == NoRequest \in Request /\ NoRequest.prev = 0
<1>1. <<>> \in Seq(Message)
  OBVIOUS
<1> QED
  BY <1>1 DEF NoRequest, Request

\* The types after a step that leaves the chain and the counts alone.
LEMMA Typed ==
    ASSUME ChainTypes, NEW l \in Loop, Grown,
           lpc' \in [Loop -> {"idle", "turn", "check", "build", "flight", "reply"}],
           conv' \in [Loop -> Seq(Message)], asking' \in [Loop -> Asking],
           req' = req \/ req' = [req EXCEPT ![l] = NoRequest],
           DOMAIN attempt' = Loop, DOMAIN reply' = Loop, UNCHANGED <<runs, turns, chain>>
    PROVE  ChainTypes'
<1>1. Len(stored) \in Nat /\ Len(stored') \in Nat /\ Len(stored) <= Len(stored')
  BY DEF ChainTypes, Grown
<1>2. req \in [Loop -> Request] /\ req' \in [Loop -> Request]
  BY Emptied DEF ChainTypes
<1>3. chain \in Chain /\ chain.id \in Nat /\ chain.id <= Len(stored)
  BY DEF ChainTypes, Chain
<1>4. chain'.id <= Len(stored')
  BY <1>1, <1>3
<1>5. ASSUME NEW m \in Loop PROVE req'[m].prev <= Len(stored')
  <2>1. req[m].prev \in Nat /\ req[m].prev <= Len(stored)
    BY <1>2 DEF ChainTypes, Request
  <2>2. req'[m].prev = req[m].prev \/ req'[m].prev = 0
    BY <1>2, Emptied
  <2> QED
    BY <1>1, <2>1, <2>2
<1> QED
  BY <1>2, <1>3, <1>4, <1>5 DEF ChainTypes, Grown

\* A request in flight is about the same conversation however much is stored.
LEMMA ContextKept ==
    ASSUME ChainTypes, NEW l \in Loop, Grown, req'[l] = req[l]
    PROVE  Context(req[l])' = Context(req[l])
<1>1. req[l].prev \in Nat /\ req[l].prev <= Len(stored) /\ Len(stored) \in Nat
  BY DEF ChainTypes, Request
<1>2. req[l].prev # 0 => stored'[req[l].prev] = stored[req[l].prev]
  BY <1>1 DEF Grown
<1> QED
  BY <1>2 DEF Context

LEMMA AnswerStep ==
    ASSUME CInv, NEW l \in Loop, Answer(l)
    PROVE  ChainTypes' /\ Stage(l)'
<1>1. ChainTypes /\ Stage(l) /\ lpc[l] = "flight"
  BY DEF CInv, Stages, Answer
<1>2. Opened(conv[l]) /\ Belongs(Talk(l)) /\ Context(req[l]) = Items(Talk(l))
  BY <1>1 DEF Stage
<1>3. PICK kind \in Answers : Stores(l, kind)
                             /\ reply' = [reply EXCEPT ![l] = [id |-> Len(stored'), kind |-> kind]]
  BY DEF Answer
<1>4. /\ Grown /\ Len(stored') \in 1..Len(stored')
      /\ stored'[Len(stored')] = Context(req[l]) \o Items(<<Output(l, kind)>>)
  BY <1>1, <1>3, StoresGrow
<1>5. /\ req' = [req EXCEPT ![l] = NoRequest] /\ attempt' = [attempt EXCEPT ![l] = 0]
      /\ lpc' = [lpc EXCEPT ![l] = "reply"]
      /\ UNCHANGED <<runs, turns, conv, asking, chain>>
  BY DEF Answer, Returned
<1>6. ChainTypes'
  <2>1. lpc' \in [Loop -> {"idle", "turn", "check", "build", "flight", "reply"}]
    BY <1>1, <1>5 DEF ChainTypes
  <2>2. DOMAIN attempt' = Loop /\ DOMAIN reply' = Loop
    BY <1>1, <1>3, <1>5 DEF ChainTypes
  <2>3. conv' \in [Loop -> Seq(Message)] /\ asking' \in [Loop -> Asking]
    BY <1>1, <1>5 DEF ChainTypes
  <2> QED
    BY <1>1, <1>4, <1>5, <2>1, <2>2, <2>3, Typed
<1>7. Talk(l)' = Talk(l) /\ Output(l, kind)' = Output(l, kind)
  BY <1>5 DEF Talk, Output
<1>8. lpc'[l] = "reply" /\ Opened(conv[l])' /\ Belongs(Talk(l))'
  BY <1>1, <1>2, <1>5, <1>7 DEF ChainTypes, Opened, Belongs
<1>9. reply'[l].kind = kind /\ reply'[l].id = Len(stored')
  BY <1>1, <1>3 DEF ChainTypes
<1>10. stored'[reply'[l].id] = Items(Talk(l)') \o Items(<<Output(l, reply[l].kind)'>>)
  BY <1>2, <1>4, <1>7, <1>9 DEF Output
<1> QED
  BY <1>4, <1>6, <1>8, <1>9, <1>10 DEF Stage

LEMMA CallAgainStep ==
    ASSUME CInv, NEW l \in Loop, CallAgain(l)
    PROVE  ChainTypes' /\ Stage(l)'
<1>1. ChainTypes /\ Stage(l) /\ lpc[l] = "flight"
  BY DEF CInv, Stages, CallAgain
<1>2. /\ Opened(conv[l]) /\ Belongs(Talk(l)) /\ Context(req[l]) = Items(Talk(l))
      /\ req[l].instructions = Instructions(Talk(l))
  BY <1>1 DEF Stage
<1>3. Grown
  BY <1>1, LosesGrow DEF CallAgain
<1>4. /\ attempt' = [attempt EXCEPT ![l] = @ + 1]
      /\ UNCHANGED <<lpc, runs, turns, conv, asking, req, reply, chain>>
  BY DEF CallAgain
<1>5. ChainTypes'
  <2>1. /\ lpc' \in [Loop -> {"idle", "turn", "check", "build", "flight", "reply"}]
        /\ conv' \in [Loop -> Seq(Message)] /\ asking' \in [Loop -> Asking]
        /\ DOMAIN attempt' = Loop /\ DOMAIN reply' = Loop
    BY <1>1, <1>4 DEF ChainTypes
  <2> QED
    BY <1>1, <1>3, <1>4, <2>1, Typed
<1>6. Talk(l)' = Talk(l)
  BY <1>4 DEF Talk
<1>7. Context(req[l])' = Items(Talk(l)')
  BY <1>1, <1>2, <1>3, <1>4, <1>6, ContextKept
<1>8. lpc'[l] = "flight" /\ Opened(conv[l])' /\ Belongs(Talk(l))'
      /\ req'[l].instructions = Instructions(Talk(l)')
  BY <1>1, <1>2, <1>4, <1>6 DEF Opened, Belongs
<1> QED
  BY <1>5, <1>7, <1>8 DEF Stage

\* After a compaction.
LEMMA Compacted ==
    ASSUME ChainTypes, NEW l \in Loop, Opened(conv[l]), Compact(l)
    PROVE  conv' \in [Loop -> Seq(Message)] /\ Opened(conv'[l])
<1> DEFINE carry == Text("user", <<"carryover", l, runs[l], turns[l]>>)
           s == <<System, carry>>
           last == Last(conv[l])
<1>1. runs[l] \in Nat /\ turns[l] \in Nat /\ conv[l] \in Seq(Message)
  BY DEF ChainTypes
<1>2. Speaks(carry)
  <2>1. carry \in Message
    BY <1>1, Texts
  <2> QED
    BY <2>1 DEF Speaks, Text
<1>3. last \in Message
  <2>1. Len(conv[l]) \in 1..Len(conv[l])
    BY <1>1 DEF Opened
  <2> QED
    BY <1>1, <2>1, ElementOfSeq DEF Last
<1> HIDE DEF carry, last
<1>4. s \in Seq(Message) /\ Opened(s)
  <2>1. System \in {System, Summarizer}
    OBVIOUS
  <2>2. s \in Seq(Message) /\ Len(s) = 2 /\ Instructions(s) = <<System>>
    BY <1>2, <2>1, Beginnings
  <2>3. s[1] = System
    OBVIOUS
  <2> QED
    BY <2>2, <2>3 DEF Opened
<1>5. conv' = [conv EXCEPT ![l] = s \o (IF last.role = "user" THEN <<last>> ELSE <<>>)]
  BY DEF Compact, carry, last
<1> HIDE DEF s
<1>6. s \o (IF last.role = "user" THEN <<last>> ELSE <<>>) \in Seq(Message)
      /\ Opened(s \o (IF last.role = "user" THEN <<last>> ELSE <<>>))
  <2>1. CASE last.role = "user"
    <3>1. ~IsInstruction(last)
      BY <2>1 DEF IsInstruction
    <3>2. s \o <<last>> = Append(s, last)
      BY <1>3, <1>4
    <3> QED
      BY <1>3, <1>4, <2>1, <3>1, <3>2, OneMore
  <2>2. CASE last.role # "user"
    <3>1. s \o <<>> = s
      BY <1>4
    <3> QED
      BY <1>4, <2>2, <3>1
  <2> QED
    BY <2>1, <2>2
<1> QED
  BY <1>5, <1>6 DEF ChainTypes

LEMMA FailStep ==
    ASSUME CInv, NEW l \in Loop, Fail(l)
    PROVE  ChainTypes' /\ Stage(l)'
<1>1. ChainTypes /\ Stage(l) /\ lpc[l] = "flight"
  BY DEF CInv, Stages, Fail
<1>2. Opened(conv[l]) /\ Belongs(Talk(l))
  BY <1>1 DEF Stage
<1>3. Grown
  BY <1>1, LosesGrow DEF Fail
<1>4. /\ req' = [req EXCEPT ![l] = NoRequest] /\ attempt' = [attempt EXCEPT ![l] = 0]
      /\ UNCHANGED <<runs, turns, reply, chain>>
  BY DEF Fail, Returned
<1>5. CASE asking[l] = "compact" /\ Compact(l) /\ Resume(l, "check", "turn")
  <2>1. conv' \in [Loop -> Seq(Message)] /\ Opened(conv'[l])
    BY <1>1, <1>2, <1>5, Compacted
  <2>2. lpc' = [lpc EXCEPT ![l] = "check"] /\ asking' = [asking EXCEPT ![l] = "turn"]
    BY <1>5 DEF Resume
  <2>3. ChainTypes'
    <3>1. /\ lpc' \in [Loop -> {"idle", "turn", "check", "build", "flight", "reply"}]
          /\ asking' \in [Loop -> Asking] /\ DOMAIN attempt' = Loop /\ DOMAIN reply' = Loop
      BY <1>1, <1>4, <2>2 DEF ChainTypes, Asking
    <3> QED
      BY <1>1, <1>3, <1>4, <2>1, <3>1, Typed
  <2>4. lpc'[l] = "check" /\ asking'[l] = "turn"
    BY <1>1, <2>2 DEF ChainTypes
  <2>5. Key(Talk(l)')[1] = System
    BY <2>1, <2>3, <2>4, TalksNext
  <2>6. Key(Talk(l))[1] = Summarizer
    BY <1>1, <1>2, <1>5, Talks
  <2>7. Fits(Talk(l))'
    BY <1>2, <1>4, <2>5, <2>6, TwoPrompts DEF Fits, Belongs
  <2>8. Opened(conv[l])'
    BY <2>1 DEF Opened
  <2> QED
    BY <2>3, <2>4, <2>7, <2>8 DEF Stage
<1>6. CASE Resume(l, "idle", "turn") /\ UNCHANGED conv
  <2>1. lpc' = [lpc EXCEPT ![l] = "idle"] /\ asking' = [asking EXCEPT ![l] = "turn"] /\ conv' = conv
    BY <1>6 DEF Resume
  <2>2. ChainTypes'
    <3>1. /\ lpc' \in [Loop -> {"idle", "turn", "check", "build", "flight", "reply"}]
          /\ asking' \in [Loop -> Asking] /\ DOMAIN attempt' = Loop /\ DOMAIN reply' = Loop
          /\ conv' \in [Loop -> Seq(Message)]
      BY <1>1, <1>4, <2>1 DEF ChainTypes, Asking
    <3> QED
      BY <1>1, <1>3, <1>4, <3>1, Typed
  <2>3. lpc'[l] = "idle" /\ asking'[l] = "turn"
    BY <1>1, <2>1 DEF ChainTypes
  <2> QED
    BY <2>2, <2>3 DEF Stage
<1> QED
  BY <1>5, <1>6 DEF Fail

LEMMA ExhaustedStep ==
    ASSUME CInv, NEW l \in Loop, Exhausted(l)
    PROVE  ChainTypes' /\ Stage(l)'
<1>1. ChainTypes /\ Stage(l) /\ lpc[l] = "turn"
  BY DEF CInv, Stages, Exhausted
<1>2. Opened(conv[l]) /\ Fits(conv[l]) /\ conv[l] \in Seq(Message)
  BY <1>1 DEF Stage, Talk, ChainTypes
<1>3. UNCHANGED <<runs, turns, attempt, req, reply, chain, stored>>
  BY DEF Exhausted
<1>4. Grown
  BY <1>1, <1>3 DEF Grown, ChainTypes
<1>5. CASE Resume(l, "idle", "turn") /\ UNCHANGED conv
  <2>1. lpc' = [lpc EXCEPT ![l] = "idle"] /\ asking' = [asking EXCEPT ![l] = "turn"] /\ conv' = conv
    BY <1>5 DEF Resume
  <2>2. ChainTypes'
    <3>1. /\ lpc' \in [Loop -> {"idle", "turn", "check", "build", "flight", "reply"}]
          /\ asking' \in [Loop -> Asking] /\ DOMAIN attempt' = Loop /\ DOMAIN reply' = Loop
          /\ conv' \in [Loop -> Seq(Message)]
      BY <1>1, <1>3, <2>1 DEF ChainTypes, Asking
    <3> QED
      BY <1>1, <1>3, <1>4, <3>1, Typed
  <2>3. lpc'[l] = "idle" /\ asking'[l] = "turn"
    BY <1>1, <2>1 DEF ChainTypes
  <2> QED
    BY <2>2, <2>3 DEF Stage
<1>6. CASE Resume(l, "check", "final") /\ conv' = [conv EXCEPT ![l] = Append(@, FinalPrompt(l))]
  <2>1. lpc' = [lpc EXCEPT ![l] = "check"] /\ asking' = [asking EXCEPT ![l] = "final"]
    BY <1>6 DEF Resume
  <2>2. Speaks(FinalPrompt(l))
    BY <1>1, FinalSpeaks
  <2>3. /\ Append(conv[l], FinalPrompt(l)) \in Seq(Message) /\ Opened(Append(conv[l], FinalPrompt(l)))
        /\ Fits(Append(conv[l], FinalPrompt(l)))
    BY <1>1, <1>2, <2>2, FitsAppend
  <2>4. ChainTypes'
    <3>1. /\ lpc' \in [Loop -> {"idle", "turn", "check", "build", "flight", "reply"}]
          /\ asking' \in [Loop -> Asking] /\ DOMAIN attempt' = Loop /\ DOMAIN reply' = Loop
      BY <1>1, <1>3, <2>1 DEF ChainTypes, Asking
    <3>2. conv' \in [Loop -> Seq(Message)]
      BY <1>1, <1>6, <2>3 DEF ChainTypes
    <3> QED
      BY <1>1, <1>3, <1>4, <3>1, <3>2, Typed
  <2>5. lpc'[l] = "check" /\ asking'[l] = "final" /\ conv'[l] = Append(conv[l], FinalPrompt(l))
    BY <1>1, <1>6, <2>1 DEF ChainTypes
  <2>6. Opened(conv[l])'
    BY <2>3, <2>5 DEF Opened
  <2>7. Talk(l)' = conv'[l]
    BY <2>5 DEF Talk
  <2>8. Fits(Talk(l))'
    BY <1>3, <2>3, <2>5, <2>7 DEF Fits, Belongs, Whole, Joins
  <2> QED
    BY <2>4, <2>5, <2>6, <2>8 DEF Stage
<1> QED
  BY <1>5, <1>6 DEF Exhausted

LEMMA TwoMore ==
    ASSUME NEW S, NEW s \in Seq(S), NEW a \in S, NEW b \in S
    PROVE  s \o <<a>> \o <<b>> = Append(Append(s, a), b)
<1>1. s \o <<a>> = Append(s, a) /\ Append(s, a) \in Seq(S)
  OBVIOUS
<1>2. ASSUME NEW t \in Seq(S) PROVE t \o <<b>> = Append(t, b)
  OBVIOUS
<1> QED
  BY <1>1, <1>2

\* A turn or finalization that is answered and goes on: the answer and one
\* message more, and the chain that now ends with the answer.
LEMMA GoesOn ==
    ASSUME ChainTypes, NEW l \in Loop, Stage(l), lpc[l] = "reply", asking[l] # "compact",
           Remember(l), stored' = stored, NEW m, Speaks(m),
           NEW t, t = conv[l] \o <<Output(l, reply[l].kind)>> \o <<m>>
    PROVE  /\ t \in Seq(Message) /\ Opened(t) /\ Fits(t)' /\ chain'.key[1] = System
<1> DEFINE s == conv[l]
           o == Output(l, reply[l].kind)
           id == reply[l].id
<1>1. Talk(l) = s /\ Opened(s) /\ Belongs(s) /\ s \in Seq(Message)
  BY DEF Stage, Talk, ChainTypes
<1>2. reply[l].kind \in Answers /\ id \in 1..Len(stored) /\ stored[id] = Items(s) \o Items(<<o>>)
  BY <1>1 DEF Stage
<1>3. o \in Message /\ o.role = "assistant"
  BY <1>2, Outputs DEF ChainTypes
<1>4. stored[id] \in Seq(Message)
  <2>1. stored \in Seq(Seq(Message))
    BY DEF ChainTypes
  <2>2. id \in 1..Len(stored)
    BY <1>2
  <2> HIDE DEF id
  <2> QED
    BY <2>1, <2>2, ElementOfSeq
<1>5. chain' = [chain EXCEPT !.id = id, !.count = Len(s)]
  BY <1>1 DEF Remember
<1>6. /\ chain'.id = id /\ chain'.count = Len(s) /\ chain'.key = chain.key
      /\ chain'.instructions = chain.instructions
  BY <1>5 DEF ChainTypes, Chain
<1> HIDE DEF s, o, id
<1>7. Joins(id, Len(s), Append(s, o)) /\ Len(s) \in Nat /\ ~IsInstruction(o)
  BY <1>1, <1>2, <1>3, AnswerJoins
<1>8. m \in Message /\ ~IsInstruction(m)
  BY SpeaksNew
<1>9. /\ Append(s, o) \in Seq(Message) /\ Opened(Append(s, o))
      /\ Key(Append(s, o)) = Key(s) /\ Instructions(Append(s, o)) = Instructions(s)
  BY <1>1, <1>3, <1>7, OneMore
<1>10. t = Append(Append(s, o), m)
  <2>1. t = s \o <<o>> \o <<m>>
    BY DEF s, o
  <2>2. s \in Seq(Message) /\ o \in Message /\ m \in Message
    BY <1>1, <1>3, <1>8
  <2>3. s \o <<o>> \o <<m>> = Append(Append(s, o), m)
    BY ONLY <2>2, TwoMore
  <2> QED
    BY ONLY <2>1, <2>3
<1>11. /\ t \in Seq(Message) /\ Opened(t) /\ Key(t) = Key(s) /\ Instructions(t) = Instructions(s)
  BY <1>8, <1>9, <1>10, OneMore
<1>12. Joins(id, Len(s), t)
  BY <1>4, <1>7, <1>9, <1>10, JoinsAppend
<1>13. Fits(t)'
  BY <1>1, <1>6, <1>11, <1>12 DEF Fits, Belongs, Whole, Joins
<1>14. chain'.key[1] = System
  BY <1>1, <1>6, Openings DEF Belongs
<1> QED
  BY <1>11, <1>13, <1>14

\* The types once the provider has remembered an answer.
LEMMA Remembered ==
    ASSUME ChainTypes, NEW l \in Loop, Stage(l), lpc[l] = "reply", Remember(l),
           reply' = [reply EXCEPT ![l] = 0], UNCHANGED <<runs, turns, attempt, req, stored>>,
           NEW pc \in {"idle", "turn", "check"}, NEW what \in Asking, Resume(l, pc, what),
           conv' \in [Loop -> Seq(Message)]
    PROVE  ChainTypes' /\ lpc'[l] = pc /\ asking'[l] = what
<1>1. lpc' = [lpc EXCEPT ![l] = pc] /\ asking' = [asking EXCEPT ![l] = what]
  BY DEF Resume
<1>2. /\ lpc' \in [Loop -> {"idle", "turn", "check", "build", "flight", "reply"}]
      /\ asking' \in [Loop -> Asking] /\ lpc'[l] = pc /\ asking'[l] = what
  BY <1>1 DEF ChainTypes
<1>3. reply[l].id \in 1..Len(stored) /\ Len(stored) \in Nat /\ Opened(conv[l])
  BY DEF Stage, ChainTypes
<1>4. Len(Talk(l)) \in Nat
  <2>1. Talk(l) \in Seq(Message)
    BY <1>3, Talks
  <2> QED
    BY <2>1
<1>5. chain' = [chain EXCEPT !.id = reply[l].id, !.count = Len(Talk(l))]
  BY DEF Remember
<1>6. chain' \in Chain /\ chain'.id <= Len(stored)
  <2> DEFINE id == reply[l].id
             count == Len(Talk(l))
  <2>1. id \in Nat /\ id <= Len(stored) /\ count \in Nat
    BY <1>3, <1>4
  <2>2. chain' = [chain EXCEPT !.id = id, !.count = count]
    BY <1>5
  <2> HIDE DEF id, count
  <2> QED
    BY <2>1, <2>2 DEF ChainTypes, Chain
<1> QED
  BY <1>2, <1>6 DEF ChainTypes

\* The conversation after the answer and one message more.
LEMMA Added ==
    ASSUME ChainTypes, NEW l \in Loop, Stage(l), lpc[l] = "reply", asking[l] # "compact",
           Remember(l), reply' = [reply EXCEPT ![l] = 0],
           UNCHANGED <<runs, turns, attempt, req, stored>>,
           NEW pc \in {"turn", "check"}, NEW what \in {"turn", "final"}, Resume(l, pc, what),
           pc = "turn" => what = "turn", NEW m, Speaks(m),
           conv' = [conv EXCEPT ![l] = @ \o <<Output(l, reply[l].kind)>> \o <<m>>]
    PROVE  ChainTypes' /\ Stage(l)'
<1>0. PICK t : t = conv[l] \o <<Output(l, reply[l].kind)>> \o <<m>>
  OBVIOUS
<1>1. conv' = [conv EXCEPT ![l] = t]
  BY <1>0
<1>2. t \in Seq(Message) /\ Opened(t) /\ Fits(t)' /\ chain'.key[1] = System
  <2>1. stored' = stored
    OBVIOUS
  <2> QED
    BY <1>0, <2>1, GoesOn
<1>3. conv' \in [Loop -> Seq(Message)] /\ conv'[l] = t
  BY <1>1, <1>2 DEF ChainTypes
<1>4. ChainTypes' /\ lpc'[l] = pc /\ asking'[l] = what
  <2>1. what \in Asking /\ pc \in {"idle", "turn", "check"}
    BY DEF Asking
  <2>2. conv' \in [Loop -> Seq(Message)]
    BY <1>3
  <2> QED
    BY ONLY ChainTypes, l \in Loop, Stage(l), lpc[l] = "reply", Remember(l),
       reply' = [reply EXCEPT ![l] = 0], UNCHANGED <<runs, turns, attempt, req, stored>>,
       Resume(l, pc, what), <2>1, <2>2, Remembered
<1>5. Talk(l)' = t /\ Opened(conv[l])'
  BY <1>2, <1>3, <1>4 DEF Talk, Opened
<1>6. Fits(Talk(l))'
  BY <1>2, <1>5 DEF Fits, Belongs, Whole, Joins
<1> QED
  BY <1>2, <1>4, <1>5, <1>6 DEF Stage

LEMMA ReceiveStep ==
    ASSUME CInv, NEW l \in Loop, Receive(l)
    PROVE  ChainTypes' /\ Stage(l)'
<1>1. ChainTypes /\ Stage(l) /\ lpc[l] = "reply"
  BY DEF CInv, Stages, Receive
<1>2. Opened(conv[l]) /\ Belongs(Talk(l))
  BY <1>1 DEF Stage
<1>3. /\ Remember(l) /\ reply' = [reply EXCEPT ![l] = 0]
      /\ UNCHANGED <<runs, turns, attempt, req, stored>>
  BY DEF Receive
<1>4. runs[l] \in Nat /\ turns[l] \in Nat
  BY <1>1 DEF ChainTypes
<1>5. CASE asking[l] = "compact" /\ Compact(l) /\ Resume(l, "check", "turn")
  <2>1. conv' \in [Loop -> Seq(Message)] /\ Opened(conv'[l])
    BY <1>1, <1>2, <1>5, Compacted
  <2>2. ChainTypes' /\ lpc'[l] = "check" /\ asking'[l] = "turn"
    <3>1. "turn" \in Asking /\ "check" \in {"idle", "turn", "check"}
      BY DEF Asking
    <3> QED
      BY <1>1, <1>3, <1>5, <2>1, <3>1, Remembered
  <2>3. Key(Talk(l)')[1] = System
    BY <2>1, <2>2, TalksNext
  <2>4. Key(Talk(l))[1] = Summarizer
    BY <1>1, <1>2, <1>5, Talks
  <2>5. chain'.key = Key(Talk(l))
    BY <1>1, <1>2, <1>3 DEF Remember, Belongs, ChainTypes, Chain
  <2>6. Fits(Talk(l))'
    BY <2>3, <2>4, <2>5, TwoPrompts DEF Fits
  <2>7. Opened(conv[l])'
    BY <2>1 DEF Opened
  <2> QED
    BY <2>2, <2>6, <2>7 DEF Stage
<1>6. CASE \E m : /\ Speaks(m) /\ asking[l] # "compact"
                  /\ conv' = [conv EXCEPT ![l] = @ \o <<Output(l, reply[l].kind)>> \o <<m>>]
                  /\ (Resume(l, "turn", "turn") \/ Resume(l, "check", "final"))
  <2>1. PICK m : /\ Speaks(m) /\ asking[l] # "compact"
                 /\ conv' = [conv EXCEPT ![l] = @ \o <<Output(l, reply[l].kind)>> \o <<m>>]
                 /\ (Resume(l, "turn", "turn") \/ Resume(l, "check", "final"))
    BY <1>6
  <2>2. CASE Resume(l, "turn", "turn")
    <3>1. "turn" \in {"turn", "check"} /\ "turn" \in {"turn", "final"}
      OBVIOUS
    <3> QED
      BY <1>1, <1>3, <2>1, <2>2, <3>1, Added
  <2>3. CASE Resume(l, "check", "final")
    <3>1. "check" \in {"turn", "check"} /\ "final" \in {"turn", "final"} /\ "check" # "turn"
      OBVIOUS
    <3> QED
      BY <1>1, <1>3, <2>1, <2>3, <3>1, Added
  <2> QED
    BY <2>1, <2>2, <2>3
<1>7. CASE Resume(l, "idle", "turn") /\ UNCHANGED conv
  <2>1. conv' \in [Loop -> Seq(Message)]
    BY <1>1, <1>7 DEF ChainTypes
  <2>2. ChainTypes' /\ lpc'[l] = "idle" /\ asking'[l] = "turn"
    <3>1. "turn" \in Asking /\ "idle" \in {"idle", "turn", "check"}
      BY DEF Asking
    <3> QED
      BY <1>1, <1>3, <1>7, <2>1, <3>1, Remembered
  <2> QED
    BY <2>2 DEF Stage
<1>8. \/ asking[l] = "compact" /\ Compact(l) /\ Resume(l, "check", "turn")
      \/ \E m : /\ Speaks(m) /\ asking[l] # "compact"
                /\ conv' = [conv EXCEPT ![l] = @ \o <<Output(l, reply[l].kind)>> \o <<m>>]
                /\ (Resume(l, "turn", "turn") \/ Resume(l, "check", "final"))
      \/ Resume(l, "idle", "turn") /\ UNCHANGED conv
  <2> DEFINE result == [role |-> "tool", call |-> FALSE, text |-> <<"result", l, runs[l], turns[l]>>]
  <2>1. Speaks(result)
    <3>1. result = Text("tool", <<"result", l, runs[l], turns[l]>>)
      BY DEF Text
    <3>2. result \in Message
      BY <1>4, <3>1, Texts
    <3> QED
      BY <3>2 DEF Speaks
  <2>2. Speaks(FinalPrompt(l))
    BY <1>1, FinalSpeaks
  <2>3. Use(l, reply[l].kind)
    BY DEF Receive
  <2> DEFINE add(m) == conv' = [conv EXCEPT ![l] = @ \o <<Output(l, reply[l].kind)>> \o <<m>>]
  <2>4. \/ asking[l] = "compact" /\ Compact(l) /\ Resume(l, "check", "turn")
        \/ asking[l] # "compact" /\ add(result) /\ Resume(l, "turn", "turn")
        \/ asking[l] # "compact" /\ add(FinalPrompt(l)) /\ Resume(l, "check", "final")
        \/ Resume(l, "idle", "turn") /\ UNCHANGED conv
    BY <2>3 DEF Use
  <2> HIDE DEF result
  <2> QED
    BY <2>1, <2>2, <2>4
<1> QED
  BY <1>5, <1>6, <1>7, <1>8
-----------------------------------------------------------------------------
LEMMA CInit == Init => CInv
<1> SUFFICES ASSUME Init PROVE CInv
  OBVIOUS
<1>1. <<>> \in Seq(Message) /\ <<>> \in Seq(Seq(Message)) /\ Len(<<>>) = 0
  OBVIOUS
<1>2. NoChain \in Chain /\ NoChain.id = 0
  BY <1>1 DEF NoChain, Chain
<1>3. ChainTypes
  BY <1>1, <1>2, Emptied DEF Init, ChainTypes, Asking
<1>4. \A l \in Loop : lpc[l] = "idle" /\ asking[l] = "turn"
  BY DEF Init
<1> QED
  BY <1>3, <1>4 DEF CInv, TakeTurns, Stages, Stage

\* What the other loops, idle as they are, are asking.
LEMMA OthersWait ==
    ASSUME ChainTypes, NEW l \in Loop, LoopStep(l), NEW m \in Loop \ {l}
    PROVE  asking'[m] = asking[m]
<1>1. asking \in [Loop -> Asking]
  BY DEF ChainTypes
<1>2. CASE Start(l)
  BY <1>1, <1>2 DEF Start
<1>3. CASE Turn(l)
  BY <1>1, <1>3 DEF Turn
<1>4. CASE CheckKey(l)
  BY <1>1, <1>4 DEF CheckKey
<1>5. CASE Build(l)
  BY <1>1, <1>5 DEF Build
<1>6. CASE Answer(l)
  BY <1>1, <1>6 DEF Answer
<1>7. CASE CallAgain(l)
  BY <1>1, <1>7 DEF CallAgain
<1>8. CASE Fail(l)
  BY <1>1, <1>8 DEF Fail, Resume
<1>9. CASE Receive(l)
  BY <1>1, <1>9 DEF Receive, Use, Resume
<1>10. CASE Exhausted(l)
  BY <1>1, <1>10 DEF Exhausted, Resume
<1> QED
  BY <1>2, <1>3, <1>4, <1>5, <1>6, <1>7, <1>8, <1>9, <1>10 DEF LoopStep

LEMMA CStep ==
    ASSUME Exclusive, CInv, [Next]_vars
    PROVE  CInv'
<1>1. CASE UNCHANGED vars
  <2>1. UNCHANGED <<lpc, runs, turns, conv, asking, attempt, req, reply, chain, stored>>
    BY <1>1 DEF vars
  <2>2. ChainTypes' /\ TakeTurns'
    BY <2>1 DEF CInv, ChainTypes, TakeTurns
  <2>3. ASSUME NEW l \in Loop PROVE Stage(l)'
    <3>1. Talk(l)' = Talk(l) /\ Context(req[l])' = Context(req[l])
          /\ Output(l, reply[l].kind)' = Output(l, reply[l].kind)
      BY <2>1 DEF Talk, Context, Output
    <3>2. Stage(l)
      BY DEF CInv, Stages
    <3>3. /\ Opened(conv[l])' = Opened(conv[l]) /\ Fits(Talk(l))' = Fits(Talk(l))
          /\ Belongs(Talk(l))' = Belongs(Talk(l)) /\ Whole(Talk(l))' = Whole(Talk(l))
      BY <2>1, <3>1 DEF Opened, Fits, Belongs, Whole, Joins
    <3> QED
      BY <2>1, <3>1, <3>2, <3>3 DEF Stage
  <2> QED
    BY <2>2, <2>3 DEF CInv, Stages
<1>2. ASSUME NEW l \in Loop, LoopStep(l) PROVE CInv'
  <2>1. ChainTypes' /\ Stage(l)'
    BY <1>2, StartStep, TurnStep, CheckKeyStep, BuildStep, AnswerStep, CallAgainStep, FailStep,
       ReceiveStep, ExhaustedStep DEF LoopStep
  <2>2. \A m \in Loop \ {l} : lpc[m] = "idle" /\ lpc'[m] = "idle"
    BY <1>2, OnlyOne
  <2>3. ASSUME NEW m \in Loop \ {l} PROVE Stage(m)'
    <3>1. asking[m] = "turn"
      BY <2>2 DEF CInv, Stages, Stage
    <3>2. asking'[m] = "turn"
      BY <1>2, <3>1, OthersWait DEF CInv
    <3> QED
      BY <2>2, <3>2 DEF Stage
  <2>4. TakeTurns'
    BY <2>2 DEF TakeTurns
  <2>5. Stages'
    BY <2>1, <2>3 DEF Stages
  <2> QED
    BY <2>1, <2>4, <2>5 DEF CInv
<1> QED
  BY <1>1, <1>2 DEF Next

\* Where loops take turns on a provider, the chain it keeps is that of the
\* conversation at work, or of none (what _reset_responses_state and
\* reset_conversation are for), and what the service has of it lacks exactly
\* the messages the provider counts as new.
THEOREM ChainInvariant ==
    ASSUME Exclusive PROVE Spec => []CInv
<1>1. CInv /\ [Next]_vars => CInv'
  BY CStep
<1> QED
  BY <1>1, CInit, PTL DEF Spec

\* A request, with what the service has stored under its previous id, is the
\* loop's whole conversation, each message once: after tool calls, steering,
\* compactions, empty answers, retries and answers that were lost.
THEOREM RequestsAreWhole ==
    ASSUME Exclusive PROVE Spec => []FullContext
<1>1. CInv => FullContext
  BY DEF CInv, Stages, Stage, FullContext
<1> QED
  BY <1>1, ChainInvariant, PTL

\* The instructions that go with a request are those of its own conversation,
\* although the provider keeps those of the conversation before.
THEOREM InstructionsAreRight ==
    ASSUME Exclusive PROVE Spec => []InstructionsFollow
<1>1. CInv => InstructionsFollow
  BY DEF CInv, Stages, Stage, InstructionsFollow
<1> QED
  BY <1>1, ChainInvariant, PTL
=============================================================================
