----------------------------- MODULE ToolProofs -----------------------------
(***************************************************************************)
(* For any tools, names, registries, threads, changes and batches: what    *)
(* the shared resolver answers and when it raises, what a batch returns    *)
(* and what the loader registers; and, for any calls and containers, what  *)
(* a call does in the workspace they share.                                *)
(*                                                                         *)
(* Resolver: a thread that resolves a name carries something it has seen   *)
(* a step ago. Either that is still so, or a change came in between, and   *)
(* what a change overtakes is on record (Carries): for a name that is      *)
(* found, in what was right since the cache was cleared (Found), for one   *)
(* that is not, in when there was last nothing to find (Lacking), and for  *)
(* what it saw in a cache, in the other threads it has met (Seen).         *)
(*                                                                         *)
(* Batches: a call is at one place at most (Once), and its future is       *)
(* pending exactly while it is queued or at work (Collected).              *)
(*                                                                         *)
(* Loader: by induction on the list of entries (LoadIs, ConfigIs).         *)
(*                                                                         *)
(* Workspace: containers that are up together have met, so what a call     *)
(* finds was put there by itself or by a call it has met.                  *)
(***************************************************************************)
EXTENDS ToolRegistry, Workspace, Integers, SequenceTheorems, WellFoundedInduction, TLAPS

Item == [caller : Caller, round : Nat, place : Nat,
         call : [name : Name, arguments : Arguments], phase : {"queued", "cancelled"}]

IsState(q) ==
    /\ q = [at |-> q.at, name |-> q.name, policy |-> q.policy, result |-> q.result, met |-> q.met]
    /\ q.at # "idle" => q.name \in Name

Shape ==
    /\ DOMAIN tools = Registry /\ \A r \in Registry : NoName \notin tools[r]
    /\ registry \in Registry \cup {NoRegistry}
    /\ DOMAIN aliases = Name /\ DOMAIN cache = Name /\ DOMAIN missed = Name
    /\ DOMAIN resolving = Thread /\ \A t \in Thread : IsState(resolving[t])
    /\ loading # NotLoading => \A r \in Registry : tools[r] = {}

Overtaken(n) == changing \/ past[n].raced

Known(n) ==
    /\ RightNow(n) \subseteq past[n].right
    /\ RightNow(n) = {} => past[n].lacked = "fresh"
    /\ missed[n] = "fresh" => past[n].lacked = "fresh"
    /\ cache[n] # NoName => Overtaken(n) \/ (cache[n] \in past[n].right /\ Registered(cache[n]))

Found(q) ==
    \/ Overtaken(q.name)
    \/ /\ q.at = "verify" /\ q.policy = 0 => q.result = aliases[q.name]
       /\ q.at = "verify" /\ q.policy = 1 /\ q.result # NoName => q.result \in past[q.name].right
       /\ q.at = "policy" /\ q.policy = 1 => Close(q.name) \subseteq past[q.name].right
       /\ q.at = "store" => q.result \in past[q.name].right /\ Registered(q.result)
       /\ q.at = "done" /\ q.result # NoName => q.result \in past[q.name].right

Lacking(q) ==
    \/ past[q.name].lacked = "fresh"
    \/ /\ q.at = "verify" /\ q.policy = 0 => q.result = aliases[q.name]
       /\ q.at = "verify" /\ q.policy = 1 => q.result # NoName /\ Registered(q.result)
       /\ q.at = "policy" /\ q.policy = 1 => ~Registered(aliases[q.name])
       /\ q.at # "miss"
       /\ q.at = "done" /\ q.result = NoName => Overtaken(q.name)

Seen(q) ==
    /\ q.at = "cached" => cache[q.name] # NoName \/ Overtaken(q.name)
    /\ q.at \in {"aged", "expire"} => missed[q.name] # "none" \/ q.met
    /\ q.at = "raised" => q.met \/ Overtaken(q.name) \/ registry = NoRegistry
    /\ q.at \in {"look", "misses", "aged", "expire"} => q.policy = 0
    /\ q.at \in {"policy", "verify"} => q.policy \in {0, 1}
    /\ q.at = "store" => q.result # NoName

Carries(q) == q.at # "idle" => Found(q) /\ Lacking(q) /\ Seen(q)

Met ==
    \A t, u \in Thread :
       /\ t # u /\ resolving[t].at # "idle" /\ resolving[u].at # "idle"
       /\ resolving[t].name = resolving[u].name
       => resolving[t].met

RInv ==
    /\ Shape /\ Met
    /\ \A n \in Name : Known(n)
    /\ \A t \in Thread : Carries(resolving[t])
-----------------------------------------------------------------------------
\* What others do to the caches is no harm.
LEMMA StillCarries ==
    ASSUME NEW p, Carries(p), IsState(p), Alone,
           \A n \in Name : cache[n] # NoName => cache'[n] # NoName,
           p.at # "idle" /\ missed[p.name] # "none" /\ missed'[p.name] = "none" => p.met
    PROVE  Carries(p)'
<1> SUFFICES ASSUME p.at # "idle" PROVE Found(p)' /\ Lacking(p)' /\ Seen(p)'
  BY DEF Carries
<1>1. UNCHANGED <<tools, registry, aliases, changing, past>>
  BY DEF Alone
<1>2. p.name \in Name /\ Found(p) /\ Lacking(p) /\ Seen(p)
  BY DEF Carries, IsState
<1>3. Found(p)' /\ Lacking(p)'
  BY <1>1, <1>2 DEF Found, Lacking, Overtaken, Close, Registered
<1>4. Seen(p)'
  BY <1>1, <1>2 DEF Seen, Overtaken
<1> QED
  BY <1>3, <1>4

\* A thread takes a step of its own.
LEMMA OwnStep ==
    ASSUME RInv, NEW t \in Thread, resolving[t].at # "idle",
           NEW q, q.at # "idle", q.name = resolving[t].name, q.met = resolving[t].met,
           q = [at |-> q.at, name |-> q.name, policy |-> q.policy, result |-> q.result, met |-> q.met],
           resolving' = [resolving EXCEPT ![t] = q], Alone, UNCHANGED loading,
           DOMAIN cache' = Name, DOMAIN missed' = Name,
           \A n \in Name : Known(n)',
           \A n \in Name : cache[n] # NoName => cache'[n] # NoName,
           \A n \in Name : missed[n] # "none" /\ missed'[n] = "none" => n = resolving[t].name,
           Found(q)', Lacking(q)', Seen(q)'
    PROVE  RInv'
<1>1. UNCHANGED <<tools, registry, aliases, changing, past>>
  BY DEF Alone
<1>2. resolving[t].name \in Name /\ DOMAIN resolving = Thread
  BY DEF RInv, Shape, IsState
<1>3. resolving'[t] = q /\ \A u \in Thread : u # t => resolving'[u] = resolving[u]
  BY <1>2
<1>4. Shape'
  <2>1. \A u \in Thread : IsState(resolving'[u])
    BY <1>2, <1>3 DEF RInv, Shape, IsState
  <2>2. DOMAIN resolving' = Thread
    BY <1>2
  <2>3. /\ DOMAIN tools = Registry /\ \A r \in Registry : NoName \notin tools[r]
        /\ registry \in Registry \cup {NoRegistry} /\ DOMAIN aliases = Name
        /\ loading # NotLoading => \A r \in Registry : tools[r] = {}
    BY DEF RInv, Shape
  <2>4. \A u \in Thread : IsState(resolving[u])'
    BY <2>1 DEF IsState
  <2> HIDE DEF IsState
  <2> QED
    BY <1>1, <2>2, <2>3, <2>4 DEF Shape
<1>5. Met'
  <2> SUFFICES ASSUME NEW u \in Thread, NEW v \in Thread, u # v, resolving'[u].at # "idle",
                      resolving'[v].at # "idle", resolving'[u].name = resolving'[v].name
               PROVE  resolving'[u].met
    BY DEF Met
  <2>1. /\ resolving[u].at # "idle" /\ resolving[v].at # "idle" /\ resolving[u].name = resolving[v].name
        /\ resolving'[u].met = resolving[u].met
    BY <1>3
  <2> QED
    BY <2>1 DEF RInv, Met
<1>6. ASSUME NEW u \in Thread PROVE Carries(resolving[u])'
  <2>1. CASE u = t
    <3>1. Carries(q)'
      BY DEF Carries
    <3> QED
      BY <1>3, <2>1, <3>1 DEF Carries, Found, Lacking, Seen
  <2>2. CASE u # t
    <3>1. PICK p : p = resolving[u]
      OBVIOUS
    <3>2. Carries(p) /\ IsState(p) /\ p = resolving'[u]
      BY <1>3, <2>2, <3>1 DEF RInv, Shape
    <3>3. p.at # "idle" /\ p.name = resolving[t].name => p.met
      BY <2>2, <3>1 DEF RInv, Met
    <3>4. p.at # "idle" /\ missed[p.name] # "none" /\ missed'[p.name] = "none" => p.met
      BY <3>2, <3>3 DEF IsState
    <3>5. Carries(p)'
      BY <3>2, <3>4, StillCarries
    <3> QED
      BY <3>2, <3>5 DEF Carries, Found, Lacking, Seen
  <2> QED
    BY <2>1, <2>2
<1> QED
  BY <1>4, <1>5, <1>6 DEF RInv

LEMMA SameKnown ==
    ASSUME NEW n \in Name, Known(n), Alone, cache'[n] = cache[n], missed'[n] = missed[n] PROVE Known(n)'
  BY DEF Known, Alone, Overtaken, RightNow, Close, Registered

LEMMA SameFound ==
    ASSUME NEW q, Found(q), Lacking(q), Alone PROVE Found(q)' /\ Lacking(q)'
  BY DEF Found, Lacking, Overtaken, Alone, Close, Registered

\* A step that leaves the caches alone.
LEMMA ReadStep ==
    ASSUME RInv, NEW t \in Thread, resolving[t].at # "idle",
           NEW at, NEW policy, NEW result, Move(t, at, policy, result), ReadOnly, UNCHANGED loading,
           NEW q, q = [at |-> at, name |-> resolving[t].name, policy |-> policy,
                       result |-> result, met |-> resolving[t].met],
           at # "idle", Found(q), Lacking(q), Seen(q)
    PROVE  RInv'
<1>1. /\ q.at = at /\ q.name = resolving[t].name /\ q.met = resolving[t].met
      /\ q.policy = policy /\ q.result = result
      /\ q = [at |-> q.at, name |-> q.name, policy |-> q.policy, result |-> q.result, met |-> q.met]
      /\ resolving' = [resolving EXCEPT ![t] = q]
  BY DEF Move
<1>2. Alone /\ UNCHANGED <<cache, missed>>
  BY DEF ReadOnly
<1>3. DOMAIN cache' = Name /\ DOMAIN missed' = Name
  BY <1>2 DEF RInv, Shape
<1>4. \A n \in Name : Known(n)'
  BY <1>2, SameKnown DEF RInv
<1>5. Found(q)' /\ Lacking(q)'
  BY <1>2, SameFound
<1>6. Seen(q)'
  BY <1>2 DEF Seen, Alone, Overtaken
<1>7. /\ \A n \in Name : cache[n] # NoName => cache'[n] # NoName
      /\ \A n \in Name : missed[n] # "none" /\ missed'[n] = "none" => n = resolving[t].name
  BY <1>2
<1>8. q.at # "idle"
  BY <1>1
<1> QED
  BY <1>1, <1>2, <1>3, <1>4, <1>5, <1>6, <1>7, <1>8, OwnStep

\* What a thread that resolves a name knows.
LEMMA InHand ==
    ASSUME RInv, NEW t \in Thread, resolving[t].at # "idle", NEW p, p = resolving[t]
    PROVE  p.name \in Name /\ Known(p.name) /\ Found(p) /\ Lacking(p) /\ Seen(p)
  BY DEF RInv, Shape, IsState, Carries

LEMMA LookKeeps ==
    ASSUME RInv, NEW t \in Thread, Look(t), UNCHANGED loading PROVE RInv'
<1>1. PICK p : p = resolving[t]
  OBVIOUS
<1> DEFINE at == IF cache[p.name] # NoName THEN "cached" ELSE "misses"
<1>2. PICK q : q = [at |-> at, name |-> p.name, policy |-> p.policy, result |-> p.result, met |-> p.met]
  OBVIOUS
<1>3. p.at = "look" /\ Move(t, at, p.policy, p.result) /\ ReadOnly
  BY <1>1 DEF Look, Here, Goto
<1>4. q.at = at /\ q.name = p.name /\ at \in {"cached", "misses"} /\ (at = "cached" => cache[p.name] # NoName)
      /\ q.policy = p.policy
  BY <1>2
<1>6. p.policy = 0
  BY <1>1, <1>3, InHand DEF Seen
<1> HIDE DEF at
<1>5. Found(q) /\ Lacking(q) /\ Seen(q)
  BY <1>4, <1>6 DEF Found, Lacking, Seen
<1> QED
  BY <1>1, <1>2, <1>3, <1>4, <1>5, ReadStep

LEMMA CachedKeeps ==
    ASSUME RInv, NEW t \in Thread, Cached(t), UNCHANGED loading PROVE RInv'
<1>1. PICK p : p = resolving[t]
  OBVIOUS
<1>2. p.at = "cached" /\ ReadOnly /\ p.at # "idle"
  BY <1>1 DEF Cached, Here
<1>3. Known(p.name) /\ Seen(p)
  BY <1>1, <1>2, InHand
<1>4. CASE cache[p.name] = NoName
  <2>1. PICK q : q = [at |-> "raised", name |-> p.name, policy |-> p.policy, result |-> p.result, met |-> p.met]
    OBVIOUS
  <2>2. Move(t, "raised", p.policy, p.result)
    BY <1>1, <1>4 DEF Cached, Goto
  <2>3. Overtaken(p.name)
    BY <1>2, <1>3, <1>4 DEF Seen
  <2>4. Found(q) /\ Lacking(q) /\ Seen(q)
    BY <2>1, <2>3 DEF Found, Lacking, Seen
  <2> QED
    BY <1>1, <1>2, <2>1, <2>2, <2>4, ReadStep
<1>5. CASE cache[p.name] # NoName
  <2> DEFINE r == IF registry = NoRegistry \/ Registered(cache[p.name]) THEN cache[p.name] ELSE NoName
  <2>1. PICK q : q = [at |-> "done", name |-> p.name, policy |-> p.policy, result |-> r, met |-> p.met]
    OBVIOUS
  <2>2. Move(t, "done", p.policy, r)
    BY <1>1, <1>5 DEF Cached, Answer
  <2>3. r # NoName => r = cache[p.name]
    OBVIOUS
  <2>4. r = NoName => ~Registered(cache[p.name])
    BY <1>5
  <2> HIDE DEF r
  <2>5. Found(q) /\ Lacking(q) /\ Seen(q)
    BY <1>3, <1>5, <2>1, <2>3, <2>4 DEF Found, Lacking, Seen, Known
  <2> QED
    BY <1>1, <1>2, <2>1, <2>2, <2>5, ReadStep
<1> QED
  BY <1>4, <1>5

LEMMA MissesKeeps ==
    ASSUME RInv, NEW t \in Thread, Misses(t), UNCHANGED loading PROVE RInv'
<1>1. PICK p : p = resolving[t]
  OBVIOUS
<1> DEFINE at == IF missed[p.name] = "none" THEN "policy" ELSE "aged"
<1>2. PICK q : q = [at |-> at, name |-> p.name, policy |-> p.policy, result |-> p.result, met |-> p.met]
  OBVIOUS
<1>3. p.at = "misses" /\ Move(t, at, p.policy, p.result) /\ ReadOnly
  BY <1>1 DEF Misses, Here, Goto
<1>4. q.at = at /\ q.name = p.name /\ at \in {"policy", "aged"} /\ (at = "aged" => missed[p.name] # "none")
      /\ q.policy = p.policy
  BY <1>2
<1>5. p.policy = 0
  BY <1>1, <1>3, InHand DEF Seen
<1> HIDE DEF at
<1>6. Found(q) /\ Lacking(q) /\ Seen(q)
  BY <1>4, <1>5 DEF Found, Lacking, Seen
<1> QED
  BY <1>1, <1>2, <1>3, <1>4, <1>6, ReadStep

LEMMA AgedKeeps ==
    ASSUME RInv, NEW t \in Thread, Aged(t), UNCHANGED loading PROVE RInv'
<1>1. PICK p : p = resolving[t]
  OBVIOUS
<1>2. p.at = "aged" /\ ReadOnly /\ p.at # "idle"
  BY <1>1 DEF Aged, Here
<1>3. Known(p.name) /\ Seen(p) /\ p.policy = 0
  BY <1>1, <1>2, InHand DEF Seen
<1>4. CASE missed[p.name] = "none" /\ Move(t, "raised", p.policy, p.result)
  <2>1. PICK q : q = [at |-> "raised", name |-> p.name, policy |-> p.policy, result |-> p.result, met |-> p.met]
    OBVIOUS
  <2>2. p.met
    BY <1>2, <1>3, <1>4 DEF Seen
  <2>3. Found(q) /\ Lacking(q) /\ Seen(q)
    BY <2>1, <2>2 DEF Found, Lacking, Seen
  <2> QED
    BY <1>1, <1>2, <1>4, <2>1, <2>3, ReadStep
<1>5. CASE missed[p.name] = "fresh" /\ Move(t, "done", p.policy, NoName)
  <2>1. PICK q : q = [at |-> "done", name |-> p.name, policy |-> p.policy, result |-> NoName, met |-> p.met]
    OBVIOUS
  <2>2. past[p.name].lacked = "fresh"
    BY <1>3, <1>5 DEF Known
  <2>3. Found(q) /\ Lacking(q) /\ Seen(q)
    BY <2>1, <2>2 DEF Found, Lacking, Seen
  <2> QED
    BY <1>1, <1>2, <1>5, <2>1, <2>3, ReadStep
<1>6. CASE missed[p.name] = "old" /\ Move(t, "expire", p.policy, p.result)
  <2>1. PICK q : q = [at |-> "expire", name |-> p.name, policy |-> p.policy, result |-> p.result, met |-> p.met]
    OBVIOUS
  <2>3. Found(q) /\ Lacking(q) /\ Seen(q)
    BY <1>3, <1>6, <2>1 DEF Found, Lacking, Seen
  <2> QED
    BY <1>1, <1>2, <1>6, <2>1, <2>3, ReadStep
<1> QED
  BY <1>1, <1>4, <1>5, <1>6 DEF Aged, Goto, Answer

LEMMA PolicyKeeps ==
    ASSUME RInv, NEW t \in Thread, Policy(t), UNCHANGED loading PROVE RInv'
<1>1. PICK p : p = resolving[t]
  OBVIOUS
<1>2. p.at = "policy" /\ ReadOnly /\ p.at # "idle"
  BY <1>1 DEF Policy, Here
<1>3. Known(p.name) /\ Found(p) /\ Lacking(p)
  BY <1>1, <1>2, InHand
<1>4. CASE p.policy = 0 /\ Move(t, "verify", p.policy, aliases[p.name])
  <2>1. PICK q : q = [at |-> "verify", name |-> p.name, policy |-> p.policy, result |-> aliases[p.name], met |-> p.met]
    OBVIOUS
  <2>2. Found(q) /\ Lacking(q) /\ Seen(q)
    BY <1>4, <2>1 DEF Found, Lacking, Seen
  <2> QED
    BY <1>1, <1>2, <1>4, <2>1, <2>2, ReadStep
<1>5. CASE p.policy = 1 /\ \E m \in Close(p.name) : Move(t, "verify", p.policy, m)
  <2>1. PICK m \in Close(p.name) : Move(t, "verify", p.policy, m)
    BY <1>5
  <2>2. PICK q : q = [at |-> "verify", name |-> p.name, policy |-> p.policy, result |-> m, met |-> p.met]
    OBVIOUS
  <2>3. Registered(m) /\ m # NoName
    BY DEF Close, Registered, RInv, Shape
  <2>4. Found(q) /\ Lacking(q) /\ Seen(q)
    BY <1>2, <1>3, <1>5, <2>2, <2>3 DEF Found, Lacking, Seen
  <2> QED
    BY <1>1, <1>2, <2>1, <2>2, <2>4, ReadStep
<1>6. CASE p.policy = 1 /\ Close(p.name) = {} /\ Move(t, "verify", p.policy, NoName)
  <2>1. PICK q : q = [at |-> "verify", name |-> p.name, policy |-> p.policy, result |-> NoName, met |-> p.met]
    OBVIOUS
  <2>2. past[p.name].lacked = "fresh"
    BY <1>2, <1>3, <1>6 DEF Lacking, Known, RightNow
  <2>3. Found(q) /\ Lacking(q) /\ Seen(q)
    BY <1>6, <2>1, <2>2 DEF Found, Lacking, Seen
  <2> QED
    BY <1>1, <1>2, <1>6, <2>1, <2>3, ReadStep
<1>7. CASE registry = NoRegistry /\ Move(t, "raised", p.policy, p.result)
  <2>1. PICK q : q = [at |-> "raised", name |-> p.name, policy |-> p.policy, result |-> p.result, met |-> p.met]
    OBVIOUS
  <2>2. Found(q) /\ Lacking(q) /\ Seen(q)
    BY <1>7, <2>1 DEF Found, Lacking, Seen
  <2> QED
    BY <1>1, <1>2, <1>7, <2>1, <2>2, ReadStep
<1> QED
  BY <1>1, <1>4, <1>5, <1>6, <1>7 DEF Policy, Goto

LEMMA VerifyKeeps ==
    ASSUME RInv, NEW t \in Thread, Verify(t), UNCHANGED loading PROVE RInv'
<1>1. PICK p : p = resolving[t]
  OBVIOUS
<1>2. p.at = "verify" /\ ReadOnly /\ p.at # "idle"
  BY <1>1 DEF Verify, Here
<1>3. Known(p.name) /\ Found(p) /\ Lacking(p) /\ Seen(p)
  BY <1>1, <1>2, InHand
<1>4. p.policy \in {0, 1}
  BY <1>2, <1>3 DEF Seen
<1>5. CASE Registered(p.result) /\ Move(t, "store", p.policy, p.result)
  <2>1. PICK q : q = [at |-> "store", name |-> p.name, policy |-> p.policy, result |-> p.result, met |-> p.met]
    OBVIOUS
  <2>2. p.result # NoName
    BY <1>5 DEF Registered, RInv, Shape
  <2>3. Overtaken(p.name) \/ p.result \in past[p.name].right
    BY <1>2, <1>3, <1>4, <1>5, <2>2 DEF Found, Known, RightNow
  <2>4. Found(q) /\ Lacking(q) /\ Seen(q)
    BY <1>5, <2>1, <2>2, <2>3 DEF Found, Lacking, Seen
  <2> QED
    BY <1>1, <1>2, <1>5, <2>1, <2>4, ReadStep
<1>6. CASE ~Registered(p.result) /\ p.policy = 0 /\ Move(t, "policy", 1, NoName)
  <2>1. PICK q : q = [at |-> "policy", name |-> p.name, policy |-> 1, result |-> NoName, met |-> p.met]
    OBVIOUS
  <2>2. Overtaken(p.name) \/ Close(p.name) \subseteq past[p.name].right
    BY <1>2, <1>3, <1>6 DEF Found, Known, RightNow
  <2>3. past[p.name].lacked = "fresh" \/ ~Registered(aliases[p.name])
    BY <1>2, <1>3, <1>6 DEF Lacking
  <2>4. Found(q) /\ Lacking(q) /\ Seen(q)
    BY <2>1, <2>2, <2>3 DEF Found, Lacking, Seen
  <2> QED
    BY <1>1, <1>2, <1>6, <2>1, <2>4, ReadStep
<1>7. CASE ~Registered(p.result) /\ p.policy = 1 /\ Move(t, "miss", 2, NoName)
  <2>1. PICK q : q = [at |-> "miss", name |-> p.name, policy |-> 2, result |-> NoName, met |-> p.met]
    OBVIOUS
  <2>2. past[p.name].lacked = "fresh"
    BY <1>2, <1>3, <1>7 DEF Lacking
  <2>3. Found(q) /\ Lacking(q) /\ Seen(q)
    BY <2>1, <2>2 DEF Found, Lacking, Seen
  <2> QED
    BY <1>1, <1>2, <1>7, <2>1, <2>3, ReadStep
<1> QED
  BY <1>1, <1>5, <1>6, <1>7 DEF Verify, Goto

LEMMA ExpireKeeps ==
    ASSUME RInv, NEW t \in Thread, Expire(t), UNCHANGED loading PROVE RInv'
<1>1. PICK p : p = resolving[t]
  OBVIOUS
<1>2. p.at = "expire" /\ Alone /\ cache' = cache /\ missed' = [missed EXCEPT ![p.name] = "none"]
  BY <1>1 DEF Expire, Here
<1>3. p.name \in Name /\ Seen(p) /\ p.policy = 0
  BY <1>1, <1>2, InHand DEF Seen
<1> DEFINE at == IF missed[p.name] = "none" THEN "raised" ELSE "policy"
<1>4. PICK q : q = [at |-> at, name |-> p.name, policy |-> p.policy, result |-> p.result, met |-> p.met]
  OBVIOUS
<1>5. Move(t, at, p.policy, p.result)
  BY <1>1 DEF Expire, Goto
<1>6. at = "raised" => p.met
  BY <1>2, <1>3 DEF Seen
<1>7. at \in {"raised", "policy"}
  OBVIOUS
<1>8. q.at = at /\ q.name = p.name /\ q.policy = p.policy /\ q.result = p.result /\ q.met = p.met
  BY <1>4
<1>9. resolving' = [resolving EXCEPT ![t] = q]
  BY <1>1, <1>4, <1>5 DEF Move
<1> HIDE DEF at
<1>10. /\ q = [at |-> q.at, name |-> q.name, policy |-> q.policy, result |-> q.result, met |-> q.met]
       /\ q.name = resolving[t].name /\ q.met = resolving[t].met /\ q.at # "idle"
  BY <1>1, <1>4, <1>7, <1>8
<1>11. Found(q)' /\ Lacking(q)' /\ Seen(q)'
  BY <1>3, <1>6, <1>7, <1>8 DEF Found, Lacking, Seen
<1>12. /\ DOMAIN cache' = Name /\ DOMAIN missed' = Name
       /\ \A n \in Name : missed'[n] # missed[n] => n = p.name /\ missed'[n] = "none"
  BY <1>2, <1>3 DEF RInv, Shape
<1>13. ASSUME NEW n \in Name PROVE Known(n)'
  <2>1. missed'[n] = "fresh" => missed[n] = "fresh"
    BY <1>12
  <2>2. Known(n)
    BY DEF RInv
  <2> QED
    BY <1>2, <2>1, <2>2 DEF Known, Alone, Overtaken, RightNow, Close, Registered
<1> QED
  BY <1>1, <1>2, <1>9, <1>10, <1>11, <1>12, <1>13, OwnStep

LEMMA StoreKeeps ==
    ASSUME RInv, NEW t \in Thread, Store(t), UNCHANGED loading PROVE RInv'
<1>1. PICK p : p = resolving[t]
  OBVIOUS
<1>2. p.at = "store" /\ Alone /\ missed' = missed /\ cache' = [cache EXCEPT ![p.name] = p.result]
  BY <1>1 DEF Store, Here
<1>3. p.name \in Name /\ Found(p) /\ Lacking(p) /\ p.result # NoName
  BY <1>1, <1>2, InHand DEF Seen
<1>4. PICK q : q = [at |-> "done", name |-> p.name, policy |-> p.policy, result |-> p.result, met |-> p.met]
  OBVIOUS
<1>5. Overtaken(p.name) \/ (p.result \in past[p.name].right /\ Registered(p.result))
  BY <1>2, <1>3 DEF Found
<1>6. resolving' = [resolving EXCEPT ![t] = q]
  BY <1>1, <1>4 DEF Store, Answer, Move
<1>7. /\ q = [at |-> q.at, name |-> q.name, policy |-> q.policy, result |-> q.result, met |-> q.met]
      /\ q.name = resolving[t].name /\ q.met = resolving[t].met /\ q.at # "idle"
  BY <1>1, <1>4
<1>8. Found(q) /\ Lacking(q)
  BY <1>3, <1>4, <1>5 DEF Found, Lacking
<1>9. Found(q)' /\ Lacking(q)' /\ Seen(q)'
  BY <1>2, <1>4, <1>8, SameFound DEF Seen
<1>10. /\ DOMAIN cache' = Name /\ DOMAIN missed' = Name
       /\ cache'[p.name] = p.result /\ \A n \in Name : n # p.name => cache'[n] = cache[n]
  BY <1>2, <1>3 DEF RInv, Shape
<1>11. ASSUME NEW n \in Name PROVE Known(n)'
  <2>1. Known(n)
    BY DEF RInv
  <2>2. CASE n # p.name
    BY <1>2, <1>10, <2>1, <2>2, SameKnown
  <2>3. CASE n = p.name
    <3>1. UNCHANGED <<tools, registry, aliases, changing, past, missed>>
      BY <1>2 DEF Alone
    <3>2. \/ Overtaken(n)'
          \/ cache'[n] \in past'[n].right /\ registry' # NoRegistry /\ cache'[n] \in tools'[registry']
      BY <1>5, <1>10, <2>3, <3>1 DEF Overtaken, Registered
    <3>3. /\ RightNow(n)' \subseteq past'[n].right
          /\ RightNow(n)' = {} => past'[n].lacked = "fresh"
          /\ missed'[n] = "fresh" => past'[n].lacked = "fresh"
      BY <2>1, <3>1 DEF Known, RightNow, Close, Registered
    <3> QED
      BY <3>2, <3>3 DEF Known, Registered
  <2> QED
    BY <2>2, <2>3
<1>12. /\ \A n \in Name : cache[n] # NoName => cache'[n] # NoName
       /\ \A n \in Name : missed[n] # "none" /\ missed'[n] = "none" => n = resolving[t].name
  BY <1>2, <1>3, <1>10
<1> QED
  BY <1>1, <1>2, <1>6, <1>7, <1>9, <1>10, <1>11, <1>12, OwnStep

LEMMA StoreMissKeeps ==
    ASSUME RInv, NEW t \in Thread, StoreMiss(t), UNCHANGED loading PROVE RInv'
<1>1. PICK p : p = resolving[t]
  OBVIOUS
<1>2. p.at = "miss" /\ Alone /\ cache' = cache /\ missed' = [missed EXCEPT ![p.name] = "fresh"]
  BY <1>1 DEF StoreMiss, Here
<1>3. p.name \in Name /\ past[p.name].lacked = "fresh"
  BY <1>1, <1>2, InHand DEF Lacking
<1>4. PICK q : q = [at |-> "done", name |-> p.name, policy |-> p.policy, result |-> NoName, met |-> p.met]
  OBVIOUS
<1>5. resolving' = [resolving EXCEPT ![t] = q]
  BY <1>1, <1>4 DEF StoreMiss, Answer, Move
<1>6. /\ q = [at |-> q.at, name |-> q.name, policy |-> q.policy, result |-> q.result, met |-> q.met]
      /\ q.name = resolving[t].name /\ q.met = resolving[t].met /\ q.at # "idle"
  BY <1>1, <1>4
<1>7. Found(q) /\ Lacking(q)
  BY <1>3, <1>4 DEF Found, Lacking
<1>8. Found(q)' /\ Lacking(q)' /\ Seen(q)'
  BY <1>2, <1>4, <1>7, SameFound DEF Seen
<1>9. /\ DOMAIN cache' = Name /\ DOMAIN missed' = Name
      /\ missed'[p.name] = "fresh" /\ \A n \in Name : n # p.name => missed'[n] = missed[n]
  BY <1>2, <1>3 DEF RInv, Shape
<1>10. ASSUME NEW n \in Name PROVE Known(n)'
  <2>1. Known(n)
    BY DEF RInv
  <2>2. missed'[n] = "fresh" => past[n].lacked = "fresh"
    BY <1>3, <1>9, <2>1 DEF Known
  <2> QED
    BY <1>2, <2>1, <2>2 DEF Known, Alone, Overtaken, RightNow, Close, Registered
<1>11. /\ \A n \in Name : cache[n] # NoName => cache'[n] # NoName
       /\ \A n \in Name : missed[n] # "none" /\ missed'[n] = "none" => n = resolving[t].name
  BY <1>2, <1>9
<1> QED
  BY <1>1, <1>2, <1>5, <1>6, <1>8, <1>9, <1>10, <1>11, OwnStep

LEMMA ResolveStepKeeps ==
    ASSUME RInv, NEW t \in Thread, ResolveStep(t), UNCHANGED loading PROVE RInv'
  BY LookKeeps, CachedKeeps, MissesKeeps, AgedKeeps, ExpireKeeps, PolicyKeeps, VerifyKeeps,
     StoreKeeps, StoreMissKeeps DEF ResolveStep
-----------------------------------------------------------------------------
\* A thread begins.
LEMMA ResolveKeeps ==
    ASSUME RInv, NEW t \in Thread, NEW n \in Name, Resolve(t, n),
           UNCHANGED <<tools, registry, aliases, cache, missed, changing, past, loading>>
    PROVE  RInv'
<1>1. ASSUME NEW u \in Thread
      PROVE  /\ IsState(resolving'[u])
             /\ u # t => /\ resolving'[u].at = resolving[u].at /\ resolving'[u].name = resolving[u].name
                         /\ resolving'[u].policy = resolving[u].policy
                         /\ resolving'[u].result = resolving[u].result
                         /\ resolving'[u].met = (resolving[u].met \/ u \in InFlight(n))
             /\ u = t => /\ resolving'[u].at = "look" /\ resolving'[u].name = n
                         /\ resolving'[u].policy = 0 /\ resolving'[u].met = (InFlight(n) # {})
  BY DEF Resolve, RInv, Shape, IsState
<1>2. DOMAIN resolving' = Thread
  BY DEF Resolve
<1>3. \A u \in Thread : IsState(resolving'[u])
  BY <1>1
<1>4. Shape'
  <2>1. \A u \in Thread : IsState(resolving[u])'
    BY <1>3 DEF IsState
  <2>2. /\ DOMAIN tools = Registry /\ \A r \in Registry : NoName \notin tools[r]
        /\ registry \in Registry \cup {NoRegistry}
        /\ DOMAIN aliases = Name /\ DOMAIN cache = Name /\ DOMAIN missed = Name
        /\ loading # NotLoading => \A r \in Registry : tools[r] = {}
    BY DEF RInv, Shape
  <2> HIDE DEF IsState
  <2> QED
    BY <1>2, <2>1, <2>2 DEF Shape
<1>5. Met'
  <2> SUFFICES ASSUME NEW u \in Thread, NEW v \in Thread, u # v, resolving'[u].at # "idle",
                      resolving'[v].at # "idle", resolving'[u].name = resolving'[v].name
               PROVE  resolving'[u].met
    BY DEF Met
  <2>1. CASE u = t
    <3>1. resolving'[u].name = n /\ resolving[v].at # "idle" /\ resolving[v].name = resolving'[v].name
      BY <1>1, <2>1
    <3>2. v \in InFlight(n)
      BY <3>1 DEF InFlight
    <3> QED
      BY <1>1, <2>1, <3>2
  <2>2. CASE v = t
    <3>1. resolving'[v].name = n /\ resolving[u].at # "idle" /\ resolving[u].name = resolving'[u].name
      BY <1>1, <2>2
    <3>2. u \in InFlight(n)
      BY <3>1 DEF InFlight
    <3> QED
      BY <1>1, <2>2, <3>2
  <2>3. CASE u # t /\ v # t
    <3>1. /\ resolving[u].at # "idle" /\ resolving[v].at # "idle" /\ resolving[u].name = resolving[v].name
          /\ resolving'[u].met = (resolving[u].met \/ u \in InFlight(n))
      BY <1>1, <2>3
    <3> QED
      BY <3>1 DEF RInv, Met
  <2> QED
    BY <2>1, <2>2, <2>3
<1>6. \A m \in Name : Known(m)'
  BY DEF RInv, Known, Overtaken, RightNow, Close, Registered
<1>7. ASSUME NEW u \in Thread PROVE Carries(resolving[u])'
  <2>1. PICK q : q = resolving'[u]
    OBVIOUS
  <2>2. PICK p : p = resolving[u]
    OBVIOUS
  <2>3. CASE u = t
    <3>1. q.at = "look" /\ q.policy = 0
      BY <1>1, <2>1, <2>3
    <3>2. Found(q)' /\ Lacking(q)' /\ Seen(q)'
      BY <3>1 DEF Found, Lacking, Seen
    <3> QED
      BY <2>1, <3>2 DEF Carries, Found, Lacking, Seen
  <2>4. CASE u # t
    <3>1. /\ q.at = p.at /\ q.name = p.name /\ q.policy = p.policy /\ q.result = p.result
          /\ p.met => q.met
      BY <1>1, <2>1, <2>2, <2>4
    <3>2. Carries(p)
      BY <2>2 DEF RInv
    <3>3. Carries(q)
      BY <3>1, <3>2 DEF Carries, Found, Lacking, Seen
    <3>4. Carries(q)'
      BY <3>3 DEF Carries, Found, Lacking, Seen, Overtaken, Close, Registered
    <3> QED
      BY <2>1, <3>4 DEF Carries, Found, Lacking, Seen
  <2> QED
    BY <2>3, <2>4
<1> QED
  BY <1>4, <1>5, <1>6, <1>7 DEF RInv

\* A thread has its answer.
LEMMA ResolvedKeeps ==
    ASSUME RInv, NEW t \in Thread, resolving' = [resolving EXCEPT ![t] = Idle],
           UNCHANGED <<tools, registry, aliases, cache, missed, changing, past, loading>>
    PROVE  RInv'
<1>1. /\ DOMAIN resolving' = Thread /\ resolving'[t] = Idle
      /\ \A u \in Thread : u # t => resolving'[u] = resolving[u]
  BY DEF RInv, Shape
<1>2. Shape'
  <2>1. \A u \in Thread : IsState(resolving[u])'
    <3>1. IsState(Idle)
      BY DEF Idle, IsState
    <3>2. \A u \in Thread : IsState(resolving'[u])
      BY <1>1, <3>1 DEF RInv, Shape
    <3> QED
      BY <3>2 DEF IsState
  <2>2. /\ DOMAIN tools = Registry /\ \A r \in Registry : NoName \notin tools[r]
        /\ registry \in Registry \cup {NoRegistry}
        /\ DOMAIN aliases = Name /\ DOMAIN cache = Name /\ DOMAIN missed = Name
        /\ loading # NotLoading => \A r \in Registry : tools[r] = {}
    BY DEF RInv, Shape
  <2> HIDE DEF IsState
  <2> QED
    BY <1>1, <2>1, <2>2 DEF Shape
<1>3. Met'
  BY <1>1 DEF RInv, Met, Idle
<1>4. \A m \in Name : Known(m)'
  BY DEF RInv, Known, Overtaken, RightNow, Close, Registered
<1>5. ASSUME NEW u \in Thread PROVE Carries(resolving[u])'
  <2>1. CASE u = t
    BY <1>1, <2>1 DEF Carries, Idle
  <2>2. CASE u # t
    <3>1. PICK p : p = resolving[u]
      OBVIOUS
    <3>2. Carries(p)' /\ p = resolving'[u]
      BY <1>1, <2>2, <3>1 DEF RInv, Carries, Found, Lacking, Seen, Overtaken, Close, Registered
    <3> QED
      BY <3>2 DEF Carries, Found, Lacking, Seen
  <2> QED
    BY <2>1, <2>2
<1> QED
  BY <1>2, <1>3, <1>4, <1>5 DEF RInv

\* Nothing the resolver has to do with changes.
LEMMA RestKeeps ==
    ASSUME RInv, UNCHANGED <<resolverVars, loading>> PROVE RInv'
<1>1. UNCHANGED <<tools, registry, aliases, cache, missed, changing, resolving, past, loading>>
  BY DEF resolverVars
<1>2. Shape' /\ Met'
  BY <1>1 DEF RInv, Shape, Met, IsState
<1>3. \A n \in Name : Known(n)'
  BY <1>1 DEF RInv, Known, Overtaken, RightNow, Close, Registered
<1>4. \A t \in Thread : Carries(resolving[t])'
  BY <1>1 DEF RInv, Carries, Found, Lacking, Seen, Overtaken, Close, Registered
<1> QED
  BY <1>2, <1>3, <1>4 DEF RInv

\* Tools are registered, or a change begins.
LEMMA RememberKeeps ==
    ASSUME RInv, Shape', Remember, UNCHANGED <<cache, missed, resolving>>,
           \/ changing'
           \/ /\ UNCHANGED <<registry, aliases, changing>>
              /\ \A r \in Registry : tools[r] \subseteq tools'[r]
    PROVE  RInv'
<1>1. ASSUME NEW n \in Name
      PROVE  /\ past'[n].right = past[n].right \cup RightNow(n)'
                                   \cup (IF InFlight(n) # {} THEN Close(n)' ELSE {})
             /\ past'[n].lacked = IF RightNow(n)' = {} \/ InFlight(n) # {} THEN "fresh" ELSE past[n].lacked
             /\ past'[n].raced = past[n].raced
  BY DEF Remember
<1>2. ASSUME NEW n \in Name, UNCHANGED <<registry, aliases, changing>>,
             \A r \in Registry : tools[r] \subseteq tools'[r], NEW m, Registered(m)
      PROVE  Registered(m)'
  BY <1>2 DEF Registered, RInv, Shape
<1>3. Met'
  BY DEF RInv, Met
<1>4. ASSUME NEW n \in Name PROVE Known(n)'
  <2>1. Known(n)
    BY DEF RInv
  <2>2. RightNow(n)' \subseteq past'[n].right
    BY <1>1
  <2>3. RightNow(n)' = {} => past'[n].lacked = "fresh"
    BY <1>1
  <2>4. missed'[n] = "fresh" => past'[n].lacked = "fresh"
    BY <1>1, <2>1 DEF Known
  <2>5. cache'[n] # NoName =>
           Overtaken(n)' \/ (cache'[n] \in past'[n].right /\ registry' # NoRegistry /\ cache'[n] \in tools'[registry'])
    <3>1. CASE changing'
      BY <3>1 DEF Overtaken
    <3>2. CASE /\ UNCHANGED <<registry, aliases, changing>>
               /\ \A r \in Registry : tools[r] \subseteq tools'[r]
      <4>1. cache[n] \in past[n].right => cache[n] \in past'[n].right
        BY <1>1
      <4>2. Registered(cache[n]) => registry' # NoRegistry /\ cache[n] \in tools'[registry']
        BY <3>2 DEF Registered, RInv, Shape
      <4> QED
        BY <1>1, <2>1, <3>2, <4>1, <4>2 DEF Known, Overtaken
    <3> QED
      BY <3>1, <3>2
  <2> QED
    BY <2>2, <2>3, <2>4, <2>5 DEF Known, Registered
<1>5. ASSUME NEW t \in Thread PROVE Carries(resolving[t])'
  <2>1. PICK q : q = resolving[t]
    OBVIOUS
  <2>2. Carries(q) /\ IsState(q)
    BY <2>1 DEF RInv, Shape
  <2>3. CASE q.at = "idle"
    BY <2>1, <2>3 DEF Carries
  <2>4. CASE q.at # "idle"
    <3>1. q.name \in Name /\ InFlight(q.name) # {} /\ Found(q) /\ Lacking(q) /\ Seen(q)
      BY <2>1, <2>2, <2>4 DEF Carries, IsState, InFlight
    <3>2. past'[q.name].lacked = "fresh"
      BY <1>1, <3>1
    <3>3. Lacking(q)'
      BY <3>2 DEF Lacking
    <3>4. Overtaken(q.name) => Overtaken(q.name)'
      BY <1>1, <3>1 DEF Overtaken
    <3>5. registry = NoRegistry /\ q.at = "raised" => Overtaken(q.name)' \/ registry' = NoRegistry
      BY DEF Overtaken
    <3>6. Seen(q)'
      BY <3>1, <3>4, <3>5 DEF Seen
    <3>7. Found(q)'
      <4>1. CASE changing'
        BY <4>1 DEF Found, Overtaken
      <4>2. CASE /\ UNCHANGED <<registry, aliases, changing>>
                 /\ \A r \in Registry : tools[r] \subseteq tools'[r]
        <5>1. past[q.name].right \subseteq past'[q.name].right /\ Close(q.name)' \subseteq past'[q.name].right
          BY <1>1, <3>1
        <5>2. Registered(q.result) => Registered(q.result)'
          BY <4>2 DEF Registered, RInv, Shape
        <5> QED
          BY <3>1, <3>4, <4>2, <5>1, <5>2 DEF Found
      <4> QED
        BY <4>1, <4>2
    <3>8. Carries(q)'
      BY <3>3, <3>6, <3>7 DEF Carries
    <3> QED
      BY <2>1, <3>8 DEF Carries, Found, Lacking, Seen
  <2> QED
    BY <2>3, <2>4
<1> QED
  BY <1>3, <1>4, <1>5 DEF RInv

LEMMA ServeKeeps ==
    ASSUME ToolAssumption, RInv, Serve PROVE RInv'
<1> DEFINE names == Named(loading.loaded.tools)
<1>1. /\ NoName \notin names /\ NoName \notin names \cap InRole
      /\ tools' = [tools EXCEPT ![Main] = names, ![View] = names \cap InRole]
      /\ UNCHANGED <<registry, aliases, cache, missed, changing, resolving>> /\ Remember
      /\ loading # NotLoading /\ loading' = NotLoading
  BY DEF Serve, ToolAssumption
<1> HIDE DEF names
<1>2. \A r \in Registry : tools[r] = {} /\ NoName \notin tools'[r]
  BY <1>1 DEF RInv, Shape
<1>3. Shape'
  BY <1>1, <1>2 DEF RInv, Shape, IsState
<1> QED
  BY <1>1, <1>2, <1>3, RememberKeeps

LEMMA RegisterKeeps ==
    ASSUME ToolAssumption, RInv, Register PROVE RInv'
<1>1. PICK n \in Late : tools' = [tools EXCEPT ![Main] = tools[Main] \cup {n}]
  BY DEF Register
<1>2. /\ UNCHANGED <<registry, aliases, cache, missed, changing, resolving, loading>> /\ Remember
      /\ loading = NotLoading /\ n # NoName
  BY DEF Register, Using, ToolAssumption
<1>3. \A r \in Registry : tools[r] \subseteq tools'[r] /\ NoName \notin tools'[r]
  BY <1>1, <1>2 DEF RInv, Shape
<1>4. Shape'
  BY <1>1, <1>2, <1>3 DEF RInv, Shape, IsState
<1> QED
  BY <1>2, <1>3, <1>4, RememberKeeps

LEMMA ReconfigureKeeps ==
    ASSUME RInv, Reconfigure PROVE RInv'
<1>1. /\ UNCHANGED <<tools, cache, missed, resolving, loading>> /\ Remember /\ changing' = TRUE
      /\ registry' \in Registry \cup {NoRegistry} /\ DOMAIN aliases' = Name
  BY DEF Reconfigure, SetRegistry, AddAlias, RInv, Shape
<1>2. Shape'
  BY <1>1 DEF RInv, Shape, IsState
<1> QED
  BY <1>1, <1>2, RememberKeeps

LEMMA FinishKeeps ==
    ASSUME RInv, FinishChange PROVE RInv'
<1>1. /\ UNCHANGED <<tools, registry, aliases, missed, resolving, loading>> /\ changing' = FALSE
      /\ cache' = [n \in Name |-> NoName]
  BY DEF FinishChange, ClearCache
<1>2. ASSUME NEW n \in Name
      PROVE  /\ past'[n].right = RightNow(n)
             /\ past'[n].lacked = IF InFlight(n) # {} THEN "fresh" ELSE past[n].lacked
             /\ past'[n].raced = (InFlight(n) # {})
  BY DEF FinishChange, ClearCache
<1>3. Shape'
  BY <1>1 DEF RInv, Shape, IsState
<1>4. Met'
  BY <1>1 DEF RInv, Met
<1>5. ASSUME NEW n \in Name PROVE Known(n)'
  <2>1. Known(n) /\ cache'[n] = NoName
    BY <1>1 DEF RInv
  <2>2. RightNow(n)' = RightNow(n)
    BY <1>1 DEF RightNow, Close, Registered
  <2> QED
    BY <1>1, <1>2, <2>1, <2>2 DEF Known
<1>6. ASSUME NEW t \in Thread PROVE Carries(resolving[t])'
  <2>1. PICK q : q = resolving[t]
    OBVIOUS
  <2>2. Carries(q) /\ IsState(q)
    BY <2>1 DEF RInv, Shape
  <2>3. CASE q.at = "idle"
    BY <1>1, <2>1, <2>3 DEF Carries
  <2>4. CASE q.at # "idle"
    <3>1. q.name \in Name /\ InFlight(q.name) # {} /\ Seen(q)
      BY <2>1, <2>2, <2>4 DEF Carries, IsState, InFlight
    <3>2. past'[q.name].lacked = "fresh" /\ Overtaken(q.name)'
      BY <1>2, <3>1 DEF Overtaken
    <3>3. Found(q)' /\ Lacking(q)'
      BY <3>2 DEF Found, Lacking
    <3>4. Seen(q)'
      BY <1>1, <3>1, <3>2 DEF Seen
    <3>5. Carries(q)'
      BY <3>3, <3>4 DEF Carries
    <3> QED
      BY <1>1, <2>1, <3>5 DEF Carries, Found, Lacking, Seen
  <2> QED
    BY <2>3, <2>4
<1> QED
  BY <1>3, <1>4, <1>5, <1>6 DEF RInv

LEMMA TickKeeps ==
    ASSUME RInv, FiveMinutes PROVE RInv'
<1>1. /\ UNCHANGED <<tools, registry, aliases, cache, changing, resolving, loading>>
      /\ \A t \in Thread : resolving[t].at = "idle"
      /\ missed' = [n \in Name |-> IF missed[n] = "fresh" THEN "old" ELSE missed[n]]
  BY DEF FiveMinutes, Tick
<1>2. ASSUME NEW n \in Name
      PROVE  /\ past'[n].right = past[n].right /\ past'[n].raced = past[n].raced
             /\ past'[n].lacked = IF RightNow(n) = {} THEN "fresh" ELSE "old"
  BY DEF FiveMinutes, Tick
<1>3. Shape'
  BY <1>1 DEF RInv, Shape, IsState
<1>4. Met' /\ \A t \in Thread : Carries(resolving[t])'
  BY <1>1 DEF Met, Carries
<1>5. ASSUME NEW n \in Name PROVE Known(n)'
  <2>1. Known(n) /\ missed'[n] # "fresh"
    BY <1>1 DEF RInv
  <2>2. RightNow(n)' = RightNow(n)
    BY <1>1 DEF RightNow, Close, Registered
  <2> QED
    BY <1>1, <1>2, <2>1, <2>2 DEF Known, Overtaken, Registered
<1> QED
  BY <1>3, <1>4, <1>5 DEF RInv

LEMMA ResolverBegins ==
    ASSUME ToolAssumption, Init PROVE RInv
<1>1. /\ tools = [r \in Registry |-> {}] /\ cache = [n \in Name |-> NoName]
      /\ missed = [n \in Name |-> "none"] /\ resolving = [t \in Thread |-> Idle]
      /\ aliases = Aliases /\ registry \in {Main, NoRegistry}
      /\ \A n \in Name : past[n].right = {} /\ past[n].lacked = "fresh"
  BY DEF Init, ResolverInit
<1>2. Shape
  BY <1>1 DEF Shape, IsState, Idle, ToolAssumption
<1>3. ASSUME NEW n \in Name PROVE Known(n)
  <2>1. \A m : ~Registered(m)
    BY <1>1 DEF Registered, ToolAssumption
  <2>2. RightNow(n) = {}
    BY <2>1 DEF RightNow, Close
  <2> QED
    BY <1>1, <2>2 DEF Known
<1> QED
  BY <1>1, <1>2, <1>3 DEF RInv, Met, Carries, Idle
-----------------------------------------------------------------------------
Busy == [caller : Caller, round : Nat, place : Nat,
         call : [name : Name, arguments : Arguments], phase : {"running", "resolving"}]
Result == {"none", "invalid", "resolver", "not found", "answered", "missing", "arguments"}
Future == [state : {"pending", "done", "failed"}, result : Result]

BatchTyped ==
    /\ queue \in [Registry -> Seq(Item)]
    /\ work \in [Thread -> Busy \cup {NoWork}]
    /\ batch \in [Caller -> [round : Nat, futures : Seq(Future)]]
    /\ got \in [Caller -> Seq([place : Nat, result : Result])]
    /\ waiting \in [Caller -> BOOLEAN]

\* A call is of a batch that has begun, and has a future there.
Placed(x) ==
    /\ x.round <= batch[x.caller].round
    /\ x.round = batch[x.caller].round => x.place \in Calls(x.caller)

Kept ==
    /\ \A r \in Registry : \A i \in DOMAIN queue[r] :
          /\ r = Uses[queue[r][i].caller] /\ Placed(queue[r][i])
          /\ queue[r][i].phase = "queued" =>
                waiting[queue[r][i].caller] /\ queue[r][i].round = batch[queue[r][i].caller].round
    /\ \A t \in Thread :
          /\ work[t] # NoWork => Placed(work[t])
          /\ resolving[t].at # "idle" => work[t] # NoWork /\ work[t].phase = "resolving"

\* Each call is at one place.
SameCall(x, y) == x.caller = y.caller /\ x.round = y.round /\ x.place = y.place

Once ==
    /\ \A r \in Registry : \A i, j \in DOMAIN queue[r] : SameCall(queue[r][i], queue[r][j]) => i = j
    /\ \A t, u \in Thread : work[t] # NoWork /\ work[u] # NoWork /\ SameCall(work[t], work[u]) => t = u
    /\ \A r \in Registry : \A i \in DOMAIN queue[r] : \A t \in Thread :
          work[t] # NoWork => ~SameCall(queue[r][i], work[t])

Mine(x, c, p) == x.caller = c /\ x.round = batch[c].round /\ x.place = p
Queued(c, p) ==
    \E r \in Registry : \E i \in DOMAIN queue[r] : Mine(queue[r][i], c, p) /\ queue[r][i].phase = "queued"
AtWork(c, p) == \E t \in Thread : work[t] # NoWork /\ Mine(work[t], c, p)

\* What is waited for goes on, and what was collected is done.
Collected(c) ==
    waiting[c] \/ got[c] # <<>> =>
       /\ \A p \in Calls(c) : batch[c].futures[p] = Pending <=> Queued(c, p) \/ AtWork(c, p)
       /\ Len(got[c]) <= Len(batch[c].futures)
       /\ \A i \in 1 .. Len(got[c]) :
             /\ got[c][i] = [place |-> i, result |-> batch[c].futures[i].result]
             /\ batch[c].futures[i].state = "done"
       /\ ~waiting[c] => Len(got[c]) = Len(batch[c].futures)

BInv == BatchTyped /\ Kept /\ Once /\ \A c \in Caller : Collected(c)
-----------------------------------------------------------------------------
\* A queue without its head.
LEMMA TailIs ==
    ASSUME NEW S, NEW q \in Seq(S), q # <<>>
    PROVE  /\ Tail(q) \in Seq(S) /\ Head(q) = q[1] /\ Head(q) \in S /\ 1 \in DOMAIN q
           /\ \A i \in DOMAIN Tail(q) : i + 1 \in DOMAIN q /\ Tail(q)[i] = q[i + 1] /\ i + 1 # 1
           /\ \A j \in DOMAIN q : j # 1 => j - 1 \in DOMAIN Tail(q) /\ Tail(q)[j - 1] = q[j]
<1>1. Len(q) \in Nat /\ Len(q) # 0 /\ DOMAIN q = 1 .. Len(q)
  BY EmptySeq
<1>2. Tail(q) \in Seq(S) /\ Len(Tail(q)) = Len(q) - 1 /\ Head(q) = q[1]
  BY HeadTailProperties
<1>3. \A i \in 1 .. Len(q) - 1 : Tail(q)[i] = q[i + 1]
  BY HeadTailProperties
<1>4. DOMAIN Tail(q) = 1 .. Len(q) - 1
  BY <1>1, <1>2
<1>5. 1 \in DOMAIN q /\ q[1] \in S
  BY <1>1
<1>6. ASSUME NEW i \in DOMAIN Tail(q) PROVE i + 1 \in DOMAIN q /\ Tail(q)[i] = q[i + 1] /\ i + 1 # 1
  BY <1>1, <1>3, <1>4
<1>7. ASSUME NEW j \in DOMAIN q, j # 1 PROVE j - 1 \in DOMAIN Tail(q) /\ Tail(q)[j - 1] = q[j]
  <2>1. j \in Nat /\ j - 1 \in 1 .. Len(q) - 1 /\ (j - 1) + 1 = j
    BY <1>1, <1>7
  <2> QED
    BY <1>3, <1>4, <2>1
<1> QED
  BY <1>2, <1>5, <1>6, <1>7

LEMMA HeadGone ==
    ASSUME BatchTyped, NEW h \in Registry, queue[h] # <<>>, queue' = [queue EXCEPT ![h] = Tail(queue[h])]
    PROVE  /\ queue' \in [Registry -> Seq(Item)]
           /\ 1 \in DOMAIN queue[h] /\ Head(queue[h]) = queue[h][1] /\ Head(queue[h]) \in Item
           /\ \A i \in DOMAIN queue'[h] : i + 1 \in DOMAIN queue[h] /\ queue'[h][i] = queue[h][i + 1] /\ i + 1 # 1
           /\ \A j \in DOMAIN queue[h] : j # 1 => j - 1 \in DOMAIN queue'[h] /\ queue'[h][j - 1] = queue[h][j]
           /\ \A r \in Registry : r # h => queue'[r] = queue[r]
<1>1. queue \in [Registry -> Seq(Item)]
  BY DEF BatchTyped
<1>2. queue[h] \in Seq(Item)
  BY <1>1
<1>3. /\ Tail(queue[h]) \in Seq(Item) /\ Head(queue[h]) = queue[h][1] /\ Head(queue[h]) \in Item
      /\ 1 \in DOMAIN queue[h]
      /\ \A i \in DOMAIN Tail(queue[h]) :
            i + 1 \in DOMAIN queue[h] /\ Tail(queue[h])[i] = queue[h][i + 1] /\ i + 1 # 1
      /\ \A j \in DOMAIN queue[h] :
            j # 1 => j - 1 \in DOMAIN Tail(queue[h]) /\ Tail(queue[h])[j - 1] = queue[h][j]
  BY <1>2, TailIs
<1>4. queue'[h] = Tail(queue[h]) /\ \A r \in Registry : r # h => queue'[r] = queue[r]
  BY <1>1
<1>5. queue' \in [Registry -> Seq(Item)]
  BY <1>1, <1>3
<1> QED
  BY <1>3, <1>4, <1>5

\* A call ends: it has its answer, and nothing else changes.
Ended(x, answer) ==
    \A c \in Caller :
       /\ batch'[c].round = batch[c].round
       /\ Len(batch'[c].futures) = Len(batch[c].futures)
       /\ DOMAIN batch'[c].futures = DOMAIN batch[c].futures
       /\ \A p \in DOMAIN batch[c].futures :
             batch'[c].futures[p] = IF Mine(x, c, p) THEN answer ELSE batch[c].futures[p]

LEMMA EndIs ==
    ASSUME BatchTyped, NEW x, x.caller \in Caller, Placed(x), NEW s, NEW result,
           NEW answer \in Future, answer = [state |-> s, result |-> result], End(x, s, result)
    PROVE  batch' \in [Caller -> [round : Nat, futures : Seq(Future)]] /\ Ended(x, answer)
<1>1. PICK b : b = batch[x.caller]
  OBVIOUS
<1>2. b.round \in Nat /\ b.futures \in Seq(Future) /\ batch \in [Caller -> [round : Nat, futures : Seq(Future)]]
  BY <1>1 DEF BatchTyped
<1>3. CASE x.round # b.round
  BY <1>1, <1>2, <1>3 DEF End, Mine, Ended
<1>4. CASE x.round = b.round
  <2>1. PICK f : f = [b.futures EXCEPT ![x.place] = answer]
    OBVIOUS
  <2>2. batch' = [batch EXCEPT ![x.caller] = [round |-> b.round, futures |-> f]]
    BY <1>1, <1>4, <2>1 DEF End
  <2>3. x.place \in DOMAIN b.futures
    BY <1>1, <1>4 DEF Placed, Calls
  <2>5. f \in Seq(Future) /\ Len(f) = Len(b.futures) /\ DOMAIN f = DOMAIN b.futures
    BY <1>2, <2>1, <2>3
  <2>6. \A p \in DOMAIN b.futures : f[p] = IF p = x.place THEN answer ELSE b.futures[p]
    BY <2>1
  <2>7. [round |-> b.round, futures |-> f] \in [round : Nat, futures : Seq(Future)]
    BY <1>2, <2>5
  <2>8. batch' \in [Caller -> [round : Nat, futures : Seq(Future)]]
    BY <1>2, <2>2, <2>7
  <2>9. batch'[x.caller].round = b.round /\ batch'[x.caller].futures = f
    BY <1>2, <2>2
  <2>10. \A c \in Caller : c # x.caller => batch'[c] = batch[c]
    BY <1>2, <2>2
  <2>11. \A p : Mine(x, x.caller, p) <=> p = x.place
    BY <1>1, <1>4 DEF Mine
  <2>12. \A c \in Caller : c # x.caller => \A p : ~Mine(x, c, p)
    BY DEF Mine
  <2>13. ASSUME NEW c \in Caller
         PROVE  /\ batch'[c].round = batch[c].round
                /\ Len(batch'[c].futures) = Len(batch[c].futures)
                /\ DOMAIN batch'[c].futures = DOMAIN batch[c].futures
                /\ \A p \in DOMAIN batch[c].futures :
                      batch'[c].futures[p] = IF Mine(x, c, p) THEN answer
                                             ELSE batch[c].futures[p]
    <3>1. CASE c = x.caller
      BY <1>1, <2>5, <2>6, <2>9, <2>11, <3>1
    <3>2. CASE c # x.caller
      BY <2>10, <2>12, <3>2
    <3> QED
      BY <3>1, <3>2
  <2> QED
    BY <2>8, <2>13 DEF Ended
<1> QED
  BY <1>3, <1>4

SameBatches ==
    \A c \in Caller : batch'[c].round = batch[c].round /\ DOMAIN batch'[c].futures = DOMAIN batch[c].futures

LEMMA SamePlaces ==
    ASSUME NEW x, x.caller \in Caller, SameBatches
    PROVE  /\ Placed(x) => Placed(x)'
           /\ \A c \in Caller : \A p : Mine(x, c, p)' = Mine(x, c, p)
  BY DEF SameBatches, Placed, Mine, Calls

\* The queues are as they should be, with the threads as they were.
QueueKept ==
    /\ queue' \in [Registry -> Seq(Item)]
    /\ \A r \in Registry : \A i \in DOMAIN queue'[r] :
          /\ r = Uses[queue'[r][i].caller] /\ Placed(queue[r][i])'
          /\ queue'[r][i].phase = "queued" =>
                waiting'[queue'[r][i].caller] /\ queue'[r][i].round = batch'[queue'[r][i].caller].round
          /\ \A t \in Thread : work[t] # NoWork => ~SameCall(queue'[r][i], work[t])
    /\ \A r \in Registry : \A i, j \in DOMAIN queue'[r] : SameCall(queue'[r][i], queue'[r][j]) => i = j

HeadTaken(x) ==
    /\ QueueKept /\ x \in Item /\ x.caller \in Caller /\ Placed(x)
    /\ \A r \in Registry : \A i \in DOMAIN queue'[r] : ~SameCall(queue'[r][i], x)
    /\ \A t \in Thread : work[t] # NoWork => ~SameCall(x, work[t])
    /\ \A c \in Caller : \A p : Queued(c, p)' <=> Queued(c, p) /\ ~(Mine(x, c, p) /\ x.phase = "queued")

LEMMA QueueLoses ==
    ASSUME BInv, SameBatches, UNCHANGED waiting, NEW h \in Registry, queue[h] # <<>>,
           queue' = [queue EXCEPT ![h] = Tail(queue[h])], NEW x, x = Head(queue[h])
    PROVE  HeadTaken(x)
<1>1. /\ queue' \in [Registry -> Seq(Item)] /\ 1 \in DOMAIN queue[h] /\ x = queue[h][1] /\ x \in Item
      /\ \A i \in DOMAIN queue'[h] : i + 1 \in DOMAIN queue[h] /\ queue'[h][i] = queue[h][i + 1] /\ i + 1 # 1
      /\ \A j \in DOMAIN queue[h] : j # 1 => j - 1 \in DOMAIN queue'[h] /\ queue'[h][j - 1] = queue[h][j]
      /\ \A r \in Registry : r # h => queue'[r] = queue[r]
  BY HeadGone DEF BInv
<1>2. x.caller \in Caller
  BY <1>1 DEF Item
<1>3. Placed(x) /\ h = Uses[x.caller]
  BY <1>1 DEF BInv, Kept
<1>4. \A t \in Thread : work[t] # NoWork => ~SameCall(x, work[t])
  BY <1>1 DEF BInv, Once
<1>5. ASSUME NEW r \in Registry, NEW i \in DOMAIN queue'[r]
      PROVE  \E j \in DOMAIN queue[r] : /\ queue'[r][i] = queue[r][j] /\ (r = h => j # 1)
                                        /\ (r = h => j = i + 1) /\ (r # h => j = i)
  <2>1. CASE r = h
    BY <1>1, <2>1
  <2>2. CASE r # h
    BY <1>1, <2>2
  <2> QED
    BY <2>1, <2>2
<1>6. ASSUME NEW r \in Registry, NEW j \in DOMAIN queue[r], r # h \/ j # 1
      PROVE  \E i \in DOMAIN queue'[r] : queue'[r][i] = queue[r][j]
  <2>1. CASE r = h
    BY <1>1, <1>6, <2>1
  <2>2. CASE r # h
    BY <1>1, <2>2
  <2> QED
    BY <2>1, <2>2
<1>7. ASSUME NEW r \in Registry, NEW i \in DOMAIN queue'[r]
      PROVE  /\ r = Uses[queue'[r][i].caller] /\ Placed(queue[r][i])'
             /\ queue'[r][i].phase = "queued" =>
                   waiting'[queue'[r][i].caller]
                   /\ queue'[r][i].round = batch'[queue'[r][i].caller].round
             /\ ~SameCall(queue'[r][i], x)
             /\ \A t \in Thread : work[t] # NoWork => ~SameCall(queue'[r][i], work[t])
  <2>1. PICK j \in DOMAIN queue[r] : queue'[r][i] = queue[r][j] /\ (r = h => j # 1)
    BY <1>5
  <2>2. PICK y : y = queue[r][j]
    OBVIOUS
  <2>3. y \in Item /\ y.caller \in Caller
    <3>1. queue[r] \in Seq(Item)
      BY DEF BInv, BatchTyped
    <3>2. y \in Item
      BY <2>2, <3>1
    <3> QED
      BY <3>2 DEF Item
  <2>4. /\ r = Uses[y.caller] /\ Placed(y)
        /\ y.phase = "queued" => waiting[y.caller] /\ y.round = batch[y.caller].round
        /\ \A t \in Thread : work[t] # NoWork => ~SameCall(y, work[t])
    BY <2>2 DEF BInv, Kept, Once
  <2>5. Placed(y)'
    BY <2>3, <2>4, SamePlaces
  <2>6. ~SameCall(y, x)
    <3>1. CASE r = h
      BY <1>1, <2>1, <2>2, <3>1 DEF BInv, Once
    <3>2. CASE r # h
      BY <1>3, <2>4, <3>2 DEF SameCall
    <3> QED
      BY <3>1, <3>2
  <2>7. y.phase = "queued" => waiting'[y.caller] /\ y.round = batch'[y.caller].round
    BY <2>3, <2>4 DEF SameBatches
  <2>8. Placed(queue[r][i])'
    BY <2>1, <2>2, <2>5 DEF Placed, Calls
  <2> QED
    BY <2>1, <2>2, <2>4, <2>6, <2>7, <2>8
<1>8. ASSUME NEW r \in Registry, NEW i \in DOMAIN queue'[r], NEW j \in DOMAIN queue'[r],
             SameCall(queue'[r][i], queue'[r][j])
      PROVE  i = j
  <2>1. PICK k \in DOMAIN queue[r] : queue'[r][i] = queue[r][k] /\ (r = h => k = i + 1) /\ (r # h => k = i)
    BY <1>5
  <2>2. PICK l \in DOMAIN queue[r] : queue'[r][j] = queue[r][l] /\ (r = h => l = j + 1) /\ (r # h => l = j)
    BY <1>5
  <2>3. k = l
    BY <1>8, <2>1, <2>2 DEF BInv, Once
  <2>4. i \in Nat /\ j \in Nat
    BY <1>1
  <2> QED
    BY <2>1, <2>2, <2>3, <2>4
<1>9. ASSUME NEW c \in Caller, NEW p
      PROVE  Queued(c, p)' <=> Queued(c, p) /\ ~(Mine(x, c, p) /\ x.phase = "queued")
  <2>1. ASSUME Queued(c, p)'
        PROVE  Queued(c, p) /\ ~(Mine(x, c, p) /\ x.phase = "queued")
    <3>5. PICK r \in Registry : \E i \in DOMAIN queue'[r] : Mine(queue[r][i], c, p)' /\ queue'[r][i].phase = "queued"
      BY <2>1 DEF Queued, Mine
    <3>1. PICK i \in DOMAIN queue'[r] : Mine(queue[r][i], c, p)' /\ queue'[r][i].phase = "queued"
      BY <3>5
    <3>2. PICK j \in DOMAIN queue[r] : queue'[r][i] = queue[r][j]
      BY <1>5
    <3>3. Mine(queue[r][j], c, p) /\ queue[r][j].phase = "queued"
      BY <3>1, <3>2 DEF Mine, SameBatches
    <3>4. ~SameCall(queue'[r][i], x)
      BY <1>7
    <3> QED
      BY <3>2, <3>3, <3>4 DEF Queued, Mine, SameCall
  <2>2. ASSUME Queued(c, p), ~(Mine(x, c, p) /\ x.phase = "queued")
        PROVE  Queued(c, p)'
    <3>5. PICK r \in Registry : \E j \in DOMAIN queue[r] : Mine(queue[r][j], c, p) /\ queue[r][j].phase = "queued"
      BY <2>2 DEF Queued
    <3>1. PICK j \in DOMAIN queue[r] : Mine(queue[r][j], c, p) /\ queue[r][j].phase = "queued"
      BY <3>5
    <3>2. r # h \/ j # 1
      BY <1>1, <2>2, <3>1
    <3>3. PICK i \in DOMAIN queue'[r] : queue'[r][i] = queue[r][j]
      BY <1>6, <3>2
    <3>4. /\ queue'[r][i].caller = c /\ queue'[r][i].round = batch'[c].round
          /\ queue'[r][i].place = p /\ queue'[r][i].phase = "queued"
      BY <3>1, <3>3 DEF Mine, SameBatches
    <3> QED
      BY <3>4 DEF Queued, Mine
  <2> QED
    BY <2>1, <2>2
<1>10. QueueKept
  BY <1>1, <1>7, <1>8 DEF QueueKept
<1> QED
  BY <1>1, <1>2, <1>3, <1>4, <1>7, <1>9, <1>10 DEF HeadTaken

\* A thread puts its call away, or has another one.
WorkKept(t, w, x) ==
    /\ work' \in [Thread -> Busy \cup {NoWork}]
    /\ work'[t] = w /\ \A u \in Thread : u # t => work'[u] = work[u]
    /\ \A u \in Thread : work'[u] # NoWork => Placed(work[u])'
    /\ \A u, v \in Thread : work'[u] # NoWork /\ work'[v] # NoWork /\ SameCall(work'[u], work'[v]) => u = v
    /\ \A c \in Caller : \A p :
          AtWork(c, p)' <=> \/ w # NoWork /\ Mine(w, c, p)
                            \/ AtWork(c, p) /\ ~(x # NoWork /\ Mine(x, c, p))

LEMMA WorkChanges ==
    ASSUME BInv, SameBatches, NEW t \in Thread, NEW w \in Busy \cup {NoWork},
           work' = [work EXCEPT ![t] = w],
           w # NoWork => Placed(w), NEW x, x = work[t],
           \A u \in Thread : u # t /\ work[u] # NoWork /\ w # NoWork => ~SameCall(w, work[u])
    PROVE  WorkKept(t, w, x)
<1>1. work \in [Thread -> Busy \cup {NoWork}]
  BY DEF BInv, BatchTyped
<1>2. /\ work' \in [Thread -> Busy \cup {NoWork}]
      /\ work'[t] = w /\ \A u \in Thread : u # t => work'[u] = work[u]
  BY <1>1
<1>3. \A y \in Busy : y.caller \in Caller
  BY DEF Busy
<1>4. ASSUME NEW u \in Thread, work'[u] # NoWork PROVE Placed(work[u])'
  <2>1. PICK y : y = work'[u]
    OBVIOUS
  <2>2. y \in Busy
    BY <1>2, <1>4, <2>1
  <2>3. Placed(y)
    BY <1>2, <1>4, <2>1 DEF BInv, Kept
  <2>4. Placed(y)'
    BY <1>3, <2>2, <2>3, SamePlaces
  <2> QED
    BY <2>1, <2>4 DEF Placed, Calls
<1>5. ASSUME NEW u \in Thread, NEW v \in Thread, work'[u] # NoWork, work'[v] # NoWork,
             SameCall(work'[u], work'[v]), u # v
      PROVE  FALSE
  <2>1. CASE u = t
    BY <1>2, <1>5, <2>1
  <2>2. CASE v = t
    <3>1. SameCall(w, work[u]) /\ work[u] # NoWork /\ w # NoWork
      BY <1>2, <1>5, <2>2 DEF SameCall
    <3> QED
      BY <1>5, <2>2, <3>1
  <2>3. CASE u # t /\ v # t
    BY <1>2, <1>5, <2>3 DEF BInv, Once
  <2> QED
    BY <2>1, <2>2, <2>3
<1>6. ASSUME NEW c \in Caller, NEW p
      PROVE  AtWork(c, p)' <=> \/ w # NoWork /\ Mine(w, c, p)
                               \/ AtWork(c, p) /\ ~(x # NoWork /\ Mine(x, c, p))
  <2>1. \A y : y.caller = c /\ y.round = batch'[c].round /\ y.place = p <=> Mine(y, c, p)
    BY DEF Mine, SameBatches
  <2>2. AtWork(c, p)' <=> \E u \in Thread : work'[u] # NoWork /\ Mine(work'[u], c, p)
    BY <2>1 DEF AtWork, Mine
  <2>3. ASSUME NEW u \in Thread, u # t, work[u] # NoWork, Mine(work[u], c, p)
        PROVE  ~(x # NoWork /\ Mine(x, c, p))
    BY <2>3 DEF BInv, Once, Mine, SameCall
  <2>4. ASSUME AtWork(c, p)'
        PROVE  \/ w # NoWork /\ Mine(w, c, p)
               \/ AtWork(c, p) /\ ~(x # NoWork /\ Mine(x, c, p))
    <3>1. PICK u \in Thread : work'[u] # NoWork /\ Mine(work'[u], c, p)
      BY <2>2, <2>4
    <3>2. CASE u = t
      BY <1>2, <3>1, <3>2
    <3>3. CASE u # t
      <4>1. work[u] # NoWork /\ Mine(work[u], c, p)
        BY <1>2, <3>1, <3>3
      <4> QED
        BY <2>3, <3>3, <4>1 DEF AtWork
    <3> QED
      BY <3>2, <3>3
  <2>5. ASSUME w # NoWork /\ Mine(w, c, p)
        PROVE  AtWork(c, p)'
    BY <1>2, <2>2, <2>5
  <2>6. ASSUME AtWork(c, p), ~(x # NoWork /\ Mine(x, c, p))
        PROVE  AtWork(c, p)'
    <3>1. PICK u \in Thread : work[u] # NoWork /\ Mine(work[u], c, p)
      BY <2>6 DEF AtWork
    <3>2. u # t
      BY <2>6, <3>1
    <3> QED
      BY <1>2, <2>2, <3>1, <3>2
  <2> QED
    BY <2>4, <2>5, <2>6
<1> QED
  BY <1>2, <1>4, <1>5, <1>6 DEF WorkKept

\* One call of all ends.
LEMMA OneEnds ==
    ASSUME BInv, UNCHANGED <<got, waiting>>, NEW x, NEW answer, answer # Pending, Ended(x, answer),
           \A c \in Caller : \A p :
              /\ Queued(c, p)' \/ AtWork(c, p)' <=> (Queued(c, p) \/ AtWork(c, p)) /\ ~Mine(x, c, p)
              /\ Mine(x, c, p) => Queued(c, p) \/ AtWork(c, p)
    PROVE  \A c \in Caller : Collected(c)'
<1> SUFFICES ASSUME NEW c \in Caller, waiting[c] \/ got[c] # <<>> PROVE Collected(c)'
  BY DEF Collected
<1>1. PICK f : f = batch[c].futures
  OBVIOUS
<1>2. PICK g : g = batch'[c].futures
  OBVIOUS
<1>3. /\ Len(g) = Len(f) /\ DOMAIN g = DOMAIN f
      /\ \A p \in DOMAIN f : g[p] = IF Mine(x, c, p) THEN answer ELSE f[p]
  BY <1>1, <1>2 DEF Ended
<1>4. /\ \A p \in DOMAIN f : f[p] = Pending <=> Queued(c, p) \/ AtWork(c, p)
      /\ Len(got[c]) <= Len(f)
      /\ \A i \in 1 .. Len(got[c]) :
            got[c][i] = [place |-> i, result |-> f[i].result] /\ f[i].state = "done"
      /\ ~waiting[c] => Len(got[c]) = Len(f)
  BY <1>1 DEF BInv, Collected, Calls
<1>5. Len(f) \in Nat /\ DOMAIN f = 1 .. Len(f) /\ Len(got[c]) \in Nat
  <2>1. f \in Seq(Future) /\ got[c] \in Seq([place : Nat, result : Result])
    BY <1>1 DEF BInv, BatchTyped
  <2> QED
    BY <2>1
<1>6. answer # Pending
  OBVIOUS
<1>7. ASSUME NEW p \in DOMAIN f PROVE g[p] = Pending <=> Queued(c, p)' \/ AtWork(c, p)'
  BY <1>3, <1>4, <1>6
<1>8. ASSUME NEW i \in 1 .. Len(got[c])
      PROVE  got[c][i] = [place |-> i, result |-> g[i].result] /\ g[i].state = "done"
  <2>1. i \in DOMAIN f
    BY <1>4, <1>5
  <2>2. f[i] # Pending
    <3>1. f[i].state = "done"
      BY <1>4
    <3>2. Pending.state = "pending"
      BY DEF Pending
    <3> QED
      BY <3>1, <3>2
  <2>3. ~Mine(x, c, i)
    BY <1>4, <2>1, <2>2
  <2> QED
    BY <1>3, <1>4, <2>1, <2>3
<1>9. UNCHANGED <<got, waiting>>
  OBVIOUS
<1> QED
  BY <1>2, <1>3, <1>4, <1>7, <1>8, <1>9 DEF Collected, Calls, Pending

\* A call goes from one place to another.
LEMMA NoneEnds ==
    ASSUME BInv, UNCHANGED <<got, waiting, batch>>,
           \A c \in Caller : \A p : Queued(c, p)' \/ AtWork(c, p)' <=> Queued(c, p) \/ AtWork(c, p)
    PROVE  \A c \in Caller : Collected(c)'
  BY DEF BInv, Collected, Calls, Pending

LEMMA SkipKeeps ==
    ASSUME ToolAssumption, BInv, NEW t \in Thread, Skip(t) PROVE BInv'
<1>1. PICK h : h = Home[t]
  OBVIOUS
<1>2. PICK x : x = Head(queue[h])
  OBVIOUS
<1>3. /\ h \in Registry /\ queue[h] # <<>> /\ x.phase = "cancelled"
      /\ queue' = [queue EXCEPT ![h] = Tail(queue[h])]
      /\ UNCHANGED <<batch, got, waiting, work, resolving>>
  BY <1>1, <1>2 DEF Skip, ToolAssumption, resolverVars
<1>4. SameBatches
  BY <1>3 DEF SameBatches
<1>5. /\ QueueKept
      /\ \A c \in Caller : \A p : Queued(c, p)' <=> Queued(c, p) /\ ~(Mine(x, c, p) /\ x.phase = "queued")
  BY <1>2, <1>3, <1>4, QueueLoses DEF HeadTaken
<1>6. \A c \in Caller : \A p : AtWork(c, p)' <=> AtWork(c, p)
  BY <1>3 DEF AtWork, Mine
<1>7. \A c \in Caller : Collected(c)'
  <2>1. \A c \in Caller : \A p : Queued(c, p)' \/ AtWork(c, p)' <=> Queued(c, p) \/ AtWork(c, p)
    BY <1>3, <1>5, <1>6
  <2> QED
    BY <1>3, <2>1, NoneEnds
<1>8. BatchTyped'
  BY <1>3, <1>5 DEF BInv, BatchTyped, QueueKept
<1>9. \A u \in Thread : /\ work[u] # NoWork => Placed(work[u])'
                        /\ resolving[u].at # "idle" => work[u] # NoWork /\ work[u].phase = "resolving"
  BY <1>3 DEF BInv, Kept, Placed, Calls
<1>10. Kept'
  BY <1>3, <1>5, <1>9 DEF Kept, QueueKept
<1>11. Once'
  <2>1. \A u, v \in Thread : work[u] # NoWork /\ work[v] # NoWork /\ SameCall(work[u], work[v]) => u = v
    BY DEF BInv, Once
  <2>2. work' = work
    BY <1>3
  <2>3. \A r \in Registry : \A i \in DOMAIN queue'[r] : \A u \in Thread :
           work[u] # NoWork => ~SameCall(queue'[r][i], work[u])
    BY <1>5 DEF QueueKept
  <2>4. \A r \in Registry : \A i, j \in DOMAIN queue'[r] : SameCall(queue'[r][i], queue'[r][j]) => i = j
    BY <1>5 DEF QueueKept
  <2>5. \A r \in Registry : \A i, j \in DOMAIN queue'[r] : SameCall(queue[r][i], queue[r][j])' => i = j
    BY <2>4 DEF SameCall
  <2>6. \A r \in Registry : \A i \in DOMAIN queue'[r] : \A u \in Thread :
           work'[u] # NoWork => ~SameCall(queue[r][i], work[u])'
    BY <2>2, <2>3 DEF SameCall
  <2>7. \A u, v \in Thread : work'[u] # NoWork /\ work'[v] # NoWork /\ SameCall(work[u], work[v])' => u = v
    BY <2>1, <2>2 DEF SameCall
  <2> QED
    BY <2>5, <2>6, <2>7 DEF Once
<1> QED
  BY <1>7, <1>8, <1>10, <1>11 DEF BInv

\* A call with arguments that are no JSON is over at once.
LEMMA TakeInvalidKeeps ==
    ASSUME ToolAssumption, BInv, NEW t \in Thread, NEW h \in Registry, NEW x,
           queue[h] # <<>>, x = Head(queue[h]), x.phase = "queued",
           queue' = [queue EXCEPT ![h] = Tail(queue[h])], End(x, "done", "invalid"),
           UNCHANGED <<got, waiting, work, resolving>>
    PROVE  BInv'
<1>1. x.caller \in Caller /\ Placed(x) /\ x.round = batch[x.caller].round
  <2>1. 1 \in DOMAIN queue[h] /\ x = queue[h][1] /\ x \in Item
    BY HeadGone DEF BInv
  <2> QED
    BY <2>1 DEF BInv, Kept, Item
<1>12. PICK answer : answer = [state |-> "done", result |-> "invalid"]
  OBVIOUS
<1>13. answer \in Future /\ answer # Pending
  <2>1. answer.state # Pending.state
    BY <1>12 DEF Pending
  <2>2. answer \in Future
    BY <1>12 DEF Future, Result
  <2> QED
    BY <2>1, <2>2
<1>2. batch' \in [Caller -> [round : Nat, futures : Seq(Future)]] /\ Ended(x, answer)
  BY <1>1, <1>12, <1>13, EndIs DEF BInv
<1>3. SameBatches
  BY <1>2 DEF SameBatches, Ended
<1>4. /\ QueueKept
      /\ \A u \in Thread : work[u] # NoWork => ~SameCall(x, work[u])
      /\ \A c \in Caller : \A p : Queued(c, p)' <=> Queued(c, p) /\ ~(Mine(x, c, p) /\ x.phase = "queued")
  BY <1>3, QueueLoses DEF HeadTaken
<1>5. \A c \in Caller : \A p : AtWork(c, p)' <=> AtWork(c, p)
  BY <1>2 DEF AtWork, Mine, Ended
<1>6. \A c \in Caller : \A p : Mine(x, c, p) => Queued(c, p) /\ ~AtWork(c, p)
  <2> SUFFICES ASSUME NEW c \in Caller, NEW p, Mine(x, c, p) PROVE Queued(c, p) /\ ~AtWork(c, p)
    OBVIOUS
  <2>1. Queued(c, p)
    <3>1. 1 \in DOMAIN queue[h] /\ x = queue[h][1]
      BY HeadGone DEF BInv
    <3> QED
      BY <3>1 DEF Queued
  <2>2. ~AtWork(c, p)
    BY <1>4 DEF AtWork, Mine, SameCall
  <2> QED
    BY <2>1, <2>2
<1>7. \A c \in Caller : Collected(c)'
  <2>1. \A c \in Caller : \A p :
           /\ Queued(c, p)' \/ AtWork(c, p)' <=> (Queued(c, p) \/ AtWork(c, p)) /\ ~Mine(x, c, p)
           /\ Mine(x, c, p) => Queued(c, p) \/ AtWork(c, p)
    BY <1>4, <1>5, <1>6
  <2> QED
    BY <1>2, <1>13, <2>1, OneEnds
<1>8. BatchTyped'
  BY <1>2, <1>4 DEF BInv, BatchTyped, QueueKept
<1>9. ASSUME NEW u \in Thread, work[u] # NoWork PROVE Placed(work[u])'
  <2>1. PICK y : y = work[u]
    OBVIOUS
  <2>2. y.caller \in Caller /\ Placed(y)
    BY <1>9, <2>1 DEF BInv, BatchTyped, Busy, Kept
  <2>3. Placed(y)'
    BY <1>3, <2>2, SamePlaces
  <2> QED
    BY <2>1, <2>3 DEF Placed, Calls
<1>10. Kept'
  BY <1>4, <1>9 DEF BInv, Kept, QueueKept
<1>11. Once'
  <2>1. \A u, v \in Thread : work[u] # NoWork /\ work[v] # NoWork /\ SameCall(work[u], work[v]) => u = v
    BY DEF BInv, Once
  <2>2. work' = work
    OBVIOUS
  <2>3. \A r \in Registry : \A i \in DOMAIN queue'[r] : \A u \in Thread :
           work[u] # NoWork => ~SameCall(queue'[r][i], work[u])
    BY <1>4 DEF QueueKept
  <2>4. \A r \in Registry : \A i, j \in DOMAIN queue'[r] : SameCall(queue'[r][i], queue'[r][j]) => i = j
    BY <1>4 DEF QueueKept
  <2>5. \A r \in Registry : \A i, j \in DOMAIN queue'[r] : SameCall(queue[r][i], queue[r][j])' => i = j
    BY <2>4 DEF SameCall
  <2>6. \A r \in Registry : \A i \in DOMAIN queue'[r] : \A u \in Thread :
           work'[u] # NoWork => ~SameCall(queue[r][i], work[u])'
    BY <2>2, <2>3 DEF SameCall
  <2>7. \A u, v \in Thread : work'[u] # NoWork /\ work'[v] # NoWork /\ SameCall(work[u], work[v])' => u = v
    BY <2>1, <2>2 DEF SameCall
  <2> QED
    BY <2>5, <2>6, <2>7 DEF Once
<1> QED
  BY <1>7, <1>8, <1>10, <1>11 DEF BInv

\* A call goes from the queue to a thread.
LEMMA TakeBeginKeeps ==
    ASSUME ToolAssumption, BInv, NEW t \in Thread, NEW h \in Registry, NEW x, NEW y \in Busy,
           queue[h] # <<>>, x = Head(queue[h]), x.phase = "queued", work[t] = NoWork,
           queue' = [queue EXCEPT ![h] = Tail(queue[h])], SameCall(x, y),
           work' = [work EXCEPT ![t] = y], UNCHANGED <<batch, got, waiting>>,
           \A u \in Thread : u # t => resolving'[u].at = resolving[u].at,
           resolving'[t].at # "idle" => y.phase = "resolving"
    PROVE  BInv'
<1>1. SameBatches
  BY DEF SameBatches
<1>15. UNCHANGED waiting
  OBVIOUS
<1>16. HeadTaken(x)
  BY <1>1, <1>15, QueueLoses
<1>2. /\ QueueKept /\ x \in Item /\ x.caller \in Caller /\ Placed(x)
      /\ \A r \in Registry : \A i \in DOMAIN queue'[r] : ~SameCall(queue'[r][i], x)
      /\ \A u \in Thread : work[u] # NoWork => ~SameCall(x, work[u])
      /\ \A c \in Caller : \A p : Queued(c, p)' <=> Queued(c, p) /\ ~(Mine(x, c, p) /\ x.phase = "queued")
  BY <1>16 DEF HeadTaken
<1>3. y \in Busy \cup {NoWork} /\ y.caller = x.caller /\ y.round = x.round /\ y.place = x.place
  BY DEF SameCall
<1>4. y # NoWork /\ Placed(y) /\ \A c, p : Mine(y, c, p) <=> Mine(x, c, p)
  <2>1. y # NoWork
    BY DEF Busy, NoWork
  <2> QED
    BY <1>2, <1>3, <2>1 DEF Placed, Mine
<1>5. \A u \in Thread : u # t /\ work[u] # NoWork /\ y # NoWork => ~SameCall(y, work[u])
  BY <1>2, <1>3 DEF SameCall
<1>6. PICK w : w = work[t]
  OBVIOUS
<1>7. WorkKept(t, y, w)
  BY <1>1, <1>3, <1>4, <1>5, <1>6, WorkChanges
<1>70. /\ work' \in [Thread -> Busy \cup {NoWork}]
       /\ work'[t] = y /\ \A u \in Thread : u # t => work'[u] = work[u]
       /\ \A u \in Thread : work'[u] # NoWork => Placed(work[u])'
       /\ \A u, v \in Thread : work'[u] # NoWork /\ work'[v] # NoWork /\ SameCall(work'[u], work'[v]) => u = v
       /\ \A c \in Caller : \A p :
            AtWork(c, p)' <=> \/ y # NoWork /\ Mine(y, c, p)
                              \/ AtWork(c, p) /\ ~(w # NoWork /\ Mine(w, c, p))
  BY <1>7 DEF WorkKept
<1>8. \A c \in Caller : \A p : Mine(x, c, p) => Queued(c, p)
  <2>1. 1 \in DOMAIN queue[h] /\ x = queue[h][1]
    BY HeadGone DEF BInv
  <2> QED
    BY <2>1 DEF Queued
<1>9. \A c \in Caller : Collected(c)'
  <2>1. \A c \in Caller : \A p : Queued(c, p)' \/ AtWork(c, p)' <=> Queued(c, p) \/ AtWork(c, p)
    BY <1>2, <1>4, <1>6, <1>70, <1>8
  <2> QED
    BY <2>1, NoneEnds
<1>10. BatchTyped'
  BY <1>2, <1>70 DEF BInv, BatchTyped, QueueKept
<1>11. \A u \in Thread : resolving'[u].at # "idle" => work'[u] # NoWork /\ work'[u].phase = "resolving"
  BY <1>3, <1>4, <1>70 DEF BInv, Kept
<1>12. Kept'
  BY <1>2, <1>70, <1>11 DEF Kept, QueueKept
<1>13. ASSUME NEW r \in Registry, NEW i \in DOMAIN queue'[r], NEW u \in Thread, work'[u] # NoWork
       PROVE  ~SameCall(queue'[r][i], work'[u])
  <2>1. CASE u = t
    <3>1. ~SameCall(queue'[r][i], x) /\ work'[u] = y
      BY <1>2, <1>70, <2>1
    <3> QED
      BY <1>3, <3>1 DEF SameCall
  <2>2. CASE u # t
    BY <1>2, <1>70, <1>13, <2>2 DEF QueueKept
  <2> QED
    BY <2>1, <2>2
<1>14. Once'
  BY <1>2, <1>70, <1>13 DEF Once, QueueKept, SameCall
<1> QED
  BY <1>9, <1>10, <1>12, <1>14 DEF BInv

\* The call of a thread ends.
LEMMA LeaveKeeps ==
    ASSUME BInv, NEW t \in Thread, NEW s \in {"done", "failed"}, NEW result \in Result,
           work[t] # NoWork, Leave(t, s, result), UNCHANGED <<queue, got, waiting>>,
           \A u \in Thread : u # t => resolving'[u].at = resolving[u].at, resolving'[t].at = "idle"
    PROVE  BInv'
<1>1. PICK x : x = work[t]
  OBVIOUS
<1>2. x \in Busy /\ x # NoWork /\ Placed(x)
  BY <1>1 DEF BInv, BatchTyped, Kept
<1>3. x.caller \in Caller
  BY <1>2 DEF Busy
<1>4. End(x, s, result) /\ work' = [work EXCEPT ![t] = NoWork]
  BY <1>1 DEF Leave
<1>5. PICK answer : answer = [state |-> s, result |-> result]
  OBVIOUS
<1>6. answer \in Future /\ answer # Pending
  <2>1. answer.state # Pending.state
    BY <1>5 DEF Pending
  <2>2. answer \in Future
    BY <1>5 DEF Future
  <2> QED
    BY <2>1, <2>2
<1>7. batch' \in [Caller -> [round : Nat, futures : Seq(Future)]] /\ Ended(x, answer)
  BY <1>2, <1>3, <1>4, <1>5, <1>6, EndIs DEF BInv
<1>8. SameBatches
  BY <1>7 DEF SameBatches, Ended
<1>9. PICK w : w = NoWork
  OBVIOUS
<1>10. WorkKept(t, w, x)
  BY <1>1, <1>4, <1>8, <1>9, WorkChanges
<1>100. /\ work' \in [Thread -> Busy \cup {NoWork}]
        /\ work'[t] = w /\ \A u \in Thread : u # t => work'[u] = work[u]
        /\ \A u \in Thread : work'[u] # NoWork => Placed(work[u])'
        /\ \A u, v \in Thread : work'[u] # NoWork /\ work'[v] # NoWork /\ SameCall(work'[u], work'[v]) => u = v
        /\ \A c \in Caller : \A p :
              AtWork(c, p)' <=> \/ w # NoWork /\ Mine(w, c, p)
                                \/ AtWork(c, p) /\ ~(x # NoWork /\ Mine(x, c, p))
  BY <1>10 DEF WorkKept
<1>11. \A c \in Caller : \A p : Mine(x, c, p) => AtWork(c, p) /\ ~Queued(c, p)
  <2> SUFFICES ASSUME NEW c \in Caller, NEW p, Mine(x, c, p) PROVE AtWork(c, p) /\ ~Queued(c, p)
    OBVIOUS
  <2>1. AtWork(c, p)
    BY <1>1, <1>2 DEF AtWork
  <2>2. ~Queued(c, p)
    BY <1>1, <1>2 DEF BInv, Once, Queued, Mine, SameCall
  <2> QED
    BY <2>1, <2>2
<1>12. \A c \in Caller : \A p : Queued(c, p)' <=> Queued(c, p)
  BY <1>8 DEF Queued, Mine, SameBatches
<1>13. \A c \in Caller : Collected(c)'
  <2>1. \A c \in Caller : \A p :
           /\ Queued(c, p)' \/ AtWork(c, p)' <=> (Queued(c, p) \/ AtWork(c, p)) /\ ~Mine(x, c, p)
           /\ Mine(x, c, p) => Queued(c, p) \/ AtWork(c, p)
    BY <1>2, <1>9, <1>100, <1>11, <1>12
  <2> QED
    BY <1>6, <1>7, <2>1, OneEnds
<1>14. BatchTyped'
  BY <1>7, <1>100 DEF BInv, BatchTyped
<1>15. ASSUME NEW r \in Registry, NEW i \in DOMAIN queue[r]
       PROVE  /\ r = Uses[queue[r][i].caller] /\ Placed(queue[r][i])'
              /\ queue[r][i].phase = "queued" =>
                    waiting[queue[r][i].caller] /\ queue[r][i].round = batch'[queue[r][i].caller].round
  <2>1. PICK y : y = queue[r][i]
    OBVIOUS
  <2>2. queue[r] \in Seq(Item)
    BY DEF BInv, BatchTyped
  <2>3. y \in Item
    BY <2>1, <2>2
  <2>4. /\ r = Uses[y.caller] /\ Placed(y) /\ y.caller \in Caller
        /\ y.phase = "queued" => waiting[y.caller] /\ y.round = batch[y.caller].round
    BY <2>1, <2>3 DEF BInv, Kept, Item
  <2>5. Placed(y)'
    BY <1>8, <2>4, SamePlaces
  <2>6. Placed(queue[r][i])'
    BY <2>1, <2>5 DEF Placed, Calls
  <2> QED
    BY <1>8, <2>1, <2>4, <2>6 DEF SameBatches
<1>16. \A u \in Thread : resolving'[u].at # "idle" => work'[u] # NoWork /\ work'[u].phase = "resolving"
  BY <1>100 DEF BInv, Kept
<1>17. Kept'
  BY <1>100, <1>15, <1>16 DEF Kept
<1>18. Once'
  BY <1>9, <1>100 DEF BInv, Once, SameCall
<1> QED
  BY <1>13, <1>14, <1>17, <1>18 DEF BInv

\* The call of a thread has found its tool.
LEMMA BeginsToRunKeeps ==
    ASSUME BInv, NEW t \in Thread, work[t] # NoWork, work' = [work EXCEPT ![t].phase = "running"],
           UNCHANGED <<queue, batch, got, waiting>>,
           \A u \in Thread : u # t => resolving'[u].at = resolving[u].at, resolving'[t].at = "idle"
    PROVE  BInv'
<1>1. PICK x : x = work[t]
  OBVIOUS
<1>2. PICK y : y = [x EXCEPT !.phase = "running"]
  OBVIOUS
<1>3. x \in Busy /\ x # NoWork /\ Placed(x)
  BY <1>1 DEF BInv, BatchTyped, Kept
<1>4. /\ y \in Busy /\ SameCall(x, y) /\ y \in Busy \cup {NoWork}
      /\ y.caller = x.caller /\ y.round = x.round /\ y.place = x.place /\ y.phase = "running"
  BY <1>2, <1>3 DEF Busy, SameCall
<1>5. y # NoWork /\ Placed(y) /\ \A c, p : Mine(y, c, p) <=> Mine(x, c, p)
  BY <1>3, <1>4 DEF NoWork, Placed, Mine
<1>6. SameBatches
  BY DEF SameBatches
<1>7. work' = [work EXCEPT ![t] = y]
  BY <1>1, <1>2
<1>8. \A u \in Thread : u # t /\ work[u] # NoWork /\ y # NoWork => ~SameCall(y, work[u])
  BY <1>1, <1>3, <1>4 DEF BInv, Once, SameCall
<1>9. WorkKept(t, y, x)
  BY <1>1, <1>4, <1>5, <1>6, <1>7, <1>8, WorkChanges
<1>90. /\ work' \in [Thread -> Busy \cup {NoWork}]
       /\ work'[t] = y /\ \A u \in Thread : u # t => work'[u] = work[u]
       /\ \A u \in Thread : work'[u] # NoWork => Placed(work[u])'
       /\ \A u, v \in Thread : work'[u] # NoWork /\ work'[v] # NoWork /\ SameCall(work'[u], work'[v]) => u = v
       /\ \A c \in Caller : \A p :
            AtWork(c, p)' <=> \/ y # NoWork /\ Mine(y, c, p)
                              \/ AtWork(c, p) /\ ~(x # NoWork /\ Mine(x, c, p))
  BY <1>9 DEF WorkKept
<1>10. \A c \in Caller : \A p : Mine(x, c, p) => AtWork(c, p)
  BY <1>1, <1>3 DEF AtWork
<1>11. \A c \in Caller : \A p : Queued(c, p)' <=> Queued(c, p)
  BY DEF Queued, Mine
<1>12. \A c \in Caller : Collected(c)'
  <2>1. \A c \in Caller : \A p : Queued(c, p)' \/ AtWork(c, p)' <=> Queued(c, p) \/ AtWork(c, p)
    BY <1>5, <1>90, <1>10, <1>11
  <2> QED
    BY <2>1, NoneEnds
<1>13. BatchTyped'
  BY <1>90 DEF BInv, BatchTyped
<1>14. \A r \in Registry : \A i \in DOMAIN queue[r] :
          /\ r = Uses[queue[r][i].caller] /\ Placed(queue[r][i])'
          /\ queue[r][i].phase = "queued" =>
                waiting[queue[r][i].caller] /\ queue[r][i].round = batch[queue[r][i].caller].round
  BY DEF BInv, Kept, Placed, Calls
<1>15. \A u \in Thread : resolving'[u].at # "idle" => work'[u] # NoWork /\ work'[u].phase = "resolving"
  BY <1>90 DEF BInv, Kept
<1>16. Kept'
  BY <1>90, <1>14, <1>15 DEF Kept
<1>17. ASSUME NEW r \in Registry, NEW i \in DOMAIN queue[r], NEW u \in Thread, work'[u] # NoWork
       PROVE  ~SameCall(queue[r][i], work'[u])
  <2>1. CASE u = t
    BY <1>1, <1>3, <1>4, <1>90, <2>1 DEF BInv, Once, SameCall
  <2>2. CASE u # t
    BY <1>90, <1>17, <2>2 DEF BInv, Once
  <2> QED
    BY <2>1, <2>2
<1>18. Once'
  BY <1>90, <1>17 DEF BInv, Once, SameCall
<1> QED
  BY <1>12, <1>13, <1>16, <1>18 DEF BInv
-----------------------------------------------------------------------------
\* Steps that have nothing to do with a batch.
LEMMA OthersKeep ==
    ASSUME BInv, UNCHANGED batchVars,
           \A t \in Thread : resolving'[t].at # "idle" => resolving[t].at # "idle"
    PROVE  BInv'
<1>1. UNCHANGED <<batch, got, waiting, queue, work>>
  BY DEF batchVars
<1>2. BatchTyped' /\ Once'
  BY <1>1 DEF BInv, BatchTyped, Once, SameCall
<1>3. Kept'
  BY <1>1 DEF BInv, Kept, Placed, Calls
<1>4. \A c \in Caller : \A p : Queued(c, p)' \/ AtWork(c, p)' <=> Queued(c, p) \/ AtWork(c, p)
  BY <1>1 DEF Queued, AtWork, Mine
<1>5. \A c \in Caller : Collected(c)'
  BY <1>1, <1>4, NoneEnds
<1> QED
  BY <1>2, <1>3, <1>5 DEF BInv

LEMMA ResolveStepMoves ==
    ASSUME RInv, NEW t \in Thread, ResolveStep(t), NEW u \in Thread, resolving'[u].at # "idle"
    PROVE  resolving[u].at # "idle"
<1>1. DOMAIN resolving = Thread
  BY DEF RInv, Shape
<1>2. resolving[t].at # "idle"
  BY DEF ResolveStep, Look, Cached, Misses, Aged, Expire, Policy, Verify, Store, StoreMiss, Here
<1>3. \E at, policy, result : Move(t, at, policy, result)
  BY DEF ResolveStep, Look, Cached, Misses, Aged, Expire, Policy, Verify, Store, StoreMiss, Goto, Answer
<1>4. u # t => resolving'[u] = resolving[u]
  BY <1>1, <1>3 DEF Move
<1> QED
  BY <1>2, <1>4

LEMMA CollectKeeps ==
    ASSUME BInv, NEW c \in Caller, Collect(c) PROVE BInv'
<1>1. PICK g : g = got[c]
  OBVIOUS
<1>2. PICK f : f = batch[c].futures
  OBVIOUS
<1>3. g \in Seq([place : Nat, result : Result]) /\ f \in Seq(Future)
  BY <1>1, <1>2 DEF BInv, BatchTyped
<1>4. Len(g) \in Nat /\ Len(f) \in Nat /\ DOMAIN f = 1 .. Len(f) /\ DOMAIN g = 1 .. Len(g)
  BY <1>3
<1>5. PICK k : k = Len(g) + 1
  OBVIOUS
<1>6. /\ waiting[c] /\ k \in 1 .. Len(f) /\ f[k].state = "done" /\ k \in Nat
      /\ got' = [got EXCEPT ![c] = Append(g, [place |-> k, result |-> f[k].result])]
      /\ UNCHANGED <<resolverVars, loading, batch, waiting, queue, work, budget>>
  BY <1>1, <1>2, <1>4, <1>5 DEF Collect, More, NextResult
<1>7. PICK new : new = [place |-> k, result |-> f[k].result]
  OBVIOUS
<1>8. new \in [place : Nat, result : Result]
  <2>1. f[k] \in Future
    BY <1>3, <1>4, <1>6
  <2> QED
    BY <1>6, <1>7, <2>1 DEF Future
<1>9. PICK h : h = Append(g, new)
  OBVIOUS
<1>10. /\ h \in Seq([place : Nat, result : Result]) /\ Len(h) = k
       /\ h[k] = new /\ \A i \in 1 .. Len(g) : h[i] = g[i]
  BY <1>3, <1>5, <1>8, <1>9, AppendProperties
<1>11. got' = [got EXCEPT ![c] = h]
  BY <1>6, <1>7, <1>9
<1>12. /\ got' \in [Caller -> Seq([place : Nat, result : Result])] /\ got'[c] = h
       /\ \A d \in Caller : d # c => got'[d] = got[d]
  BY <1>10, <1>11 DEF BInv, BatchTyped
<1>13. UNCHANGED <<batch, waiting, queue, work, resolving>>
  BY <1>6 DEF resolverVars
<1>14. BatchTyped'
  BY <1>12, <1>13 DEF BInv, BatchTyped
<1>15. Kept' /\ Once'
  BY <1>13 DEF BInv, Kept, Placed, Calls, Once, SameCall
<1>16. \A d \in Caller : \A p : Queued(d, p)' = Queued(d, p) /\ AtWork(d, p)' = AtWork(d, p)
  BY <1>13 DEF Queued, AtWork, Mine
<1>17. ASSUME NEW d \in Caller PROVE Collected(d)'
  <2>1. CASE d # c
    BY <1>12, <1>13, <1>16, <2>1 DEF BInv, Collected, Calls, Pending
  <2>2. CASE d = c
    <3>1. /\ \A p \in DOMAIN f : f[p] = Pending <=> Queued(c, p) \/ AtWork(c, p)
          /\ \A i \in 1 .. Len(g) : g[i] = [place |-> i, result |-> f[i].result] /\ f[i].state = "done"
      BY <1>1, <1>2, <1>6 DEF BInv, Collected, Calls
    <3>2. ASSUME NEW i \in 1 .. Len(h)
          PROVE  h[i] = [place |-> i, result |-> f[i].result] /\ f[i].state = "done"
      <4>1. i = k \/ i \in 1 .. Len(g)
        BY <1>4, <1>5, <1>10
      <4> QED
        BY <1>6, <1>7, <1>10, <3>1, <4>1
    <3>3. Len(h) <= Len(f)
      BY <1>4, <1>6, <1>10
    <3> QED
      BY <1>2, <1>6, <1>12, <1>13, <1>16, <2>2, <3>1, <3>2, <3>3 DEF Collected, Calls, Pending
  <2> QED
    BY <2>1, <2>2
<1> QED
  BY <1>14, <1>15, <1>17 DEF BInv

\* Nothing is pending of a batch whose results are all there.
LEMMA AllThere ==
    ASSUME BInv, NEW c \in Caller, waiting[c] \/ got[c] # <<>>, Len(got[c]) >= Len(batch[c].futures)
    PROVE  /\ Len(got[c]) = Len(batch[c].futures)
           /\ \A p \in Calls(c) : batch[c].futures[p] # Pending /\ ~Queued(c, p) /\ ~AtWork(c, p)
<1>1. PICK f : f = batch[c].futures
  OBVIOUS
<1>2. Len(f) \in Nat /\ DOMAIN f = 1 .. Len(f) /\ Len(got[c]) \in Nat
  <2>1. f \in Seq(Future) /\ got[c] \in Seq([place : Nat, result : Result])
    BY <1>1 DEF BInv, BatchTyped
  <2> QED
    BY <2>1
<1>3. /\ \A p \in DOMAIN f : f[p] = Pending <=> Queued(c, p) \/ AtWork(c, p)
      /\ Len(got[c]) <= Len(f) /\ \A i \in 1 .. Len(got[c]) : f[i].state = "done"
  BY <1>1 DEF BInv, Collected, Calls
<1>4. Len(got[c]) = Len(f)
  BY <1>1, <1>2, <1>3
<1>5. Pending.state = "pending"
  BY DEF Pending
<1>6. \A p \in DOMAIN f : f[p] # Pending
  BY <1>2, <1>3, <1>4, <1>5
<1> QED
  BY <1>1, <1>3, <1>4, <1>6 DEF Calls

LEMMA ReturnKeeps ==
    ASSUME BInv, NEW c \in Caller, Return(c) PROVE BInv'
<1>1. /\ waiting[c] /\ waiting' = [waiting EXCEPT ![c] = FALSE]
      /\ UNCHANGED <<batch, got, queue, work, resolving>>
  BY DEF Return, resolverVars
<1>2. Len(got[c]) \in Nat /\ Len(batch[c].futures) \in Nat
  <2>1. batch[c].futures \in Seq(Future) /\ got[c] \in Seq([place : Nat, result : Result])
    BY DEF BInv, BatchTyped
  <2> QED
    BY <2>1
<1>3. Len(got[c]) >= Len(batch[c].futures)
  BY <1>2 DEF Return, More
<1>4. /\ Len(got[c]) = Len(batch[c].futures)
      /\ \A p \in Calls(c) : batch[c].futures[p] # Pending /\ ~Queued(c, p) /\ ~AtWork(c, p)
  BY <1>1, <1>3, AllThere
<1>5. /\ waiting' \in [Caller -> BOOLEAN] /\ waiting'[c] = FALSE
      /\ \A d \in Caller : d # c => waiting'[d] = waiting[d]
  BY <1>1 DEF BInv, BatchTyped
<1>6. BatchTyped'
  BY <1>1, <1>5 DEF BInv, BatchTyped
<1>7. Once'
  BY <1>1 DEF BInv, Once, SameCall
<1>8. ASSUME NEW r \in Registry, NEW i \in DOMAIN queue[r]
      PROVE  /\ r = Uses[queue[r][i].caller] /\ Placed(queue[r][i])'
             /\ queue[r][i].phase = "queued" =>
                   waiting'[queue[r][i].caller] /\ queue[r][i].round = batch[queue[r][i].caller].round
  <2>1. PICK x : x = queue[r][i]
    OBVIOUS
  <2>2. /\ r = Uses[x.caller] /\ Placed(x)
        /\ x.phase = "queued" => waiting[x.caller] /\ x.round = batch[x.caller].round
    BY <2>1 DEF BInv, Kept
  <2>3. queue[r] \in Seq(Item)
    BY DEF BInv, BatchTyped
  <2>7. x \in Item
    BY <2>1, <2>3
  <2>4. x.caller \in Caller
    BY <2>7 DEF Item
  <2>5. ASSUME x.phase = "queued" PROVE x.caller # c
    <3>1. x.caller = c => Queued(c, x.place) /\ x.place \in Calls(c)
      BY <2>1, <2>2, <2>5 DEF Queued, Mine, Placed
    <3> QED
      BY <1>4, <3>1
  <2>6. Placed(queue[r][i])'
    BY <1>1, <2>1, <2>2 DEF Placed, Calls
  <2> QED
    BY <1>5, <2>1, <2>2, <2>4, <2>5, <2>6
<1>9. \A t \in Thread : /\ work[t] # NoWork => Placed(work[t])'
                        /\ resolving[t].at # "idle" => work[t] # NoWork /\ work[t].phase = "resolving"
  BY <1>1 DEF BInv, Kept, Placed, Calls
<1>10. Kept'
  BY <1>1, <1>8, <1>9 DEF Kept
<1>11. \A d \in Caller : \A p : Queued(d, p)' = Queued(d, p) /\ AtWork(d, p)' = AtWork(d, p)
  BY <1>1 DEF Queued, AtWork, Mine
<1>12. \A d \in Caller : Collected(d)'
  BY <1>1, <1>4, <1>5, <1>11 DEF BInv, Collected, Calls, Pending
<1> QED
  BY <1>6, <1>7, <1>10, <1>12 DEF BInv

\* Who gives a batch up cancels what is queued of it.
LEMMA CancelledIs ==
    ASSUME NEW x \in Item, NEW c
    PROVE  /\ Cancelled(x, c) \in Item /\ SameCall(Cancelled(x, c), x)
           /\ Cancelled(x, c).phase = "queued" => x.phase = "queued" /\ x.caller # c
           /\ x.caller # c => Cancelled(x, c) = x
  BY DEF Cancelled, Item, SameCall

LEMMA RaiseKeeps ==
    ASSUME ToolAssumption, BInv, NEW c \in Caller, Raise(c) PROVE BInv'
<1>1. PICK h : h = Uses[c]
  OBVIOUS
<1>2. PICK q : q = queue[h]
  OBVIOUS
<1>3. PICK n : n = [i \in DOMAIN q |-> Cancelled(q[i], c)]
  OBVIOUS
<1>4. /\ h \in Registry /\ waiting[c]
      /\ waiting' = [waiting EXCEPT ![c] = FALSE] /\ got' = [got EXCEPT ![c] = <<>>]
      /\ queue' = [queue EXCEPT ![h] = n] /\ UNCHANGED <<batch, work, resolving>>
  BY <1>1, <1>2, <1>3 DEF Raise, ToolAssumption, resolverVars
<1>5. q \in Seq(Item) /\ \A i \in DOMAIN q : q[i] \in Item
  BY <1>2, <1>4 DEF BInv, BatchTyped
<1>6. DOMAIN n = DOMAIN q /\ \A i \in DOMAIN q : n[i] = Cancelled(q[i], c)
  BY <1>3
<1>7. \A i \in DOMAIN q :
         /\ n[i] \in Item /\ SameCall(n[i], q[i])
         /\ n[i].phase = "queued" => q[i].phase = "queued" /\ q[i].caller # c
         /\ q[i].caller # c => n[i] = q[i]
  BY <1>5, <1>6, CancelledIs
<1>8. n \in Seq(Item)
  <2>1. DOMAIN q = 1 .. Len(q) /\ Len(q) \in Nat
    BY <1>5
  <2>2. n \in [1 .. Len(q) -> Item]
    BY <1>3, <1>6, <1>7, <2>1
  <2> QED
    BY <2>1, <2>2
<1>9. /\ queue' \in [Registry -> Seq(Item)] /\ queue'[h] = n
      /\ \A r \in Registry : r # h => queue'[r] = queue[r]
      /\ waiting' \in [Caller -> BOOLEAN] /\ waiting'[c] = FALSE
      /\ \A d \in Caller : d # c => waiting'[d] = waiting[d]
      /\ got'[c] = <<>> /\ \A d \in Caller : d # c => got'[d] = got[d]
  BY <1>4, <1>8 DEF BInv, BatchTyped
<1>10. got' \in [Caller -> Seq([place : Nat, result : Result])]
  <2>1. <<>> \in Seq([place : Nat, result : Result])
    OBVIOUS
  <2> QED
    BY <1>4, <2>1 DEF BInv, BatchTyped
<1>11. BatchTyped'
  BY <1>4, <1>9, <1>10 DEF BInv, BatchTyped
<1>12. ASSUME NEW r \in Registry
       PROVE  /\ DOMAIN queue'[r] = DOMAIN queue[r]
              /\ \A i \in DOMAIN queue[r] :
                    /\ queue[r][i] \in Item /\ r = Uses[queue[r][i].caller]
                    /\ SameCall(queue'[r][i], queue[r][i])
                    /\ queue'[r][i].phase = "queued" => queue[r][i].phase = "queued" /\ queue[r][i].caller # c
                    /\ queue[r][i].caller # c => queue'[r][i] = queue[r][i]
  <2>1. queue[r] \in Seq(Item)
    BY DEF BInv, BatchTyped
  <2>2. \A i \in DOMAIN queue[r] : queue[r][i] \in Item /\ r = Uses[queue[r][i].caller]
    BY <2>1 DEF BInv, Kept
  <2>3. CASE r = h
    BY <1>2, <1>6, <1>7, <1>9, <2>2, <2>3
  <2>4. CASE r # h
    BY <1>1, <1>9, <2>2, <2>4 DEF SameCall
  <2> QED
    BY <2>3, <2>4
<1>13. ASSUME NEW r \in Registry, NEW i \in DOMAIN queue'[r]
       PROVE  /\ r = Uses[queue'[r][i].caller] /\ Placed(queue[r][i])'
              /\ queue'[r][i].phase = "queued" =>
                    waiting'[queue'[r][i].caller] /\ queue'[r][i].round = batch'[queue'[r][i].caller].round
  <2>1. PICK x : x = queue[r][i]
    OBVIOUS
  <2>2. PICK y : y = queue'[r][i]
    OBVIOUS
  <2>3. /\ x \in Item /\ r = Uses[x.caller] /\ SameCall(y, x) /\ i \in DOMAIN queue[r]
        /\ y.phase = "queued" => x.phase = "queued" /\ x.caller # c
    BY <1>12, <2>1, <2>2
  <2>4. /\ Placed(x) /\ x.caller \in Caller
        /\ x.phase = "queued" => waiting[x.caller] /\ x.round = batch[x.caller].round
    <3>1. Kept
      BY DEF BInv
    <3>2. /\ Placed(queue[r][i])
          /\ queue[r][i].phase = "queued" =>
                waiting[queue[r][i].caller] /\ queue[r][i].round = batch[queue[r][i].caller].round
      BY <2>3, <3>1 DEF Kept
    <3>3. x.caller \in Caller
      BY <2>3 DEF Item
    <3> QED
      BY <2>1, <3>2, <3>3
  <2>5. y.caller = x.caller /\ y.round = x.round /\ y.place = x.place
    BY <2>3 DEF SameCall
  <2>6. Placed(queue[r][i])'
    BY <1>4, <2>2, <2>4, <2>5 DEF Placed, Calls
  <2> QED
    BY <1>4, <1>9, <2>2, <2>3, <2>4, <2>5, <2>6
<1>14. \A t \in Thread : /\ work[t] # NoWork => Placed(work[t])'
                         /\ resolving[t].at # "idle" => work[t] # NoWork /\ work[t].phase = "resolving"
  BY <1>4 DEF BInv, Kept, Placed, Calls
<1>15. Kept'
  BY <1>4, <1>13, <1>14 DEF Kept
<1>16. Once'
  <2>1. ASSUME NEW r \in Registry, NEW i \in DOMAIN queue'[r], NEW j \in DOMAIN queue'[r],
               SameCall(queue'[r][i], queue'[r][j])
        PROVE  i = j
    <3>1. i \in DOMAIN queue[r] /\ j \in DOMAIN queue[r] /\ SameCall(queue[r][i], queue[r][j])
      BY <1>12, <2>1 DEF SameCall
    <3> QED
      BY <3>1 DEF BInv, Once
  <2>2. ASSUME NEW r \in Registry, NEW i \in DOMAIN queue'[r], NEW t \in Thread, work[t] # NoWork
        PROVE  ~SameCall(queue'[r][i], work[t])
    <3>1. i \in DOMAIN queue[r] /\ SameCall(queue'[r][i], queue[r][i])
      BY <1>12
    <3>2. ~SameCall(queue[r][i], work[t])
      BY <2>2, <3>1 DEF BInv, Once
    <3> QED
      BY <3>1, <3>2 DEF SameCall
  <2>3. \A t, u \in Thread : work[t] # NoWork /\ work[u] # NoWork /\ SameCall(work[t], work[u]) => t = u
    BY DEF BInv, Once
  <2> QED
    BY <1>4, <2>1, <2>2, <2>3 DEF Once, SameCall
<1>17. ASSUME NEW d \in Caller, d # c, NEW p PROVE Queued(d, p)' <=> Queued(d, p)
  <2>1. ASSUME NEW r \in Registry
        PROVE  (\E i \in DOMAIN queue'[r] : Mine(queue[r][i], d, p)' /\ queue'[r][i].phase = "queued")
               <=> \E i \in DOMAIN queue[r] : Mine(queue[r][i], d, p) /\ queue[r][i].phase = "queued"
    <3>1. DOMAIN queue'[r] = DOMAIN queue[r]
      BY <1>12
    <3>2. ASSUME NEW i \in DOMAIN queue[r]
          PROVE  Mine(queue[r][i], d, p)' /\ queue'[r][i].phase = "queued"
                 <=> Mine(queue[r][i], d, p) /\ queue[r][i].phase = "queued"
      <4>1. PICK x : x = queue[r][i]
        OBVIOUS
      <4>2. PICK y : y = queue'[r][i]
        OBVIOUS
      <4>3. SameCall(y, x) /\ (x.caller # c => y = x)
        BY <1>12, <4>1, <4>2
      <4>4. (y.caller = d /\ y.round = batch[d].round /\ y.place = p) /\ y.phase = "queued"
            <=> (x.caller = d /\ x.round = batch[d].round /\ x.place = p) /\ x.phase = "queued"
        BY <1>17, <4>3 DEF SameCall
      <4> QED
        BY <1>4, <4>1, <4>2, <4>4 DEF Mine
    <3> QED
      BY <3>1, <3>2
  <2> QED
    BY <2>1 DEF Queued
<1>18. \A d \in Caller : \A p : AtWork(d, p)' = AtWork(d, p)
  BY <1>4 DEF AtWork, Mine
<1>19. ASSUME NEW d \in Caller PROVE Collected(d)'
  <2>1. CASE d = c
    BY <1>9, <2>1 DEF Collected
  <2>2. CASE d # c
    BY <1>4, <1>9, <1>17, <1>18, <2>2 DEF BInv, Collected, Calls, Pending
  <2> QED
    BY <2>1, <2>2
<1> QED
  BY <1>11, <1>15, <1>16, <1>19 DEF BInv

LEMMA SeqIs ==
    ASSUME NEW S, NEW q \in Seq(S)
    PROVE  Len(q) \in Nat /\ DOMAIN q = 1 .. Len(q) /\ \A i \in 1 .. Len(q) : q[i] \in S
  OBVIOUS

\* What a batch consists of.
LEMMA BatchIs ==
    ASSUME ToolAssumption, NEW calls \in Batch
    PROVE  /\ Len(calls) \in Nat /\ DOMAIN calls = 1 .. Len(calls)
           /\ \A i \in 1 .. Len(calls) : calls[i] \in [name : Name, arguments : Arguments]
<1>1. calls \in Seq([name : Name, arguments : Arguments])
  BY DEF ToolAssumption
<1> QED
  BY <1>1, SeqIs

\* One sequence behind another.
LEMMA Behind ==
    ASSUME NEW S, NEW q \in Seq(S), NEW n \in Seq(S), NEW m, m = Len(q), NEW k, k = Len(n),
           NEW qq, qq = q \o n
    PROVE  /\ qq \in Seq(S) /\ m \in Nat /\ k \in Nat /\ DOMAIN q = 1 .. m /\ DOMAIN qq = 1 .. m + k
           /\ \A i \in 1 .. m + k : qq[i] = IF i <= m THEN q[i] ELSE n[i - m]
<1>1. /\ qq \in Seq(S) /\ Len(qq) = Len(q) + Len(n)
      /\ \A i \in 1 .. Len(q) + Len(n) : qq[i] = IF i <= Len(q) THEN q[i] ELSE n[i - Len(q)]
  BY ConcatProperties
<1>2. m \in Nat /\ k \in Nat /\ DOMAIN q = 1 .. m
  OBVIOUS
<1>3. DOMAIN qq = 1 .. Len(qq)
  BY <1>1
<1> QED
  BY <1>1, <1>2, <1>3

\* A new batch is queued behind what is there.
LEMMA ExecuteKeeps ==
    ASSUME ToolAssumption, BInv, NEW c \in Caller, Execute(c) PROVE BInv'
<1>1. PICK h : h = Uses[c]
  OBVIOUS
<1>2. PICK round : round = batch[c].round + 1
  OBVIOUS
<1>3. PICK calls \in Batch :
         /\ batch' = [batch EXCEPT ![c] = [round |-> round, futures |-> [i \in DOMAIN calls |-> Pending]]]
         /\ queue' = [queue EXCEPT ![h] = queue[h] \o
               [i \in DOMAIN calls |-> [caller |-> c, round |-> round, place |-> i,
                                        call |-> calls[i], phase |-> "queued"]]]
  BY <1>1, <1>2 DEF Execute
<1>4. /\ h \in Registry /\ ~waiting[c]
      /\ waiting' = [waiting EXCEPT ![c] = TRUE] /\ got' = [got EXCEPT ![c] = <<>>]
      /\ UNCHANGED <<work, resolving>>
  BY <1>1 DEF Execute, ToolAssumption, resolverVars
<1>6. PICK k : k = Len(calls)
  OBVIOUS
<1>7. k \in Nat /\ DOMAIN calls = 1 .. k /\ \A i \in 1 .. k : calls[i] \in [name : Name, arguments : Arguments]
  BY <1>6, BatchIs
<1>8. PICK n : n = [i \in 1 .. k |-> [caller |-> c, round |-> round, place |-> i,
                                      call |-> calls[i], phase |-> "queued"]]
  OBVIOUS
<1>9. PICK f : f = [i \in 1 .. k |-> Pending]
  OBVIOUS
<1>10. round \in Nat /\ round > batch[c].round /\ batch[c].round \in Nat
  BY <1>2 DEF BInv, BatchTyped
<1>11. ASSUME NEW i \in 1 .. k
       PROVE  /\ n[i] \in Item /\ n[i].caller = c /\ n[i].round = round
              /\ n[i].place = i /\ n[i].phase = "queued"
  BY <1>7, <1>8, <1>10 DEF Item
<1>12. n \in Seq(Item) /\ Len(n) = k
  <2>1. n \in [1 .. k -> Item]
    BY <1>8, <1>11
  <2> QED
    BY <1>7, <2>1
<1>13. f \in Seq(Future) /\ DOMAIN f = 1 .. k /\ \A i \in 1 .. k : f[i] = Pending
  <2>1. Pending \in Future
    BY DEF Pending, Future, Result
  <2>2. f \in [1 .. k -> Future] /\ DOMAIN f = 1 .. k /\ \A i \in 1 .. k : f[i] = Pending
    BY <1>9, <2>1
  <2>3. k \in Nat
    BY <1>7
  <2>4. f \in Seq(Future)
    BY <2>2, <2>3
  <2> QED
    BY <2>2, <2>4
<1>14. PICK q : q = queue[h]
  OBVIOUS
<1>15. PICK m : m = Len(q)
  OBVIOUS
<1>5. q \in Seq(Item)
  BY <1>4, <1>14 DEF BInv, BatchTyped
<1>17. PICK qq : qq = q \o n
  OBVIOUS
<1>18. /\ qq \in Seq(Item) /\ m \in Nat /\ k \in Nat /\ DOMAIN q = 1 .. m /\ DOMAIN qq = 1 .. m + k
       /\ \A i \in 1 .. m + k : qq[i] = IF i <= m THEN q[i] ELSE n[i - m]
  BY <1>5, <1>12, <1>15, <1>17, Behind
<1>20. ASSUME NEW i \in DOMAIN qq
       PROVE  \/ i \in DOMAIN q /\ qq[i] = q[i]
              \/ i - m \in 1 .. k /\ qq[i] = n[i - m] /\ i \in Nat
  BY <1>18
<1>21. ASSUME NEW i \in DOMAIN q PROVE i \in DOMAIN qq /\ qq[i] = q[i]
  BY <1>18
<1>22. ASSUME NEW i \in 1 .. k PROVE i + m \in DOMAIN qq /\ qq[i + m] = n[i]
  <2>1. i + m \in 1 .. m + k /\ ~(i + m <= m) /\ (i + m) - m = i
    BY <1>18
  <2> QED
    BY <1>18, <2>1
<1>23. queue' = [queue EXCEPT ![h] = qq] /\ batch' = [batch EXCEPT ![c] = [round |-> round, futures |-> f]]
  BY <1>3, <1>7, <1>8, <1>9, <1>14, <1>17
<1>24. /\ queue' \in [Registry -> Seq(Item)] /\ queue'[h] = qq
       /\ \A r \in Registry : r # h => queue'[r] = queue[r]
       /\ waiting' \in [Caller -> BOOLEAN] /\ waiting'[c] = TRUE
       /\ \A d \in Caller : d # c => waiting'[d] = waiting[d]
       /\ got'[c] = <<>> /\ \A d \in Caller : d # c => got'[d] = got[d]
  BY <1>4, <1>18, <1>23 DEF BInv, BatchTyped
<1>25. /\ batch' \in [Caller -> [round : Nat, futures : Seq(Future)]]
       /\ batch'[c].round = round /\ batch'[c].futures = f
       /\ \A d \in Caller : d # c => batch'[d] = batch[d]
  BY <1>10, <1>13, <1>23 DEF BInv, BatchTyped
<1>26. got' \in [Caller -> Seq([place : Nat, result : Result])]
  <2>1. <<>> \in Seq([place : Nat, result : Result])
    OBVIOUS
  <2> QED
    BY <1>4, <2>1 DEF BInv, BatchTyped
<1>27. BatchTyped'
  BY <1>4, <1>24, <1>25, <1>26 DEF BInv, BatchTyped
\* What was there is of earlier rounds.
<1>28. ASSUME NEW r \in Registry, NEW i \in DOMAIN queue[r], NEW x, x = queue[r][i]
       PROVE  /\ x \in Item /\ x.caller \in Caller /\ r = Uses[x.caller] /\ Placed(x)
              /\ x.phase = "queued" => waiting[x.caller] /\ x.caller # c /\ x.round = batch[x.caller].round
  <2>1. queue[r] \in Seq(Item)
    BY DEF BInv, BatchTyped
  <2>2. x \in Item
    BY <1>28, <2>1
  <2> QED
    BY <1>4, <1>28, <2>2 DEF BInv, Kept, Item
<1>29. ASSUME NEW x, x.caller \in Caller, x.round \in Nat, Placed(x)
       PROVE  /\ x.round <= batch'[x.caller].round
              /\ x.round = batch'[x.caller].round => x.place \in DOMAIN batch'[x.caller].futures
              /\ x.caller = c => x.round # round
  BY <1>10, <1>25, <1>29 DEF Placed, Calls
<1>30. ASSUME NEW t \in Thread, work[t] # NoWork, NEW x, x = work[t]
       PROVE  x.caller \in Caller /\ x.round \in Nat /\ Placed(x)
  <2>1. x \in Busy /\ Placed(x)
    BY <1>30 DEF BInv, BatchTyped, Kept
  <2> QED
    BY <2>1 DEF Busy
<1>31. ASSUME NEW r \in Registry, NEW i \in DOMAIN queue'[r], NEW x, x = queue'[r][i]
       PROVE  \/ i \in DOMAIN queue[r] /\ x = queue[r][i]
              \/ r = h /\ i - m \in 1 .. k /\ x = n[i - m] /\ i \in Nat
  <2>1. CASE r = h
    BY <1>14, <1>20, <1>24, <1>31, <2>1
  <2>2. CASE r # h
    BY <1>24, <1>31, <2>2
  <2> QED
    BY <2>1, <2>2
<1>32. ASSUME NEW r \in Registry, NEW i \in DOMAIN queue'[r]
       PROVE  /\ r = Uses[queue'[r][i].caller] /\ Placed(queue[r][i])'
              /\ queue'[r][i].phase = "queued" =>
                    waiting'[queue'[r][i].caller] /\ queue'[r][i].round = batch'[queue'[r][i].caller].round
  <2>1. PICK x : x = queue'[r][i]
    OBVIOUS
  <2>2. CASE i \in DOMAIN queue[r] /\ x = queue[r][i]
    <3>1. /\ x \in Item /\ x.caller \in Caller /\ r = Uses[x.caller] /\ Placed(x)
          /\ x.phase = "queued" => waiting[x.caller] /\ x.caller # c /\ x.round = batch[x.caller].round
      BY <1>28, <2>2
    <3>2. x.round \in Nat
      BY <3>1 DEF Item
    <3>3. /\ x.round <= batch'[x.caller].round
          /\ x.round = batch'[x.caller].round => x.place \in DOMAIN batch'[x.caller].futures
      BY <1>29, <3>1, <3>2
    <3>4. Placed(queue[r][i])'
      BY <2>1, <3>3 DEF Placed, Calls
    <3>5. x.phase = "queued" => waiting'[x.caller] /\ x.round = batch'[x.caller].round
      BY <1>24, <1>25, <3>1
    <3> QED
      BY <2>1, <3>1, <3>4, <3>5
  <2>3. CASE r = h /\ i - m \in 1 .. k /\ x = n[i - m]
    <3>1. x.caller = c /\ x.round = round /\ x.place \in 1 .. k
      BY <1>11, <2>3
    <3>2. Placed(queue[r][i])'
      <4>1. x.round <= batch'[x.caller].round /\ x.place \in DOMAIN batch'[x.caller].futures
        <5>1. round <= round
          BY <1>10
        <5>2. batch'[c].round = round /\ DOMAIN batch'[c].futures = 1 .. k
          BY <1>13, <1>25
        <5> QED
          BY <3>1, <5>1, <5>2
      <4> QED
        BY <2>1, <4>1 DEF Placed, Calls
    <3> QED
      BY <1>1, <1>24, <1>25, <2>1, <2>3, <3>1, <3>2
  <2> QED
    BY <1>31, <2>1, <2>2, <2>3
<1>33. ASSUME NEW t \in Thread
       PROVE  /\ work[t] # NoWork => Placed(work[t])'
              /\ resolving[t].at # "idle" => work[t] # NoWork /\ work[t].phase = "resolving"
  <2>1. ASSUME work[t] # NoWork PROVE Placed(work[t])'
    <3>1. PICK x : x = work[t]
      OBVIOUS
    <3>2. x.caller \in Caller /\ x.round \in Nat /\ Placed(x)
      BY <1>30, <2>1, <3>1
    <3>3. /\ x.round <= batch'[x.caller].round
          /\ x.round = batch'[x.caller].round => x.place \in DOMAIN batch'[x.caller].futures
      BY <1>29, <3>2
    <3> QED
      BY <1>4, <3>1, <3>3 DEF Placed, Calls
  <2> QED
    BY <2>1 DEF BInv, Kept
<1>34. Kept'
  BY <1>4, <1>32, <1>33 DEF Kept
<1>35. ASSUME NEW r \in Registry, NEW i \in DOMAIN queue'[r], NEW j \in DOMAIN queue'[r],
              SameCall(queue'[r][i], queue'[r][j])
       PROVE  i = j
  <2>1. PICK x : x = queue'[r][i]
    OBVIOUS
  <2>2. PICK y : y = queue'[r][j]
    OBVIOUS
  <2>3. x.caller = y.caller /\ x.round = y.round /\ x.place = y.place
    BY <1>35, <2>1, <2>2 DEF SameCall
  <2>4. ASSUME NEW l \in DOMAIN queue[r], NEW z, z = queue[r][l], z.caller = c PROVE z.round # round
    <3>1. z \in Item /\ z.caller \in Caller /\ Placed(z)
      BY <1>28, <2>4
    <3>2. z.round \in Nat
      BY <3>1 DEF Item
    <3> QED
      BY <1>29, <2>4, <3>1, <3>2
  <2>5. CASE i \in DOMAIN queue[r] /\ x = queue[r][i] /\ j \in DOMAIN queue[r] /\ y = queue[r][j]
    BY <2>3, <2>5 DEF BInv, Once, SameCall
  <2>6. CASE i \in DOMAIN queue[r] /\ x = queue[r][i] /\ j - m \in 1 .. k /\ y = n[j - m]
    BY <1>11, <2>3, <2>4, <2>6
  <2>7. CASE j \in DOMAIN queue[r] /\ y = queue[r][j] /\ i - m \in 1 .. k /\ x = n[i - m]
    BY <1>11, <2>3, <2>4, <2>7
  <2>8. CASE i - m \in 1 .. k /\ x = n[i - m] /\ j - m \in 1 .. k /\ y = n[j - m] /\ i \in Nat /\ j \in Nat
    <3>1. x.place = i - m /\ y.place = j - m
      BY <1>11, <2>8
    <3> QED
      BY <1>18, <2>3, <2>8, <3>1
  <2> QED
    BY <1>31, <2>1, <2>2, <2>5, <2>6, <2>7, <2>8
<1>36. ASSUME NEW r \in Registry, NEW i \in DOMAIN queue'[r], NEW t \in Thread, work[t] # NoWork
       PROVE  ~SameCall(queue'[r][i], work[t])
  <2>1. PICK x : x = queue'[r][i]
    OBVIOUS
  <2>2. PICK y : y = work[t]
    OBVIOUS
  <2>3. y.caller = c => y.round # round
    BY <1>29, <1>30, <1>36, <2>2
  <2>4. CASE i \in DOMAIN queue[r] /\ x = queue[r][i]
    BY <1>36, <2>1, <2>4 DEF BInv, Once, SameCall
  <2>5. CASE i - m \in 1 .. k /\ x = n[i - m]
    BY <1>11, <2>1, <2>2, <2>3, <2>5 DEF SameCall
  <2> QED
    BY <1>31, <2>1, <2>4, <2>5
<1>37. Once'
  <2>1. \A t, u \in Thread : work[t] # NoWork /\ work[u] # NoWork /\ SameCall(work[t], work[u]) => t = u
    BY DEF BInv, Once
  <2> QED
    BY <1>4, <1>35, <1>36, <2>1 DEF Once, SameCall
<1>38. ASSUME NEW p \in 1 .. k PROVE Queued(c, p)'
  <2>1. p + m \in DOMAIN queue'[h] /\ queue'[h][p + m] = n[p]
    BY <1>22, <1>24
  <2>2. PICK j : j = p + m
    OBVIOUS
  <2>3. /\ queue'[h][j].caller = c /\ queue'[h][j].round = batch'[c].round
        /\ queue'[h][j].place = p /\ queue'[h][j].phase = "queued"
    BY <1>11, <1>25, <2>1, <2>2
  <2> QED
    BY <1>4, <2>1, <2>2, <2>3 DEF Queued, Mine
<1>39. ASSUME NEW d \in Caller, d # c, NEW p PROVE Queued(d, p)' <=> Queued(d, p)
  <2>1. ASSUME NEW r \in Registry, NEW i \in DOMAIN queue'[r], Mine(queue[r][i], d, p)', queue'[r][i].phase = "queued"
        PROVE  Queued(d, p)
    <3>1. PICK x : x = queue'[r][i]
      OBVIOUS
    <3>2. x.caller = d /\ x.round = batch[d].round /\ x.place = p /\ x.phase = "queued"
      BY <1>25, <1>39, <2>1, <3>1 DEF Mine
    <3>3. i \in DOMAIN queue[r] /\ x = queue[r][i]
      BY <1>11, <1>31, <1>39, <3>1, <3>2
    <3> QED
      BY <3>2, <3>3 DEF Queued, Mine
  <2>2. ASSUME NEW r \in Registry, NEW i \in DOMAIN queue[r], Mine(queue[r][i], d, p), queue[r][i].phase = "queued"
        PROVE  Queued(d, p)'
    <3>1. i \in DOMAIN queue'[r] /\ queue'[r][i] = queue[r][i]
      <4>1. CASE r = h
        BY <1>14, <1>21, <1>24, <4>1
      <4>2. CASE r # h
        BY <1>24, <4>2
      <4> QED
        BY <4>1, <4>2
    <3> QED
      BY <1>25, <1>39, <2>2, <3>1 DEF Queued, Mine
  <2> QED
    BY <2>1, <2>2 DEF Queued
<1>40. ASSUME NEW d \in Caller, d # c, NEW p PROVE AtWork(d, p)' = AtWork(d, p)
  BY <1>4, <1>25, <1>40 DEF AtWork, Mine
<1>41. ASSUME NEW d \in Caller PROVE Collected(d)'
  <2>1. CASE d = c
    <3>1. Len(f) \in Nat /\ Len(<<>>) = 0
      BY <1>13
    <3>2. /\ \A p \in DOMAIN f : f[p] = Pending /\ Queued(c, p)'
          /\ Len(<<>>) <= Len(f) /\ 1 .. Len(<<>>) = {}
      BY <1>13, <1>38, <3>1
    <3>3. Pending' = Pending
      BY DEF Pending
    <3> QED
      BY <1>24, <1>25, <2>1, <3>2, <3>3 DEF Collected, Calls
  <2>2. CASE d # c
    <3>1. batch'[d] = batch[d] /\ waiting'[d] = waiting[d] /\ got'[d] = got[d]
      BY <1>24, <1>25, <2>2
    <3>2. \A p : Queued(d, p)' \/ AtWork(d, p)' <=> Queued(d, p) \/ AtWork(d, p)
      BY <1>39, <1>40, <2>2
    <3>3. Collected(d)
      BY DEF BInv
    <3>4. Pending' = Pending
      BY DEF Pending
    <3> QED
      BY <3>1, <3>2, <3>3, <3>4 DEF Collected, Calls
  <2> QED
    BY <2>1, <2>2
<1> QED
  BY <1>27, <1>34, <1>37, <1>41 DEF BInv
-----------------------------------------------------------------------------
TInv == RInv /\ BInv

LEMMA Begins ==
    ASSUME ToolAssumption, Init PROVE TInv
<1>1. RInv
  BY ResolverBegins
<1>2. /\ batch = [c \in Caller |-> [round |-> 0, futures |-> <<>>]] /\ got = [c \in Caller |-> <<>>]
      /\ waiting = [c \in Caller |-> FALSE]
      /\ queue = [r \in Registry |-> <<>>] /\ work = [t \in Thread |-> NoWork]
      /\ resolving = [t \in Thread |-> Idle]
  BY DEF Init, ResolverInit
<1>3. BatchTyped
  <2>1. <<>> \in Seq(Item) /\ <<>> \in Seq(Future) /\ <<>> \in Seq([place : Nat, result : Result])
    OBVIOUS
  <2> QED
    BY <1>2, <2>1 DEF BatchTyped
<1>4. Kept /\ Once
  BY <1>2 DEF Kept, Once, Idle
<1>5. \A c \in Caller : Collected(c)
  BY <1>2 DEF Collected
<1> QED
  BY <1>1, <1>3, <1>4, <1>5 DEF TInv, BInv

\* The resolver takes a step of its own.
LEMMA StepKeeps ==
    ASSUME TInv, NEW t \in Thread, ResolveStep(t), UNCHANGED <<loading, batchVars, budget>> PROVE TInv'
<1>1. RInv'
  BY ResolveStepKeeps DEF TInv
<1>2. \A u \in Thread : resolving'[u].at # "idle" => resolving[u].at # "idle"
  BY ResolveStepMoves DEF TInv
<1>3. BInv'
  BY <1>2, OthersKeep DEF TInv
<1> QED
  BY <1>1, <1>3 DEF TInv

LEMMA TakeKeeps ==
    ASSUME ToolAssumption, TInv, NEW t \in Thread, Take(t) PROVE TInv'
<1>1. PICK h : h = Home[t]
  OBVIOUS
<1>2. PICK x : x = Head(queue[h])
  OBVIOUS
<1>3. /\ h \in Registry /\ queue[h] # <<>> /\ x.phase = "queued" /\ work[t] = NoWork
      /\ queue' = [queue EXCEPT ![h] = Tail(queue[h])]
      /\ UNCHANGED <<tools, registry, aliases, cache, missed, changing, past, loading, got, waiting>>
  BY <1>1, <1>2 DEF Take, ToolAssumption
<1>4. x \in Item
  BY <1>2, <1>3, HeadGone DEF TInv, BInv
<1>5. x.call.name \in Name
  BY <1>4 DEF Item
<1>6. CASE End(x, "done", "invalid") /\ UNCHANGED <<work, resolving>>
  <2>1. RInv'
    BY <1>3, <1>6, RestKeeps DEF TInv, resolverVars
  <2>2. BInv'
    BY <1>2, <1>3, <1>6, TakeInvalidKeeps DEF TInv
  <2> QED
    BY <2>1, <2>2 DEF TInv
<1>7. ASSUME NEW phase \in {"running", "resolving"}, NEW y, y = [x EXCEPT !.phase = phase]
      PROVE  y \in Busy /\ SameCall(x, y) /\ y.phase = phase
  BY <1>4, <1>7 DEF Item, Busy, SameCall
<1>8. resolving[t].at = "idle"
  BY <1>3 DEF TInv, BInv, Kept
<1>9. CASE work' = [work EXCEPT ![t] = [x EXCEPT !.phase = "running"]] /\ UNCHANGED <<batch, resolving>>
  <2>1. RInv'
    BY <1>3, <1>9, RestKeeps DEF TInv, resolverVars
  <2>2. PICK y : y = [x EXCEPT !.phase = "running"]
    OBVIOUS
  <2>3. y \in Busy /\ SameCall(x, y) /\ y.phase = "running"
    BY <1>7, <2>2
  <2>4. work' = [work EXCEPT ![t] = y]
    BY <1>9, <2>2
  <2>5. BInv /\ UNCHANGED <<batch, got, waiting>>
    BY <1>3, <1>9 DEF TInv
  <2>6. /\ \A u \in Thread : u # t => resolving'[u].at = resolving[u].at
        /\ resolving'[t].at # "idle" => y.phase = "resolving"
    BY <1>8, <1>9
  <2>7. BInv'
    BY <1>2, <1>3, <2>3, <2>4, <2>5, <2>6, TakeBeginKeeps
  <2> QED
    BY <2>1, <2>7 DEF TInv
<1>10. CASE /\ work' = [work EXCEPT ![t] = [x EXCEPT !.phase = "resolving"]]
            /\ Resolve(t, x.call.name) /\ UNCHANGED batch
  <2>1. RInv'
    BY <1>3, <1>5, <1>10, ResolveKeeps DEF TInv
  <2>2. PICK y : y = [x EXCEPT !.phase = "resolving"]
    OBVIOUS
  <2>3. y \in Busy /\ SameCall(x, y) /\ y.phase = "resolving"
    BY <1>7, <2>2
  <2>4. work' = [work EXCEPT ![t] = y]
    BY <1>10, <2>2
  <2>5. BInv /\ UNCHANGED <<batch, got, waiting>>
    BY <1>3, <1>10 DEF TInv
  <2>6. \A u \in Thread : u # t => resolving'[u].at = resolving[u].at
    BY <1>10 DEF Resolve, TInv, RInv, Shape, IsState
  <2>7. BInv'
    BY <1>2, <1>3, <2>3, <2>4, <2>5, <2>6, TakeBeginKeeps
  <2> QED
    BY <2>1, <2>7 DEF TInv
<1> QED
  BY <1>1, <1>2, <1>6, <1>9, <1>10 DEF Take

LEMMA ResolvedStepKeeps ==
    ASSUME TInv, NEW t \in Thread, Resolved(t) PROVE TInv'
<1>1. /\ resolving' = [resolving EXCEPT ![t] = Idle] /\ resolving[t].at # "idle"
      /\ UNCHANGED <<tools, registry, aliases, cache, missed, changing, past, loading, got, waiting, queue>>
  BY DEF Resolved
<1>2. RInv'
  BY <1>1, ResolvedKeeps DEF TInv
<1>3. work[t] # NoWork
  BY <1>1 DEF TInv, BInv, Kept
<1>4. /\ \A u \in Thread : u # t => resolving'[u].at = resolving[u].at
      /\ resolving'[t].at = "idle"
  BY <1>1 DEF TInv, RInv, Shape, Idle
<1>5. CASE Leave(t, "failed", "resolver")
  <2>1. "failed" \in {"done", "failed"} /\ "resolver" \in Result
    BY DEF Result
  <2> QED
    BY <1>1, <1>2, <1>3, <1>4, <1>5, <2>1, LeaveKeeps DEF TInv
<1>6. CASE Leave(t, "done", "not found")
  <2>1. "done" \in {"done", "failed"} /\ "not found" \in Result
    BY DEF Result
  <2> QED
    BY <1>1, <1>2, <1>3, <1>4, <1>6, <2>1, LeaveKeeps DEF TInv
<1>7. CASE work' = [work EXCEPT ![t].phase = "running"] /\ UNCHANGED batch
  BY <1>1, <1>2, <1>3, <1>4, <1>7, BeginsToRunKeeps DEF TInv
<1> QED
  BY <1>5, <1>6, <1>7 DEF Resolved

LEMMA RunKeeps ==
    ASSUME TInv, NEW t \in Thread, Run(t) PROVE TInv'
<1>1. UNCHANGED <<resolverVars, loading, got, waiting, queue, resolving>> /\ work[t].phase = "running"
  BY DEF Run, resolverVars
<1>2. RInv'
  BY <1>1, RestKeeps DEF TInv
<1>3. work[t] # NoWork /\ resolving[t].at = "idle"
  BY <1>1 DEF TInv, BInv, Kept, NoWork
<1>4. /\ \A u \in Thread : u # t => resolving'[u].at = resolving[u].at
      /\ resolving'[t].at = "idle"
  BY <1>1, <1>3
<1>5. PICK s \in {"done", "failed"}, result \in Result : Leave(t, s, result)
  <2>1. {"answered", "missing", "arguments"} \subseteq Result
    BY DEF Result
  <2> QED
    BY <2>1 DEF Run
<1> QED
  BY <1>1, <1>2, <1>3, <1>4, <1>5, LeaveKeeps DEF TInv

\* A step that leaves the resolver alone, or one that leaves the batches alone.
LEMMA BatchStepKeeps ==
    ASSUME TInv, BInv', UNCHANGED <<resolverVars, loading>> PROVE TInv'
  BY RestKeeps DEF TInv

LEMMA ChangeKeeps ==
    ASSUME TInv, RInv', UNCHANGED <<resolving, batchVars>> PROVE TInv'
  BY OthersKeep DEF TInv

LEMMA NextKeeps ==
    ASSUME ToolAssumption, TInv, [Next]_vars PROVE TInv'
<1>1. CASE Serve
  <2>1. RInv' /\ UNCHANGED <<resolving, batchVars>>
    BY <1>1, ServeKeeps DEF Serve, TInv
  <2> QED
    BY <2>1, ChangeKeeps
<1>2. CASE Register
  <2>1. RInv' /\ UNCHANGED <<resolving, batchVars>>
    BY <1>2, RegisterKeeps DEF Register, TInv
  <2> QED
    BY <2>1, ChangeKeeps
<1>3. CASE Reconfigure
  <2>1. RInv' /\ UNCHANGED <<resolving, batchVars>>
    BY <1>3, ReconfigureKeeps DEF Reconfigure, SetRegistry, AddAlias, TInv
  <2> QED
    BY <2>1, ChangeKeeps
<1>4. CASE FinishChange
  <2>1. RInv' /\ UNCHANGED <<resolving, batchVars>>
    BY <1>4, FinishKeeps DEF FinishChange, ClearCache, TInv
  <2> QED
    BY <2>1, ChangeKeeps
<1>5. CASE FiveMinutes
  <2>1. RInv' /\ UNCHANGED <<resolving, batchVars>>
    BY <1>5, TickKeeps DEF FiveMinutes, Tick, TInv
  <2> QED
    BY <2>1, ChangeKeeps
<1>6. ASSUME NEW t \in Thread, Work(t) PROVE TInv'
  <2>1. CASE Skip(t)
    <3>1. BInv' /\ UNCHANGED <<resolverVars, loading>>
      BY <2>1, SkipKeeps DEF Skip, TInv
    <3> QED
      BY <3>1, BatchStepKeeps
  <2>2. CASE Take(t)
    BY <2>2, TakeKeeps
  <2>3. CASE Resolved(t)
    BY <2>3, ResolvedStepKeeps
  <2>4. CASE Run(t)
    BY <2>4, RunKeeps
  <2>5. CASE ResolveStep(t) /\ UNCHANGED <<loading, batchVars, budget>>
    BY <2>5, StepKeeps
  <2> QED
    BY <1>6, <2>1, <2>2, <2>3, <2>4, <2>5 DEF Work
<1>7. ASSUME NEW c \in Caller, Execute(c) \/ Collect(c) \/ Return(c) \/ Raise(c) PROVE TInv'
  <2>1. UNCHANGED <<resolverVars, loading>>
    BY <1>7 DEF Execute, Collect, Return, Raise
  <2>2. BInv'
    BY <1>7, ExecuteKeeps, CollectKeeps, ReturnKeeps, RaiseKeeps DEF TInv
  <2> QED
    BY <2>1, <2>2, BatchStepKeeps
<1>8. CASE UNCHANGED vars
  <2>1. UNCHANGED <<resolverVars, loading, batchVars, resolving>>
    BY <1>8 DEF vars, resolverVars
  <2>2. RInv'
    BY <2>1, RestKeeps DEF TInv
  <2> QED
    BY <2>1, <2>2, ChangeKeeps
<1> QED
  BY <1>1, <1>2, <1>3, <1>4, <1>5, <1>6, <1>7, <1>8 DEF Next

\* Whatever the threads, the registries and the changes: the invariant holds.
THEOREM ToolsInvariant == Spec => []TInv
<1>1. Init => TInv
  BY ToolAssumption, Begins
<1>2. TInv /\ [Next]_vars => TInv'
  BY ToolAssumption, NextKeeps
<1> QED
  BY <1>1, <1>2, PTL DEF Spec

\* Names are resolved as things are, or were since the cache was last cleared
\* (ToolResolver.resolve and its two caches, shared without a lock).
THEOREM ResolutionsAreCurrent == Spec => []ResolutionIsCurrent
<1>1. TInv => ResolutionIsCurrent
  <2> SUFFICES ASSUME TInv, NEW t \in Thread, resolving[t].at = "done"
               PROVE  LET n == resolving[t].name IN
                      \/ changing \/ past[n].raced
                      \/ resolving[t].result = NoName /\ past[n].lacked = "fresh"
                      \/ resolving[t].result # NoName /\ resolving[t].result \in past[n].right
    BY DEF ResolutionIsCurrent
  <2>1. PICK q : q = resolving[t]
    OBVIOUS
  <2>2. Found(q) /\ Lacking(q) /\ q.at = "done"
    BY <2>1 DEF TInv, RInv, Carries
  <2>3. \/ Overtaken(q.name)
        \/ q.result = NoName /\ past[q.name].lacked = "fresh"
        \/ q.result # NoName /\ q.result \in past[q.name].right
    BY <2>2 DEF Found, Lacking
  <2> QED
    BY <2>1, <2>3 DEF Overtaken
<1> QED
  BY <1>1, ToolsInvariant, PTL

\* resolve() raises only when other calls of the name or a change come in between,
\* or without a registry.
THEOREM ResolverRaisesOnlyShared == Spec => []RaisesOnlyWhenShared
<1>1. TInv => RaisesOnlyWhenShared
  <2> SUFFICES ASSUME TInv, NEW t \in Thread, resolving[t].at = "raised"
               PROVE  \/ resolving[t].met \/ past[resolving[t].name].raced
                      \/ changing \/ registry = NoRegistry
    BY DEF RaisesOnlyWhenShared
  <2>1. PICK q : q = resolving[t]
    OBVIOUS
  <2>2. Seen(q) /\ q.at = "raised"
    BY <2>1 DEF TInv, RInv, Carries
  <2> QED
    BY <2>1, <2>2 DEF Seen, Overtaken
<1> QED
  BY <1>1, ToolsInvariant, PTL

\* What is open of a caller's calls: queued, and not cancelled, or at work.
LEMMA OpenIs ==
    ASSUME BInv, NEW c \in Caller, NEW x
    PROVE  x \in Open(c) <=>
              /\ x.caller = c /\ x.phase # "cancelled"
              /\ \/ \E r \in Registry : \E i \in DOMAIN queue[r] : x = queue[r][i]
                 \/ \E t \in Thread : x = work[t] /\ x # NoWork
<1>1. x \in UNION {ToSet(queue[r]) : r \in Registry} <=> \E r \in Registry : \E i \in DOMAIN queue[r] : x = queue[r][i]
  BY DEF ToSet
<1>2. x \in {work[t] : t \in Thread} \ {NoWork} <=> \E t \in Thread : x = work[t] /\ x # NoWork
  OBVIOUS
<1> DEFINE A == {ToSet(queue[r]) : r \in Registry}
           B == {work[t] : t \in Thread} \ {NoWork}
<1>3. x \in UNION (A \cup {B}) <=> x \in UNION A \/ x \in B
  <2> HIDE DEF A, B
  <2> QED
    OBVIOUS
<1> QED
  BY <1>1, <1>2, <1>3 DEF Open

LEMMA OpenMeans ==
    ASSUME BInv, NEW c \in Caller, NEW x \in Open(c)
    PROVE  /\ x.caller = c
           /\ x.phase = "queued" => waiting[c] /\ x.round = batch[c].round
           /\ x.round = batch[c].round => x.place \in Calls(c) /\ (Queued(c, x.place) \/ AtWork(c, x.place))
<1>1. /\ x.caller = c /\ x.phase # "cancelled"
      /\ \/ \E r \in Registry : \E i \in DOMAIN queue[r] : x = queue[r][i]
         \/ \E t \in Thread : x = work[t] /\ x # NoWork
  BY OpenIs
<1>2. ASSUME NEW r \in Registry, NEW i \in DOMAIN queue[r], x = queue[r][i]
      PROVE  /\ x.phase = "queued" /\ Placed(x) /\ waiting[c] /\ x.round = batch[c].round
             /\ Queued(c, x.place)
  <2>1. queue[r] \in Seq(Item)
    BY DEF BInv, BatchTyped
  <2>2. x \in Item
    BY <1>2, <2>1
  <2>3. x.phase = "queued"
    BY <1>1, <2>2 DEF Item
  <2>4. Placed(x) /\ waiting[c] /\ x.round = batch[c].round
    BY <1>1, <1>2, <2>3 DEF BInv, Kept
  <2> QED
    BY <1>1, <1>2, <2>3, <2>4 DEF Queued, Mine
<1>3. ASSUME NEW t \in Thread, x = work[t], x # NoWork
      PROVE  x.phase # "queued" /\ Placed(x) /\ (x.round = batch[c].round => AtWork(c, x.place))
  <2>1. x \in Busy /\ Placed(x)
    BY <1>3 DEF BInv, BatchTyped, Kept
  <2>2. x.phase # "queued"
    BY <2>1 DEF Busy
  <2> QED
    BY <1>1, <1>3, <2>1, <2>2 DEF AtWork, Mine
<1>4. Placed(x)
  BY <1>1, <1>2, <1>3
<1>5. x.round = batch[c].round => x.place \in Calls(c)
  BY <1>1, <1>4 DEF Placed
<1> QED
  BY <1>1, <1>2, <1>3, <1>5

\* Nobody hangs, and what execute() returns is complete and in the calls' order
\* (ToolRegistry.execute on its thread pool).
THEOREM BatchesAnswered == Spec => []BatchAnsweredInOrder
<1>1. TInv => BatchAnsweredInOrder
  <2> SUFFICES ASSUME TInv, NEW c \in Caller
               PROVE  LET mine == {item \in Open(c) : item.round = batch[c].round} IN
                      /\ waiting[c] => {item.place : item \in mine} =
                                           {i \in Calls(c) : batch[c].futures[i] = Pending}
                      /\ \A item \in Open(c) : item.phase = "queued" => waiting[c] /\ item \in mine
                      /\ ~waiting[c] /\ got[c] # <<>> =>
                            /\ mine = {}
                            /\ got[c] = [i \in Calls(c) |-> [place |-> i, result |-> batch[c].futures[i].result]]
    BY DEF BatchAnsweredInOrder
  <2> DEFINE mine == {item \in Open(c) : item.round = batch[c].round}
  <2>1. BInv
    BY DEF TInv
  <2>2. \A x \in Open(c) :
           /\ x.phase = "queued" => waiting[c] /\ x.round = batch[c].round
           /\ x.round = batch[c].round => x.place \in Calls(c) /\ (Queued(c, x.place) \/ AtWork(c, x.place))
    BY <2>1, OpenMeans
  <2>3. ASSUME waiting[c]
        PROVE  {item.place : item \in mine} = {i \in Calls(c) : batch[c].futures[i] = Pending}
    <3>1. \A p \in Calls(c) : batch[c].futures[p] = Pending <=> Queued(c, p) \/ AtWork(c, p)
      BY <2>1, <2>3 DEF BInv, Collected
    <3>2. \A x \in mine : x.place \in Calls(c) /\ batch[c].futures[x.place] = Pending
      BY <2>2, <3>1
    <3>3. ASSUME NEW p \in Calls(c), batch[c].futures[p] = Pending
          PROVE  \E x \in mine : p = x.place
      <4>1. CASE Queued(c, p)
        <5>1. PICK r \in Registry : \E i \in DOMAIN queue[r] : Mine(queue[r][i], c, p) /\ queue[r][i].phase = "queued"
          BY <4>1 DEF Queued
        <5>2. PICK i \in DOMAIN queue[r] : Mine(queue[r][i], c, p) /\ queue[r][i].phase = "queued"
          BY <5>1
        <5>3. PICK x : x = queue[r][i]
          OBVIOUS
        <5>4. x.caller = c /\ x.round = batch[c].round /\ x.place = p /\ x.phase # "cancelled"
          BY <5>2, <5>3 DEF Mine
        <5>5. x \in Open(c)
          BY <2>1, <5>3, <5>4, OpenIs
        <5> QED
          BY <5>4, <5>5
      <4>2. CASE AtWork(c, p)
        <5>1. PICK t \in Thread : work[t] # NoWork /\ Mine(work[t], c, p)
          BY <4>2 DEF AtWork
        <5>2. PICK x : x = work[t]
          OBVIOUS
        <5>3. x.caller = c /\ x.round = batch[c].round /\ x.place = p /\ x # NoWork
          BY <5>1, <5>2 DEF Mine
        <5>4. x \in Busy
          BY <2>1, <5>2, <5>3 DEF BInv, BatchTyped
        <5>5. x.phase # "cancelled"
          BY <5>4 DEF Busy
        <5>6. x \in Open(c)
          BY <2>1, <5>2, <5>3, <5>5, OpenIs
        <5> QED
          BY <5>3, <5>6
      <4> QED
        BY <3>1, <3>3, <4>1, <4>2
    <3> HIDE DEF mine
    <3> QED
      BY <3>2, <3>3
  <2>4. \A item \in Open(c) : item.phase = "queued" => waiting[c] /\ item \in mine
    BY <2>2
  <2>5. ASSUME ~waiting[c], got[c] # <<>>
        PROVE  /\ mine = {}
               /\ got[c] = [i \in Calls(c) |-> [place |-> i, result |-> batch[c].futures[i].result]]
    <3>1. PICK f : f = batch[c].futures
      OBVIOUS
    <3>2. PICK g : g = got[c]
      OBVIOUS
    <3>3. /\ Len(g) = Len(f)
          /\ \A i \in 1 .. Len(g) : g[i] = [place |-> i, result |-> f[i].result]
      BY <2>1, <2>5, <3>1, <3>2 DEF BInv, Collected
    <3>4. f \in Seq(Future) /\ g \in Seq([place : Nat, result : Result])
      BY <2>1, <3>1, <3>2 DEF BInv, BatchTyped
    <3>5. DOMAIN f = 1 .. Len(f) /\ Len(f) \in Nat /\ DOMAIN g = 1 .. Len(g)
      BY <3>4
    <3>6. g = [i \in 1 .. Len(g) |-> g[i]]
      BY <3>4
    <3>7. g = [i \in DOMAIN f |-> [place |-> i, result |-> f[i].result]]
      BY <3>3, <3>5, <3>6
    <3>8. Len(got[c]) >= Len(batch[c].futures)
      BY <3>1, <3>2, <3>3, <3>5
    <3>9. \A p \in Calls(c) : ~Queued(c, p) /\ ~AtWork(c, p)
      BY <2>1, <2>5, <3>8, AllThere
    <3>10. mine = {}
      BY <2>2, <3>9
    <3> QED
      BY <3>1, <3>2, <3>7, <3>10 DEF Calls
  <2> QED
    BY <2>3, <2>4, <2>5
<1> QED
  BY <1>1, ToolsInvariant, PTL

-----------------------------------------------------------------------------
\* A set of numbers that is not empty has a least one: what stands for
\* induction over the entries of a configuration.
LEMMA Least ==
    ASSUME NEW T \in SUBSET Nat, T # {}
    PROVE  \E x \in T : \A y \in T : x <= y
<1>1. IsWellFoundedOn(OpToRel(<, Nat), Nat)
  BY NatLessThanWellFounded
<1>2. PICK x \in T : \A y \in T : <<y, x>> \notin OpToRel(<, Nat)
  BY <1>1, WFMin
<1>3. ASSUME NEW y \in T PROVE x <= y
  <2>1. <<y, x>> \in Nat \X Nat
    OBVIOUS
  <2>2. ~ (y < x)
    BY <2>1, <1>2 DEF OpToRel
  <2> QED
    BY <2>2
<1> QED
  BY <1>3

LEMMA Reaches ==
    ASSUME NEW T \in SUBSET Nat, NEW n \in Nat, 0 \in T, \A i \in T : i < n => i + 1 \in T
    PROVE  0..n \subseteq T
<1> SUFFICES ASSUME NEW k \in 0..n, k \notin T PROVE FALSE
  OBVIOUS
<1> DEFINE Out == {i \in 0..n : i \notin T}
<1>1. Out \in SUBSET Nat /\ Out # {}
  OBVIOUS
<1>2. PICK x \in Out : \A y \in Out : x <= y
  <2> HIDE DEF Out
  <2> QED
    BY <1>1, Least
<1>3. x # 0 /\ x \in 0..n /\ x - 1 \in 0..n /\ x - 1 < n
  BY <1>2
<1>4. x - 1 \in T
  BY <1>2, <1>3
<1> QED
  BY <1>2, <1>3, <1>4

\* What is loaded after each of the first n entries of a configuration.
IsAfter(after, config, inside, asked, n) ==
    /\ after = [i \in 0..n |-> after[i]] /\ after[0] = NothingYet
    /\ \A i \in 1..n : after[i] = Add(after[i - 1], config[i], inside, asked)

LEMMA AfterExists ==
    ASSUME NEW config, NEW inside, NEW asked, NEW n \in Nat
    PROVE  \E f : IsAfter(f, config, inside, asked, n)
<1> DEFINE T == {k \in Nat : \E f : IsAfter(f, config, inside, asked, k)}
<1>1. 0 \in T
  <2> DEFINE f == [i \in 0..0 |-> NothingYet]
  <2>1. IsAfter(f, config, inside, asked, 0)
    BY DEF IsAfter
  <2> QED
    BY <2>1
<1>2. ASSUME NEW k \in T PROVE k + 1 \in T
  <2>1. PICK g : IsAfter(g, config, inside, asked, k)
    OBVIOUS
  <2> DEFINE f == [i \in 0..k + 1 |-> IF i <= k THEN g[i]
                                      ELSE Add(g[k], config[k + 1], inside, asked)]
  <2>2. f = [i \in 0..k + 1 |-> f[i]] /\ f[0] = NothingYet
    BY <2>1 DEF IsAfter
  <2>3. ASSUME NEW i \in 1..k + 1 PROVE f[i] = Add(f[i - 1], config[i], inside, asked)
    <3>1. i \in 0..k + 1 /\ i - 1 \in 0..k + 1 /\ i - 1 <= k /\ f[i - 1] = g[i - 1]
      OBVIOUS
    <3>2. CASE i <= k
      <4>1. i \in 1..k /\ f[i] = g[i]
        BY <3>1, <3>2
      <4>2. g[i] = Add(g[i - 1], config[i], inside, asked)
        BY <2>1, <4>1 DEF IsAfter
      <4> QED
        BY <3>1, <4>1, <4>2
    <3>3. CASE i = k + 1
      <4>1. f[i] = Add(g[k], config[k + 1], inside, asked) /\ i - 1 = k
        BY <3>3
      <4> QED
        BY <3>1, <3>3, <4>1
    <3> QED
      BY <3>1, <3>2, <3>3
  <2>4. IsAfter(f, config, inside, asked, k + 1)
    <3> HIDE DEF f
    <3> QED
      BY <2>2, <2>3 DEF IsAfter
  <2> QED
    BY <2>4
<1>3. 0..n \subseteq T
  <2>1. T \in SUBSET Nat
    OBVIOUS
  <2> HIDE DEF T
  <2> QED
    BY <1>1, <1>2, <2>1, Reaches
<1> QED
  BY <1>3

LEMMA LoadIs ==
    ASSUME NEW config, NEW inside, NEW asked, Len(config) \in Nat
    PROVE  \E f : /\ IsAfter(f, config, inside, asked, Len(config))
                  /\ load_tools_from_config(config, inside, asked) = f[Len(config)]
<1>1. PICK g : IsAfter(g, config, inside, asked, Len(config))
  BY AfterExists
<1> DEFINE step(f) == [i \in 0..Len(config) |->
              IF i = 0 THEN NothingYet ELSE Add(f[i - 1], config[i], inside, asked)]
           u == CHOOSE f : f = step(f)
<1>2. g = step(g)
  BY <1>1 DEF IsAfter
<1>3. u = step(u)
  <2> HIDE DEF step
  <2> QED
    BY <1>2
<1>4. load_tools_from_config(config, inside, asked) = u[Len(config)]
  BY DEF load_tools_from_config
<1>5. ASSUME NEW f, f = step(f) PROVE IsAfter(f, config, inside, asked, Len(config))
  <2>1. f = [i \in 0..Len(config) |-> f[i]]
    BY <1>5
  <2>2. \A i \in 0..Len(config) : f[i] = IF i = 0 THEN NothingYet
                                         ELSE Add(f[i - 1], config[i], inside, asked)
    BY <1>5
  <2> HIDE DEF step
  <2>3. f[0] = NothingYet
    BY <2>2
  <2>4. ASSUME NEW i \in 1..Len(config) PROVE f[i] = Add(f[i - 1], config[i], inside, asked)
    <3>1. i \in 0..Len(config) /\ i # 0
      OBVIOUS
    <3> QED
      BY <2>2, <3>1
  <2> QED
    BY <2>1, <2>3, <2>4 DEF IsAfter
<1> HIDE DEF u, step
<1> QED
  BY <1>3, <1>4, <1>5

\* An entry that makes a tool that fits, or one that does not and was asked for.
Fit(e, inside) == Loads(e) /\ ~Unfit(Impl(e), inside)
Bad(e, inside, asked) == Loads(e) /\ Unfit(Impl(e), inside) /\ e.key \in asked

\* Of each name the first tool that fits, or an exception.
Loaded(l, config, inside, asked, n) ==
    /\ l = [raised |-> l.raised, tools |-> l.tools]
    /\ l.raised <=> \E i \in 1..n : Bad(config[i], inside, asked)
    /\ ~l.raised =>
          /\ \A t \in l.tools : \E i \in 1..n : Fit(config[i], inside) /\ t = Impl(config[i])
          /\ \A i \in 1..n : Fit(config[i], inside) => Impl(config[i]).name \in Named(l.tools)
          /\ \A i \in 1..n :
                /\ Fit(config[i], inside)
                /\ \A j \in 1..i - 1 : Fit(config[j], inside) => Impl(config[j]).name # Impl(config[i]).name
                => Impl(config[i]) \in l.tools
          /\ \A s, t \in l.tools : s.name = t.name => s = t

LEMMA OneEntryMore ==
    ASSUME NEW config, NEW inside, NEW asked, NEW n \in Nat,
           NEW l, Loaded(l, config, inside, asked, n)
    PROVE  Loaded(Add(l, config[n + 1], inside, asked), config, inside, asked, n + 1)
<1> DEFINE e == config[n + 1]
           k == Add(l, e, inside, asked)
<1>1. \A i \in 1..n + 1 : i \in 1..n \/ i = n + 1
  OBVIOUS
<1>2. 1..n \subseteq 1..n + 1 /\ n + 1 \in 1..n + 1 /\ (n + 1) - 1 = n
  OBVIOUS
<1>3. CASE l.raised
  <2>1. k = l
    BY <1>3 DEF Add
  <2> QED
    BY <1>2, <1>3, <2>1 DEF Loaded
<1>4. CASE ~l.raised /\ ~Loads(e)
  <2>1. k = l
    BY <1>4 DEF Add
  <2>2. ~Fit(e, inside) /\ ~Bad(e, inside, asked)
    BY <1>4 DEF Fit, Bad
  <2> HIDE DEF k
  <2> QED
    BY <1>1, <1>2, <1>4, <2>1, <2>2 DEF Loaded, k
<1>5. CASE ~l.raised /\ Loads(e) /\ Unfit(Impl(e), inside)
  <2>1. k = [l EXCEPT !.raised = e.key \in asked]
    BY <1>5 DEF Add
  <2>2. l = [raised |-> l.raised, tools |-> l.tools]
    BY DEF Loaded
  <2>3. k = [raised |-> k.raised, tools |-> k.tools] /\ k.tools = l.tools
        /\ k.raised = (e.key \in asked)
    BY <2>1, <2>2
  <2>4. ~Fit(e, inside) /\ (Bad(e, inside, asked) <=> e.key \in asked)
    BY <1>5 DEF Fit, Bad
  <2> HIDE DEF k, e
  <2>5. k.raised <=> \E i \in 1..n + 1 : Bad(config[i], inside, asked)
    BY <1>1, <1>2, <1>5, <2>3, <2>4 DEF Loaded, e
  <2> QED
    BY <1>1, <1>2, <1>5, <2>3, <2>4, <2>5 DEF Loaded, e, k
<1>6. CASE ~l.raised /\ Fit(e, inside)
  <2>1. k = IF Impl(e).name \in Named(l.tools) THEN l ELSE [l EXCEPT !.tools = l.tools \cup {Impl(e)}]
    BY <1>6 DEF Add, Fit
  <2>2. l = [raised |-> l.raised, tools |-> l.tools]
    BY DEF Loaded
  <2>3. /\ k = [raised |-> k.raised, tools |-> k.tools] /\ k.raised = l.raised
        /\ k.tools = IF Impl(e).name \in Named(l.tools) THEN l.tools ELSE l.tools \cup {Impl(e)}
    BY <2>1, <2>2
  <2>4. ~Bad(e, inside, asked)
    BY <1>6 DEF Fit, Bad
  <2> HIDE DEF k
  <2>5. ~k.raised /\ ~\E i \in 1..n + 1 : Bad(config[i], inside, asked)
    BY <1>1, <1>6, <2>3, <2>4 DEF Loaded
  <2>6. \A t \in k.tools : \E i \in 1..n + 1 : Fit(config[i], inside) /\ t = Impl(config[i])
    BY <1>2, <1>6, <2>3 DEF Loaded
  <2>7. \A i \in 1..n + 1 : Fit(config[i], inside) => Impl(config[i]).name \in Named(k.tools)
    BY <1>1, <1>6, <2>3 DEF Loaded, Named
  <2>8. ASSUME NEW i \in 1..n + 1, Fit(config[i], inside),
               \A j \in 1..i - 1 : Fit(config[j], inside) => Impl(config[j]).name # Impl(config[i]).name
        PROVE  Impl(config[i]) \in k.tools
    <3>1. CASE i \in 1..n
      BY <1>6, <2>3, <2>8, <3>1 DEF Loaded
    <3>2. CASE i = n + 1
      <4>1. ASSUME NEW t \in l.tools PROVE t.name # Impl(e).name
        <5>1. PICK j \in 1..n : Fit(config[j], inside) /\ t = Impl(config[j])
          BY <1>6 DEF Loaded
        <5> QED
          BY <1>2, <2>8, <3>2, <5>1
      <4>2. Impl(e).name \notin Named(l.tools)
        BY <4>1 DEF Named
      <4> QED
        BY <2>3, <3>2, <4>2
    <3> QED
      BY <1>1, <3>1, <3>2
  <2>9. \A s, t \in k.tools : s.name = t.name => s = t
    BY <1>6, <2>3 DEF Loaded, Named
  <2> HIDE DEF e
  <2>10. Loaded(k, config, inside, asked, n + 1)
    BY <2>3, <2>5, <2>6, <2>7, <2>8, <2>9 DEF Loaded
  <2> QED
    BY <2>10 DEF k, e
<1> QED
  BY <1>3, <1>4, <1>5, <1>6 DEF Fit

LEMMA AllLoaded ==
    ASSUME NEW config, NEW inside, NEW asked, Len(config) \in Nat
    PROVE  Loaded(load_tools_from_config(config, inside, asked), config, inside, asked, Len(config))
<1>1. PICK f : /\ IsAfter(f, config, inside, asked, Len(config))
               /\ load_tools_from_config(config, inside, asked) = f[Len(config)]
  BY LoadIs
<1> DEFINE T == {i \in Nat : i <= Len(config) => Loaded(f[i], config, inside, asked, i)}
<1>2. 0 \in T
  <2>1. f[0] = [raised |-> FALSE, tools |-> {}]
    BY <1>1 DEF IsAfter, NothingYet
  <2>2. Loaded(f[0], config, inside, asked, 0)
    BY <2>1 DEF Loaded
  <2> QED
    BY <2>2
<1>3. ASSUME NEW i \in T, i < Len(config) PROVE i + 1 \in T
  <2>1. i + 1 \in 1..Len(config) /\ (i + 1) - 1 = i /\ Loaded(f[i], config, inside, asked, i) /\ i \in Nat
    BY <1>3
  <2>2. f[i + 1] = Add(f[i], config[i + 1], inside, asked)
    BY <1>1, <2>1 DEF IsAfter
  <2>3. Loaded(f[i + 1], config, inside, asked, i + 1)
    BY <2>1, <2>2, OneEntryMore
  <2> QED
    BY <2>1, <2>3
<1>4. 0..Len(config) \subseteq T
  <2>1. T \in SUBSET Nat
    OBVIOUS
  <2> HIDE DEF T
  <2> QED
    BY <1>2, <1>3, <2>1, Reaches
<1> QED
  BY <1>1, <1>4

LEMMA Defaults ==
    /\ default_all_tools \in Seq(ToSet(default_all_tools))
    /\ Len(default_all_tools) \in Nat /\ DOMAIN default_all_tools = 1..Len(default_all_tools)
<1> DEFINE S == {"read_file", "write_file", "patch_file", "code_search", "find_files", "web_search",
                 "sec_search", "sec_fetch", "execute_terminal", "execute_python", "git_status",
                 "git_diff", "git_log", "research_execute", "todo"}
           keys == default_file_tools \o default_search_tools \o default_exec_tools
                   \o default_git_tools \o default_research_tools \o <<"todo">>
<1>1. /\ default_file_tools \in Seq(S) /\ default_exec_tools \in Seq(S)
      /\ default_research_tools \in Seq(S) /\ <<"todo">> \in Seq(S)
  BY DEF default_file_tools, default_exec_tools, default_research_tools
<1>2. default_search_tools \in Seq(S)
  BY DEF default_search_tools
<1>3. default_git_tools \in Seq(S)
  BY DEF default_git_tools
<1> HIDE DEF S
<1>4. keys \in Seq(S)
  BY <1>1, <1>2, <1>3, ConcatProperties
<1>5. default_all_tools = [i \in DOMAIN keys |-> [key |-> keys[i], spec |-> keys[i]]]
  BY DEF default_all_tools
<1> HIDE DEF keys
<1>6. DOMAIN keys = 1..Len(keys) /\ Len(keys) \in Nat
  BY <1>4
<1>7. default_all_tools = [i \in 1..Len(keys) |-> default_all_tools[i]]
  BY <1>5, <1>6
<1>8. \A i \in 1..Len(keys) : default_all_tools[i] \in ToSet(default_all_tools)
  BY <1>5, <1>6 DEF ToSet
<1> QED
  BY <1>6, <1>7, <1>8

\* The places of a configuration: an override stands where the default of its
\* key does, and the selected defaults' keys come before the others.
LEMMA ConfigIs ==
    ASSUME NEW ask, IsMapping(ask.overrides)
    PROVE  /\ Len(Config(ask)) \in Nat
           /\ \A i \in 1..Len(Config(ask)) :
                 Config(ask)[i] = Absent \/ Config(ask)[i] \in Wanted(ask)
           /\ \A e \in Wanted(ask) : \E i \in 1..Len(Config(ask)) :
                 Config(ask)[i] = e /\ (e.key \in Selected(ask) => i <= Len(default_all_tools))
           /\ \A i \in 1..Len(Config(ask)) : i <= Len(default_all_tools) =>
                 Config(ask)[i] = Absent \/ Config(ask)[i].key \in Selected(ask)
<1> DEFINE d == default_all_tools
           o == ask.overrides
           For(key) == {x \in ToSet(o) : x.key = key}
           Entry(e) == IF e.key \notin Selected(ask) THEN Absent
                       ELSE IF For(e.key) = {} THEN e ELSE CHOOSE x \in For(e.key) : TRUE
           New(e) == IF e.key \in Selected(ask) THEN Absent ELSE e
           a == [i \in DOMAIN d |-> Entry(d[i])]
           b == [i \in DOMAIN o |-> New(o[i])]
           W == Wanted(ask) \cup {Absent}
<1>1. Config(ask) = a \o b
  BY DEF Config
<1>2. DOMAIN d = 1..Len(d) /\ Len(d) \in Nat /\ \A i \in DOMAIN d : d[i].key \in Keys(d)
  BY Defaults DEF Keys, ToSet
<1>3. DOMAIN o = 1..Len(o) /\ Len(o) \in Nat
  BY DEF IsMapping
<1>4. \A i, j \in DOMAIN o : o[i].key = o[j].key => i = j
  BY DEF IsMapping
<1>5. \A key : For(key) # {} => (CHOOSE x \in For(key) : TRUE) \in For(key)
  OBVIOUS
<1>6. \A x \in ToSet(o) : For(x.key) = {x}
  BY <1>4 DEF ToSet
<1> HIDE DEF For
<1>7. ASSUME NEW i \in DOMAIN d
      PROVE  Entry(d[i]) \in W /\ (Entry(d[i]) = Absent \/ Entry(d[i]).key \in Selected(ask))
  <2>1. CASE d[i].key \notin Selected(ask)
    BY <2>1
  <2>2. CASE d[i].key \in Selected(ask) /\ For(d[i].key) = {}
    <3>1. Entry(d[i]) = d[i]
      BY <2>2
    <3>2. d[i] \in Wanted(ask)
      BY <2>2 DEF Wanted, ToSet, Selected, Keys, For
    <3> QED
      BY <2>2, <3>1, <3>2
  <2>3. CASE d[i].key \in Selected(ask) /\ For(d[i].key) # {}
    <3>1. Entry(d[i]) \in For(d[i].key)
      BY <1>5, <2>3
    <3> HIDE DEF Entry
    <3>2. Entry(d[i]) \in ToSet(o) /\ Entry(d[i]).key = d[i].key
      BY <3>1 DEF For
    <3> QED
      BY <2>3, <3>2 DEF Wanted
  <2> QED
    BY <2>1, <2>2, <2>3
<1>8. \A i \in DOMAIN o : New(o[i]) \in W
  BY DEF Wanted, ToSet
<1>9. a \in Seq(W) /\ Len(a) = Len(d) /\ b \in Seq(W) /\ Len(b) = Len(o)
  <2> HIDE DEF Entry, New, W, d, o
  <2>1. a \in [1..Len(d) -> W] /\ b \in [1..Len(o) -> W]
    BY <1>2, <1>3, <1>7, <1>8
  <2> QED
    BY <1>2, <1>3, <2>1
<1>10. \A i \in 1..Len(d) : a[i] = Entry(d[i])
  BY <1>2
<1>11. \A i \in 1..Len(o) : b[i] = New(o[i])
  BY <1>3
<1> DEFINE c == Config(ask)
<1>12. /\ c \in Seq(W) /\ Len(c) = Len(d) + Len(o)
       /\ \A i \in 1..Len(d) : c[i] = a[i]
       /\ \A i \in 1..Len(o) : Len(d) + i \in 1..Len(c) /\ c[Len(d) + i] = b[i]
  <2> HIDE DEF a, b, W, d, o
  <2>1. /\ c \in Seq(W) /\ Len(c) = Len(d) + Len(o)
        /\ \A i \in 1..Len(d) + Len(o) : c[i] = IF i <= Len(d) THEN a[i] ELSE b[i - Len(d)]
    <3>1. /\ a \o b \in Seq(W) /\ Len(a \o b) = Len(a) + Len(b)
          /\ \A i \in 1..Len(a) + Len(b) : (a \o b)[i] = IF i <= Len(a) THEN a[i] ELSE b[i - Len(a)]
      BY <1>9, ConcatProperties
    <3> QED
      BY <1>1, <1>9, <3>1
  <2>2. \A i \in 1..Len(d) : i \in 1..Len(d) + Len(o) /\ i <= Len(d)
    BY <1>2, <1>3
  <2>3. \A i \in 1..Len(o) : Len(d) + i \in 1..Len(d) + Len(o) /\ ~(Len(d) + i <= Len(d))
                             /\ (Len(d) + i) - Len(d) = i
    BY <1>2, <1>3
  <2> QED
    BY <2>1, <2>2, <2>3
<1> HIDE DEF a, b, c
<1>13. ASSUME NEW e \in Wanted(ask)
       PROVE  \E i \in 1..Len(c) : c[i] = e /\ (e.key \in Selected(ask) => i <= Len(d))
  <2>0. 1..Len(d) \subseteq 1..Len(c)
    <3> HIDE DEF d, o
    <3> QED
      BY <1>2, <1>3, <1>12
  <2>1. CASE e \in ToSet(o) /\ e.key \in Selected(ask)
    <3>1. PICK i \in DOMAIN d : d[i].key = e.key
      BY <2>1 DEF Selected, Keys, ToSet
    <3>2. For(e.key) = {e}
      BY <1>6, <2>1
    <3>3. Entry(d[i]) = e
      BY <2>1, <3>1, <3>2
    <3> HIDE DEF d, o, Entry
    <3>4. c[i] = e /\ i \in 1..Len(d)
      BY <1>2, <1>10, <1>12, <3>1, <3>3
    <3>5. i \in 1..Len(c) /\ i <= Len(d)
      BY <1>2, <2>0, <3>4
    <3> QED
      BY <3>4, <3>5
  <2>2. CASE e \in ToSet(o) /\ e.key \notin Selected(ask)
    <3>1. PICK i \in DOMAIN o : o[i] = e
      BY <2>2 DEF ToSet
    <3>2. New(o[i]) = e
      BY <2>2, <3>1
    <3> HIDE DEF d, o, New
    <3> QED
      BY <1>3, <1>11, <1>12, <2>2, <3>1, <3>2
  <2>3. CASE e \notin ToSet(o)
    <3>1. e \in ToSet(d) /\ (ask.all \/ e.key \in ask.names) /\ e.key \notin Keys(o)
      BY <2>3 DEF Wanted
    <3>2. PICK i \in DOMAIN d : d[i] = e
      BY <3>1 DEF ToSet
    <3>3. e.key \in Selected(ask)
      BY <3>1 DEF Selected, Keys
    <3>4. For(e.key) = {}
      BY <3>1 DEF For, Keys
    <3>5. Entry(d[i]) = e
      BY <3>2, <3>3, <3>4
    <3> HIDE DEF d, o, Entry
    <3>6. c[i] = e /\ i \in 1..Len(d)
      BY <1>2, <1>10, <1>12, <3>2, <3>5
    <3>7. i \in 1..Len(c) /\ i <= Len(d)
      BY <1>2, <2>0, <3>6
    <3> QED
      BY <3>6, <3>7
  <2> QED
    BY <2>1, <2>2, <2>3
<1>14. ASSUME NEW i \in 1..Len(c), i <= Len(d) PROVE c[i] = Absent \/ c[i].key \in Selected(ask)
  <2> HIDE DEF d, o, Entry
  <2>1. i \in 1..Len(d) /\ c[i] = Entry(d[i])
    BY <1>2, <1>10, <1>12, <1>14
  <2> QED
    BY <1>2, <1>7, <2>1
<1>15. Len(c) \in Nat /\ \A i \in 1..Len(c) : c[i] = Absent \/ c[i] \in Wanted(ask)
  <2>1. c \in Seq(W)
    BY <1>12
  <2> HIDE DEF W, d, o
  <2>2. Len(c) \in Nat /\ \A i \in 1..Len(c) : c[i] \in W
    BY <2>1
  <2> QED
    BY <2>2 DEF W
<1> QED
  BY <1>13, <1>14, <1>15 DEF c

\* What is loaded is what was asked for.
LEMMA LoadedRightly ==
    ASSUME NEW ask, IsMapping(ask.overrides)
    PROVE  RightlyLoaded(ask, Load(ask))
<1> DEFINE l == Load(ask)
           c == Config(ask)
           inside == ask.sandbox
           asked == Asked(ask)
           W == Wanted(ask)
           D == Len(default_all_tools)
           loads == {e \in Wanted(ask) : Loads(e)}
           fit == {e \in loads : ~Unfit(Impl(e), ask.sandbox)}
           explicit == IF ask.lenient THEN {} ELSE Keys(ask.overrides) \cup (IF ask.all THEN {} ELSE ask.names)
<1>1. explicit = asked
  BY DEF Asked
<1>2. ~Loads(Absent)
  BY LoaderAssumption DEF Loads, Absent
<1>3. Loaded(l, c, inside, asked, Len(c))
  BY ConfigIs, AllLoaded DEF Load
<1>4. /\ Len(c) \in Nat /\ \A i \in 1..Len(c) : c[i] = Absent \/ c[i] \in W
      /\ \A e \in W : \E i \in 1..Len(c) : c[i] = e /\ (e.key \in Selected(ask) => i <= D)
      /\ \A i \in 1..Len(c) : i <= D => c[i] = Absent \/ c[i].key \in Selected(ask)
  BY ConfigIs
<1>5. D \in Nat
  BY Defaults
<1>6. \A e : e \in fit <=> e \in W /\ Fit(e, inside)
  BY DEF Fit
<1>7. \A e : (e \in loads \ fit /\ e.key \in explicit) <=> (e \in W /\ Bad(e, inside, asked))
  BY <1>1 DEF Bad
<1>8. ~Fit(Absent, inside) /\ ~Bad(Absent, inside, asked)
  BY <1>2 DEF Fit, Bad
<1> HIDE DEF l, c, inside, asked, W, D, loads, fit, explicit
<1>9. l.raised <=> \E e \in loads \ fit : e.key \in explicit
  BY <1>3, <1>4, <1>7, <1>8 DEF Loaded
<1>10. ASSUME ~l.raised PROVE l.tools \subseteq {Impl(e) : e \in fit}
  BY <1>3, <1>4, <1>6, <1>8, <1>10 DEF Loaded
<1>11. ASSUME ~l.raised PROVE Named(l.tools) = {Impl(e).name : e \in fit}
  <2>1. Named(l.tools) \subseteq {Impl(e).name : e \in fit}
    BY <1>10, <1>11 DEF Named
  <2>2. ASSUME NEW e \in fit PROVE Impl(e).name \in Named(l.tools)
    <3>1. PICK i \in 1..Len(c) : c[i] = e
      BY <1>4, <1>6
    <3> QED
      BY <1>3, <1>6, <1>11, <3>1 DEF Loaded
  <2> QED
    BY <2>1, <2>2
<1>12. ASSUME ~l.raised, NEW e \in fit, e.key \in Selected(ask),
              \A f \in fit \ {e} : Impl(f).name = Impl(e).name => f.key \notin Selected(ask)
       PROVE  Impl(e) \in l.tools
  <2>1. PICK i \in 1..Len(c) : c[i] = e /\ i <= D
    BY <1>4, <1>6, <1>12
  <2> DEFINE T == {j \in 1..Len(c) : Fit(c[j], inside) /\ Impl(c[j]).name = Impl(e).name}
  <2>2. i \in T /\ T \in SUBSET Nat
    BY <1>6, <2>1
  <2>3. PICK x \in T : \A y \in T : x <= y
    <3> HIDE DEF T
    <3> QED
      BY <2>2, Least
  <2>4. x <= D /\ x \in 1..Len(c)
    BY <1>4, <1>5, <2>1, <2>2, <2>3
  <2>5. c[x] \in fit /\ c[x].key \in Selected(ask) /\ Impl(c[x]).name = Impl(e).name
    BY <1>4, <1>6, <1>8, <2>3, <2>4
  <2>6. c[x] = e
    BY <1>12, <2>5
  <2>7. \A j \in 1..x - 1 : Fit(c[j], inside) => Impl(c[j]).name # Impl(c[x]).name
    <3>1. ASSUME NEW j \in 1..x - 1, Fit(c[j], inside), Impl(c[j]).name = Impl(c[x]).name PROVE FALSE
      <4>1. j \in 1..Len(c) /\ j < x
        BY <1>4, <2>4
      <4>2. j \in T
        BY <2>5, <3>1, <4>1
      <4> QED
        BY <2>3, <4>1, <4>2
    <3> QED
      BY <3>1
  <2>8. Impl(c[x]) \in l.tools
    BY <1>3, <1>12, <2>3, <2>4, <2>7 DEF Loaded
  <2> QED
    BY <2>6, <2>8
<1>13. ~l.raised => \A s, t \in l.tools : s.name = t.name => s = t
  BY <1>3 DEF Loaded
<1> QED
  BY <1>9, <1>10, <1>11, <1>12, <1>13 DEF RightlyLoaded, l, loads, fit, explicit

\* For any factories, overrides, names and sandbox, a registry that ToolLoader
\* loads has what was asked for and fits, or an exception says what does not.
THEOREM RegistriesAreLoadedAsAsked == Spec => []LoadedAsAsked
<1>1. Init => LoadedAsAsked
  <2> SUFFICES ASSUME Init PROVE LoadedAsAsked
    OBVIOUS
  <2>1. PICK ask \in Ask : loading = [ask |-> ask, loaded |-> Load(ask)]
    BY DEF Init
  <2>2. RightlyLoaded(ask, Load(ask))
    BY ToolAssumption, LoadedRightly
  <2> QED
    BY <2>1, <2>2 DEF LoadedAsAsked
<1>2. LoadedAsAsked /\ [Next]_vars => LoadedAsAsked'
  <2> SUFFICES ASSUME LoadedAsAsked, [Next]_vars PROVE LoadedAsAsked'
    OBVIOUS
  <2>1. loading' = loading \/ loading' = NotLoading
    BY DEF Next, vars, Serve, Register, Reconfigure, FinishChange, FiveMinutes, Execute, Collect,
           Return, Raise, Work, Skip, Take, Resolved, Run
  <2> QED
    BY <2>1 DEF LoadedAsAsked, Using, RightlyLoaded
<1> QED
  BY <1>1, <1>2, PTL DEF Spec
-----------------------------------------------------------------------------
(***************************************************************************)
(* The Python and file tools, for any number of calls, workers and faults: *)
(* which code a Python call can have run, and what a call that met no      *)
(* other has done.                                                         *)
(*                                                                         *)
(* The argument: two containers that are up at the same time have met      *)
(* (Meet), so the script a call finds once it has emptied it was put there *)
(* by itself or by a call it has met (ScriptOfMet), and a call that has    *)
(* met no other is the only one to touch the script and the file           *)
(* (AloneSoFar).                                                           *)
(***************************************************************************)

\* A container only takes the steps of its tool, and a caller waits for one.
Fits(n) ==
    /\ box[n] \in {"empty script", "put script", "python"} => tool[n] = "execute_python"
    /\ box[n] = "cat" => tool[n] \in {"read_file", "patch_file"}
    /\ box[n] = "patch" => tool[n] = "patch_file"
    /\ box[n] \in {"empty file", "put file"} => tool[n] \in {"write_file", "patch_file"}
    /\ client[n] = "waits" => Live(n)
    /\ client[n] = "new" => ~Live(n)
    /\ tool[n] = "none" => ~Live(n)

StepsFit == \A n \in Call : Fits(n)

Meet ==
    /\ \A n, m \in Call : Live(n) /\ Live(m) /\ n # m => m \in met[n]
    /\ \A n \in Call : \A m \in met[n] : client[m] # "new"

\* m may have put the code n finds.
Source(n, m) == m = n \/ (m \in met[n] /\ tool[m] = "execute_python")

Sourced(n) ==
    /\ box[n] \in {"put script", "python"} /\ script \in Call => Source(n, script)
    /\ box[n] = "exits" /\ tool[n] = "execute_python" =>
          \A m \in has[n] \cap Call : Source(n, m)

ScriptOfMet == \A n \in Call : Sourced(n)

\* What a call alone in the workspace has done by the step its container is at.
SoFar(n) ==
    /\ box[n] \in {"empty script", "put script", "python", "cat", "patch"} => file = found[n]
    /\ box[n] = "put script" => script = 0
    /\ box[n] = "python" => script = n
    /\ box[n] = "patch" => has[n] = found[n]
    /\ box[n] \in {"empty file", "put file"} =>
          /\ tool[n] = "write_file" => has[n] = {n}
          /\ tool[n] = "patch_file" => has[n] \in {found[n], found[n] \cup {n}}
    /\ box[n] = "put file" => file = {}
    /\ box[n] = "exits" =>
          /\ tool[n] = "execute_python" => has[n] = {n} /\ file = found[n]
          /\ tool[n] = "read_file" => has[n] = found[n] /\ file = found[n]
          /\ tool[n] = "write_file" => file = {n}
          /\ tool[n] = "patch_file" => file \in {found[n], found[n] \cup {n}}

Lone(n) == Live(n) /\ client[n] = "waits" /\ met[n] = {}
AloneSoFar == \A n \in Call : Lone(n) => SoFar(n)

WInv == TypeOK /\ StepsFit /\ Meet /\ ScriptOfMet /\ AloneSoFar
-----------------------------------------------------------------------------
\* A script is never mistaken for empty or mixed when it is a call's.
LEMMA Marks ==
    /\ Call \subseteq Mark /\ 0 \in Mark /\ Mixed \in Mark
    /\ 0 \notin Call /\ Mixed \notin Call /\ Mixed # 0
  BY WorkspaceAssumption DEF Call, Mark, Mixed

LEMMA FirstSteps ==
    ASSUME NEW t \in Tool
    PROVE  /\ t = "execute_python" => FirstStep(t) = "empty script"
           /\ t = "write_file" => FirstStep(t) = "empty file"
           /\ t \in {"read_file", "patch_file"} => FirstStep(t) = "cat"
           /\ t # "none"
           /\ t \in {"execute_python", "write_file", "read_file", "patch_file"}
  BY DEF Tool, FirstStep

Going(n) == Step(n) \/ TimesOut(n) \/ Fails(n)

\* A call that is neither new nor over leaves what is recorded of the others alone.
Same(m) ==
    /\ client'[m] = client[m] /\ box'[m] = box[m] /\ has'[m] = has[m]
    /\ found'[m] = found[m] /\ met'[m] = met[m]

LEMMA Frame ==
    ASSUME TypeOK, StepsFit, NEW n \in Call, Going(n)
    PROVE  /\ Live(n) /\ tool' = tool /\ client[n] # "new" /\ client'[n] # "new"
           /\ \A m \in Call \ {n} : Same(m)
<1> USE DEF TypeOK, Same, Live, Goes, Ends
<1>1. CASE EmptyScript(n)
  BY <1>1 DEF EmptyScript, StepsFit, Fits
<1>2. CASE PutScript(n)
  BY <1>2 DEF PutScript, StepsFit, Fits
<1>3. CASE Python(n)
  BY <1>3 DEF Python, StepsFit, Fits
<1>4. CASE Cat(n)
  BY <1>4 DEF Cat, StepsFit, Fits
<1>5. CASE Patch(n)
  BY <1>5 DEF Patch, StepsFit, Fits
<1>6. CASE EmptyFile(n)
  BY <1>6 DEF EmptyFile, StepsFit, Fits
<1>7. CASE PutFile(n)
  BY <1>7 DEF PutFile, StepsFit, Fits
<1>8. CASE Exits(n)
  BY <1>8 DEF Exits, StepsFit, Fits
<1>9. CASE TimesOut(n)
  BY <1>9 DEF TimesOut, StepsFit, Fits
<1>10. CASE Fails(n)
  BY <1>10 DEF Fails, StepsFit, Fits
<1> QED
  BY <1>1, <1>2, <1>3, <1>4, <1>5, <1>6, <1>7, <1>8, <1>9, <1>10 DEF Going, Step
-----------------------------------------------------------------------------
LEMMA OneFaultMore ==
    ASSUME NEW f \in 0..MaxFaults, f < MaxFaults
    PROVE  f + 1 \in 0..MaxFaults
  BY WorkspaceAssumption

\* Every step keeps the variables in their types.
LEMMA TypeStep ==
    ASSUME TypeOK, [WorkspaceNext]_workspaceVars
    PROVE  TypeOK'
<1> USE Marks DEF TypeOK, Goes, Ends
<1>1. ASSUME NEW n \in Call, NEW t \in Tool, Start(n, t) PROVE TypeOK'
  <2>1. /\ UnderWay \subseteq Call
        /\ \A m \in Call : met[m] \cup {n} \subseteq Call
    BY <1>1 DEF UnderWay
  <2>2. met' \in [Call -> SUBSET Call]
    BY <1>1, <2>1 DEF Start
  <2>3. {n} \subseteq Mark
    BY <1>1
  <2>4. has' \in [Call -> SUBSET Mark] /\ found' \in [Call -> SUBSET Mark]
    BY <1>1, <2>3 DEF Start
  <2>5. box' = [box EXCEPT ![n] = FirstStep(t)] /\ FirstStep(t) \in {"empty script", "empty file", "cat"}
    BY <1>1, FirstSteps DEF Start
  <2>6. /\ tool' \in [Call -> Tool \cup {"none"}]
        /\ client' \in [Call -> {"new", "waits", "returned", "raised"}]
        /\ script' \in Mark /\ file' \in SUBSET Mark /\ faults' \in 0..MaxFaults
    BY <1>1 DEF Start
  <2>7. box' \in [Call -> {"none", "empty script", "put script", "python", "cat", "patch",
                          "empty file", "put file", "exits"}]
    BY <2>5
  <2> QED
    BY <2>2, <2>4, <2>6, <2>7
<1>2. ASSUME NEW n \in Call, EmptyScript(n) PROVE TypeOK'
  BY <1>2 DEF EmptyScript
<1>3. ASSUME NEW n \in Call, PutScript(n) PROVE TypeOK'
  <2>1. script' \in Mark
    BY <1>3 DEF PutScript
  <2> QED
    BY <1>3, <2>1 DEF PutScript
<1>4. ASSUME NEW n \in Call, Python(n) PROVE TypeOK'
  BY <1>4 DEF Python
<1>5. ASSUME NEW n \in Call, Cat(n) PROVE TypeOK'
  BY <1>5 DEF Cat
<1>6. ASSUME NEW n \in Call, Patch(n) PROVE TypeOK'
  <2>1. has[n] \cup {n} \subseteq Mark /\ has[n] \subseteq Mark
    BY <1>6
  <2>2. CASE has' \in {has, [has EXCEPT ![n] = @ \cup {n}]} /\ Goes(n, "empty file")
             /\ UNCHANGED <<found, met>>
    <3>1. has' \in [Call -> SUBSET Mark]
      BY <2>1, <2>2
    <3> QED
      BY <1>6, <2>2, <3>1 DEF Patch
  <2>3. CASE Ends(n)
    BY <1>6, <2>3 DEF Patch
  <2> QED
    BY <1>6, <2>2, <2>3 DEF Patch
<1>7. ASSUME NEW n \in Call, EmptyFile(n) PROVE TypeOK'
  BY <1>7 DEF EmptyFile
<1>8. ASSUME NEW n \in Call, PutFile(n) PROVE TypeOK'
  <2>1. has[n] \in SUBSET Mark /\ {Mixed} \in SUBSET Mark
    BY <1>8
  <2>2. file' \in {has[n], file, {Mixed}}
    BY <1>8 DEF PutFile
  <2> QED
    BY <1>8, <2>1, <2>2 DEF PutFile
<1>9. ASSUME NEW n \in Call, Exits(n) PROVE TypeOK'
  BY <1>9 DEF Exits
<1>10. ASSUME NEW n \in Call, TimesOut(n) PROVE TypeOK'
  <2>1. faults' \in 0..MaxFaults
    BY <1>10, OneFaultMore DEF TimesOut
  <2> QED
    BY <1>10, <2>1 DEF TimesOut
<1>11. ASSUME NEW n \in Call, Fails(n) PROVE TypeOK'
  <2>1. faults' \in 0..MaxFaults
    BY <1>11, OneFaultMore DEF Fails
  <2> QED
    BY <1>11, <2>1 DEF Fails
<1>12. CASE UNCHANGED workspaceVars
  BY <1>12 DEF workspaceVars
<1> QED
  BY <1>1, <1>2, <1>3, <1>4, <1>5, <1>6, <1>7, <1>8, <1>9, <1>10, <1>11, <1>12 DEF WorkspaceNext, Step

\* A container goes from one step of its tool to the next.
LEMMA FitStep ==
    ASSUME TypeOK, StepsFit, [WorkspaceNext]_workspaceVars
    PROVE  StepsFit'
<1> SUFFICES ASSUME NEW m \in Call PROVE Fits(m)'
  BY DEF StepsFit
<1> USE DEF TypeOK, Live
<1>0. Fits(m)
  BY DEF StepsFit
<1>1. ASSUME NEW n \in Call, NEW t \in Tool, Start(n, t) PROVE Fits(m)'
  <2>1. CASE m = n
    <3>1. tool'[n] = t /\ client'[n] = "waits" /\ box'[n] = FirstStep(t)
      BY <1>1 DEF Start
    <3> QED
      BY <2>1, <3>1, FirstSteps DEF Fits
  <2>2. CASE m # n
    BY <1>0, <1>1, <2>2 DEF Start, Fits
  <2> QED
    BY <2>1, <2>2
<1>2. ASSUME NEW n \in Call, Going(n), m # n PROVE Fits(m)'
  BY <1>0, <1>2, Frame DEF Fits, Same
<1>3. CASE EmptyScript(m)
  BY <1>0, <1>3 DEF EmptyScript, Fits, Goes
<1>4. CASE PutScript(m)
  <2>1. box[m] = "put script" /\ Goes(m, "python") /\ UNCHANGED <<tool, client>>
    BY <1>4 DEF PutScript
  <2> QED
    BY <1>0, <2>1 DEF Fits, Goes
<1>5. CASE Python(m)
  BY <1>0, <1>5 DEF Python, Fits, Goes
<1>6. CASE Cat(m)
  BY <1>0, <1>6 DEF Cat, Fits, Goes
<1>7. CASE Patch(m)
  <2>1. \/ client[m] = "waits" /\ box' = [box EXCEPT ![m] = "empty file"]
        \/ client[m] = "raised" /\ box' = [box EXCEPT ![m] = "none"]
    BY <1>7 DEF Patch, Goes, Ends
  <2>2. UNCHANGED <<tool, client>> /\ box[m] = "patch"
    BY <1>7 DEF Patch
  <2> QED
    BY <1>0, <2>1, <2>2 DEF Fits
<1>8. CASE EmptyFile(m)
  BY <1>0, <1>8 DEF EmptyFile, Fits, Goes
<1>9. CASE PutFile(m)
  <2>1. box[m] = "put file" /\ Goes(m, "exits") /\ UNCHANGED <<tool, client>>
    BY <1>9 DEF PutFile
  <2> QED
    BY <1>0, <2>1 DEF Fits, Goes
<1>10. CASE Exits(m)
  <2>1. box'[m] = "none" /\ client'[m] \notin {"waits", "new"}
    BY <1>0, <1>10 DEF Exits, Ends, Goes, Fits
  <2> QED
    BY <2>1 DEF Fits
<1>11. CASE TimesOut(m)
  BY <1>0, <1>11 DEF TimesOut, Fits
<1>12. CASE Fails(m)
  <2>1. box'[m] = "none" /\ client'[m] = "raised"
    BY <1>12 DEF Fails, Ends, Goes
  <2> QED
    BY <2>1 DEF Fits
<1>13. CASE UNCHANGED workspaceVars
  BY <1>0, <1>13 DEF workspaceVars, Fits
<1> QED
  BY <1>1, <1>2, <1>3, <1>4, <1>5, <1>6, <1>7, <1>8, <1>9, <1>10, <1>11, <1>12, <1>13
  DEF WorkspaceNext, Step, Going

\* Who is under way when a call starts, or starts while it is, is in its met.
LEMMA MeetStep ==
    ASSUME TypeOK, StepsFit, StepsFit', Meet, [WorkspaceNext]_workspaceVars
    PROVE  Meet'
<1> USE DEF TypeOK, Meet
<1>1. ASSUME NEW n \in Call, NEW t \in Tool, Start(n, t) PROVE Meet'
  <2>1. /\ client' = [client EXCEPT ![n] = "waits"] /\ client[n] = "new"
        /\ \A m \in Call \ {n} : Live(m)' = Live(m)
        /\ met'[n] = UnderWay
        /\ \A m \in Call \ {n} : met'[m] = IF m \in UnderWay THEN met[m] \cup {n} ELSE met[m]
    BY <1>1 DEF Start, Live
  <2>2. \A m \in Call : Live(m) => m \in UnderWay
    BY DEF UnderWay
  <2>3. \A m \in UnderWay : m \in Call /\ client[m] # "new"
    BY DEF UnderWay, StepsFit, Fits
  <2>4. \A a, b \in Call : Live(a)' /\ Live(b)' /\ a # b => b \in met'[a]
    BY <2>1, <2>2
  <2>5. \A a \in Call : \A b \in met'[a] : client'[b] # "new"
    <3>1. \A b \in Call : client[b] # "new" \/ b = n => client'[b] # "new"
      BY <2>1
    <3>2. \A a \in Call : \A b \in met'[a] : b \in Call /\ (client[b] # "new" \/ b = n)
      BY <2>1, <2>3
    <3> QED
      BY <3>1, <3>2
  <2> QED
    BY <2>4, <2>5
<1>2. ASSUME NEW n \in Call, Going(n) PROVE Meet'
  <2>1. met'[n] \in {met[n], {}} /\ (Live(n)' => met'[n] = met[n])
    <3> USE DEF Goes, Ends, Live
    <3>1. CASE Patch(n)
      BY <3>1 DEF Patch
    <3>2. CASE Exits(n) \/ Fails(n)
      BY <3>2 DEF Exits, Fails
    <3>3. CASE met' = met
      BY <3>3
    <3> QED
      BY <1>2, <3>1, <3>2, <3>3
      DEF Going, Step, EmptyScript, PutScript, Python, Cat, EmptyFile, PutFile, TimesOut
  <2>2. \A m \in Call \ {n} : met'[m] = met[m] /\ Live(m)' = Live(m)
    BY <1>2, Frame DEF Same, Live
  <2>3. \A m \in Call : client[m] # "new" => client'[m] # "new"
    BY <1>2, Frame DEF Same
  <2>4. Live(n)
    BY <1>2, Frame
  <2>5. \A a, b \in Call : Live(a)' /\ Live(b)' /\ a # b => b \in met'[a]
    BY <2>1, <2>2, <2>4
  <2>6. \A a \in Call : \A b \in met'[a] : client'[b] # "new"
    BY <2>1, <2>2, <2>3
  <2> QED
    BY <2>5, <2>6
<1>3. CASE UNCHANGED workspaceVars
  BY <1>3 DEF workspaceVars, Live
<1> QED
  BY <1>1, <1>2, <1>3 DEF WorkspaceNext, Going

\* The script is put there by a call that every container now up has met.
LEMMA ScriptStep ==
    ASSUME TypeOK, StepsFit, Meet, ScriptOfMet, [WorkspaceNext]_workspaceVars
    PROVE  ScriptOfMet'
<1> SUFFICES ASSUME NEW m \in Call PROVE Sourced(m)'
  BY DEF ScriptOfMet
<1> USE DEF TypeOK, Live
<1>0. Sourced(m)
  BY DEF ScriptOfMet
<1>1. ASSUME NEW n \in Call, NEW t \in Tool, Start(n, t) PROVE Sourced(m)'
  <2>1. CASE m = n
    <3>1. box'[n] \in {"empty script", "empty file", "cat"}
      BY <1>1, FirstSteps DEF Start
    <3> QED
      BY <2>1, <3>1 DEF Sourced
  <2>2. CASE m # n
    <3>1. /\ box'[m] = box[m] /\ has'[m] = has[m] /\ tool'[m] = tool[m] /\ script' = script
          /\ met[m] \subseteq met'[m]
      BY <1>1, <2>2 DEF Start
    <3>2. \A c \in met[m] : tool'[c] = tool[c]
      BY <1>1 DEF Start, Meet
    <3> QED
      BY <1>0, <3>1, <3>2 DEF Sourced, Source
  <2> QED
    BY <2>1, <2>2
<1>2. ASSUME NEW n \in Call, Going(n), m # n PROVE Sourced(m)'
  <2>1. Same(m) /\ tool' = tool /\ Live(n)
    BY <1>2, Frame
  <2>2. CASE script' = script
    BY <1>0, <2>1, <2>2 DEF Sourced, Source, Same
  <2>3. CASE script' \notin Call
    BY <1>0, <2>1, <2>3 DEF Sourced, Source, Same
  <2>4. CASE script' = n /\ box[n] = "put script"
    <3>1. tool[n] = "execute_python"
      BY <2>4 DEF StepsFit, Fits
    <3>2. Live(m) => n \in met[m]
      BY <1>2, <2>1 DEF Meet
    <3> QED
      BY <1>0, <2>1, <2>4, <3>1, <3>2 DEF Sourced, Source, Same
  <2>5. script' = script \/ script' \notin Call \/ (script' = n /\ box[n] = "put script")
    BY <1>2, Marks
    DEF Going, Step, EmptyScript, PutScript, Python, Cat, Patch, EmptyFile, PutFile, Exits,
        TimesOut, Fails
  <2> QED
    BY <2>2, <2>3, <2>4, <2>5
<1>3. CASE EmptyScript(m)
  <2>1. script' = 0 /\ box'[m] = "put script"
    BY <1>3 DEF EmptyScript, Goes
  <2> QED
    BY <2>1, Marks DEF Sourced
<1>4. CASE PutScript(m)
  <2>1. box'[m] = "python" /\ script' \in {m, Mixed}
    BY <1>4 DEF PutScript, Goes
  <2> QED
    BY <2>1, Marks DEF Sourced, Source
<1>5. CASE Python(m)
  <2>1. /\ box[m] = "python" /\ box'[m] = "exits" /\ has'[m] = {script}
        /\ met' = met /\ tool' = tool
    BY <1>5 DEF Python, Goes
  <2> QED
    BY <1>0, <2>1 DEF Sourced, Source
<1>6. CASE Cat(m)
  <2>1. box'[m] \in {"patch", "exits"} /\ tool'[m] # "execute_python"
    BY <1>6 DEF Cat, Goes, StepsFit, Fits
  <2> QED
    BY <2>1 DEF Sourced
<1>7. CASE Patch(m)
  <2>1. box'[m] \in {"empty file", "none"}
    BY <1>7 DEF Patch, Ends, Goes
  <2> QED
    BY <2>1 DEF Sourced
<1>8. CASE EmptyFile(m)
  <2>1. box'[m] = "put file"
    BY <1>8 DEF EmptyFile, Goes
  <2> QED
    BY <2>1 DEF Sourced
<1>9. CASE PutFile(m)
  <2>1. box'[m] = "exits" /\ tool'[m] # "execute_python"
    BY <1>9 DEF PutFile, Goes, StepsFit, Fits
  <2> QED
    BY <2>1 DEF Sourced
<1>10. CASE Exits(m) \/ Fails(m)
  <2>1. box'[m] = "none"
    BY <1>10 DEF Exits, Fails, Ends, Goes
  <2> QED
    BY <2>1 DEF Sourced
<1>11. CASE TimesOut(m)
  BY <1>0, <1>11 DEF TimesOut, Sourced, Source
<1>12. CASE UNCHANGED workspaceVars
  BY <1>0, <1>12 DEF workspaceVars, Sourced, Source
<1> QED
  BY <1>1, <1>2, <1>3, <1>4, <1>5, <1>6, <1>7, <1>8, <1>9, <1>10, <1>11, <1>12
  DEF WorkspaceNext, Step, Going

\* A call that has met no other is the only one to touch script and file.
LEMMA AloneStep ==
    ASSUME TypeOK, StepsFit, Meet, AloneSoFar, [WorkspaceNext]_workspaceVars
    PROVE  AloneSoFar'
<1> SUFFICES ASSUME NEW m \in Call, Lone(m)' PROVE SoFar(m)'
  BY DEF AloneSoFar
<1> USE DEF TypeOK, Live
<1>0. Live(m)' /\ client'[m] = "waits" /\ met'[m] = {}
  BY DEF Lone
<1>1. ASSUME NEW n \in Call, NEW t \in Tool, Start(n, t) PROVE SoFar(m)'
  <2>1. CASE m = n
    <3>1. /\ tool'[n] = t /\ box'[n] = FirstStep(t) /\ found'[n] = file /\ file' = file
          /\ has'[n] = IF t = "write_file" THEN {n} ELSE {}
      BY <1>1 DEF Start
    <3> QED
      BY <2>1, <3>1, FirstSteps DEF SoFar
  <2>2. CASE m # n
    <3>1. m \in UnderWay
      BY <1>0, <1>1, <2>2 DEF Start, UnderWay
    <3>2. n \in met'[m]
      BY <1>1, <2>2, <3>1 DEF Start
    <3> QED
      BY <1>0, <3>2
  <2> QED
    BY <2>1, <2>2
<1>2. ASSUME NEW n \in Call, Going(n), m # n PROVE SoFar(m)'
  <2>1. Same(m) /\ Live(n)
    BY <1>2, Frame
  <2>2. n \in met'[m]
    BY <1>0, <1>2, <2>1 DEF Same, Meet
  <2> QED
    BY <1>0, <2>2
<1>3. ASSUME Going(m) PROVE SoFar(m)'
  <2>1. Live(m) /\ tool' = tool
    BY <1>3, Frame
  <2>2. client[m] = "waits" /\ met' = met /\ found' = found
    BY <1>0, <1>3
    DEF Going, Step, EmptyScript, PutScript, Python, Cat, Patch, EmptyFile, PutFile, Exits,
        TimesOut, Fails, Ends, Goes
  <2>3. SoFar(m) /\ Fits(m)
    BY <1>0, <2>1, <2>2 DEF AloneSoFar, Lone, StepsFit
  <2>4. \A s \in {"put script", "put file"} : Others(m, s) = {}
    BY <1>0, <2>1, <2>2 DEF Others, Meet
  <2>5. CASE EmptyScript(m)
    <3>1. box[m] = "empty script" /\ box'[m] = "put script" /\ script' = 0 /\ file' = file
      BY <2>5 DEF EmptyScript, Goes
    <3> QED
      BY <2>2, <2>3, <3>1 DEF SoFar
  <2>6. CASE PutScript(m)
    <3>1. box[m] = "put script" /\ box'[m] = "python" /\ file' = file
      BY <2>6 DEF PutScript, Goes
    <3>2. script' = m
      BY <2>3, <2>4, <2>6, <3>1 DEF PutScript, SoFar
    <3> QED
      BY <2>2, <2>3, <3>1, <3>2 DEF SoFar
  <2>7. CASE Python(m)
    <3>1. box[m] = "python" /\ box'[m] = "exits" /\ has'[m] = {script} /\ file' = file
      BY <2>7 DEF Python, Goes
    <3> QED
      BY <2>1, <2>2, <2>3, <3>1 DEF SoFar, Fits
  <2>8. CASE Cat(m)
    <3>1. /\ box[m] = "cat" /\ has'[m] = file /\ file' = file
          /\ box'[m] = IF tool[m] = "patch_file" THEN "patch" ELSE "exits"
      BY <2>8 DEF Cat, Goes
    <3> QED
      BY <2>1, <2>2, <2>3, <3>1 DEF SoFar, Fits
  <2>9. CASE Patch(m)
    <3>1. /\ box[m] = "patch" /\ box'[m] = "empty file" /\ file' = file
          /\ has'[m] \in {has[m], has[m] \cup {m}}
      BY <2>2, <2>9 DEF Patch, Goes
    <3> QED
      BY <2>1, <2>2, <2>3, <3>1 DEF SoFar, Fits
  <2>10. CASE EmptyFile(m)
    <3>1. box[m] = "empty file" /\ box'[m] = "put file" /\ file' = {} /\ has' = has
      BY <2>10 DEF EmptyFile, Goes
    <3> QED
      BY <2>1, <2>2, <2>3, <3>1 DEF SoFar
  <2>11. CASE PutFile(m)
    <3>1. box[m] = "put file" /\ box'[m] = "exits" /\ has' = has
      BY <2>11 DEF PutFile, Goes
    <3>2. file' = has[m]
      BY <2>2, <2>3, <2>4, <2>11, <3>1 DEF PutFile, SoFar
    <3> QED
      BY <2>1, <2>2, <2>3, <3>1, <3>2 DEF SoFar, Fits
  <2>12. CASE Exits(m) \/ TimesOut(m) \/ Fails(m)
    BY <1>0, <2>12 DEF Exits, TimesOut, Fails, Ends, Goes
  <2> QED
    BY <1>3, <2>5, <2>6, <2>7, <2>8, <2>9, <2>10, <2>11, <2>12 DEF Going, Step
<1>4. CASE UNCHANGED workspaceVars
  BY <1>4 DEF workspaceVars, AloneSoFar, Lone, SoFar
<1> QED
  BY <1>1, <1>2, <1>3, <1>4 DEF WorkspaceNext, Going
-----------------------------------------------------------------------------
\* The invariant holds from the first call on.
THEOREM WorkspaceInvariant == WorkspaceSpec => []WInv
<1>1. ASSUME WorkspaceInit PROVE WInv
  <2>1. TypeOK
    BY <1>1, Marks, WorkspaceAssumption DEF WorkspaceInit, TypeOK
  <2>2. \A n \in Call : box[n] = "none" /\ client[n] = "new" /\ met[n] = {}
    BY <1>1 DEF WorkspaceInit
  <2> QED
    BY <2>1, <2>2 DEF WInv, StepsFit, Fits, Meet, ScriptOfMet, Sourced, AloneSoFar, Lone, Live
<1>2. WInv /\ [WorkspaceNext]_workspaceVars => WInv'
  BY TypeStep, FitStep, MeetStep, ScriptStep, AloneStep DEF WInv
<1> QED
  BY <1>1, <1>2, PTL DEF WorkspaceSpec

\* execute_python never runs code older than the calls it overlaps with, however
\* many there are and whichever of them time out (run_python of docker_sandbox.py).
THEOREM PythonRunsCodeOfTheMoment == WorkspaceSpec => []RunsCodeOfTheMoment
<1>1. WInv => RunsCodeOfTheMoment
  BY DEF WInv, ScriptOfMet, Sourced, Source, RunsCodeOfTheMoment
<1> QED
  BY <1>1, WorkspaceInvariant, PTL

\* A tool call of builtins.py that overlaps with no other does what it says,
\* whatever scripts, files and half-done work calls before it left behind.
THEOREM AloneIsSafe == WorkspaceSpec => []AloneDoesAsItSays
<1>1. WInv => AloneDoesAsItSays
  <2> SUFFICES ASSUME WInv, NEW n \in Call,
                      box[n] = "exits", client[n] = "waits", met[n] = {}
               PROVE  CASE tool[n] = "execute_python" -> has[n] = {n} /\ file = found[n]
                        [] tool[n] = "read_file" -> has[n] = found[n] /\ file = found[n]
                        [] tool[n] = "write_file" -> file = {n}
                        [] tool[n] = "patch_file" -> file \in {found[n], found[n] \cup {n}}
    BY DEF AloneDoesAsItSays
  <2>1. SoFar(n) /\ Fits(n)
    BY DEF WInv, StepsFit, AloneSoFar, Lone, Live
  <2>2. tool[n] \in Tool
    BY <2>1 DEF WInv, TypeOK, Fits, Live
  <2> QED
    BY <2>1, <2>2 DEF SoFar, Tool
<1> QED
  BY <1>1, WorkspaceInvariant, PTL
=============================================================================
