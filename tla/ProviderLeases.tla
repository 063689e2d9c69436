--------------------------- MODULE ProviderLeases ---------------------------
(***************************************************************************)
(* What ModelPool (agent_framework/model_pool.py) promises its callers,    *)
(* with no slot list, no indices and no counters: a provider is lent to at *)
(* most MaxConcurrent[p] clients at a time, the cheapest provider with     *)
(* room is lent first, and a client is turned away only when every         *)
(* provider is full.  ModelPool's specification implements this one.       *)
(***************************************************************************)
EXTENDS Naturals, Integers, FiniteSets

CONSTANTS Client,        \* threads that ask the pool for a provider
          Provider,      \* the providers that may be offered
          MaxConcurrent, \* [Provider -> Nat], capacity
          Priority,      \* [Provider -> Int], lower is cheaper
          NoLease        \* what a client holds when it holds nothing

VARIABLES offered,  \* the providers configured so far
          holding,  \* [Client -> Provider \cup {NoLease}]
          denied    \* the clients whose last request was turned away

leaseVars == <<offered, holding, denied>>

Holders(p) == {c \in Client : holding[c] = p}
HasRoom(p) == Cardinality(Holders(p)) < MaxConcurrent[p]

Init == /\ offered = {}
        /\ holding = [c \in Client |-> NoLease]
        /\ denied = {}

\* Providers are configured while nobody holds a lease.
Offer(p) ==
    /\ p \notin offered
    /\ \A c \in Client : holding[c] = NoLease
    /\ offered' = offered \cup {p}
    /\ UNCHANGED <<holding, denied>>

Acquire(c, p) ==
    /\ holding[c] = NoLease
    /\ p \in offered
    /\ HasRoom(p)
    /\ \A q \in offered : Priority[q] < Priority[p] => ~HasRoom(q)
    /\ holding' = [holding EXCEPT ![c] = p]
    /\ denied' = denied \ {c}
    /\ UNCHANGED offered

Deny(c) ==
    /\ holding[c] = NoLease
    /\ \A q \in offered : ~HasRoom(q)
    /\ denied' = denied \cup {c}
    /\ UNCHANGED <<offered, holding>>

Return(c) ==
    /\ holding[c] # NoLease
    /\ holding' = [holding EXCEPT ![c] = NoLease]
    /\ UNCHANGED <<offered, denied>>

Next == \/ \E p \in Provider : Offer(p)
        \/ \E c \in Client : \/ \E p \in Provider : Acquire(c, p)
                             \/ Deny(c)
                             \/ Return(c)

Spec == Init /\ [][Next]_leaseVars
=============================================================================
