----------------------------- MODULE ModelPool -----------------------------
(***************************************************************************)
(* agent_framework/model_pool.py: the pool of provider slots that worker   *)
(* threads share.  Each method body runs under the pool's lock, so each    *)
(* method is one step.  A slot is named by its index in the sorted list,   *)
(* which is all that release() is given.  Indices start at 1 here.         *)
(***************************************************************************)
EXTENDS Integers, FiniteSets, Sequences, SequencesExt

CONSTANTS Client,        \* threads that route through the pool
          Provider,      \* the ProviderSlot objects that may be added
          MaxConcurrent, \* ProviderSlot.max_concurrent
          Priority,      \* ProviderSlot.priority, lower is dispatched first
          NoLease        \* a client with no PoolRoutingResult in hand

\* A PoolRoutingResult, as far as its holder uses it: the provider to call
\* and the slot index to give back.
Lease == [provider : Provider, slot : Nat \ {0}]

ASSUME PoolAssumption ==
    /\ IsFiniteSet(Client)
    /\ MaxConcurrent \in [Provider -> Nat]
    /\ Priority \in [Provider -> Int]
    /\ NoLease \notin Lease
    /\ NoLease \notin Provider

VARIABLES slots,   \* _slots: the providers, in order of priority
          active,  \* _active_counts: slot index -> number of leases counted
          lease,   \* what each client got from route() and has not released
          refused  \* the clients whose last route() raised ValueError

poolVars == <<slots, active, lease, refused>>

Index == 1..Len(slots)
Holds(c) == lease[c] # NoLease
Idle == \A c \in Client : ~Holds(c)

\* The clients that are using provider p, and those that will release slot i.
UsersOf(p) == {c \in Client : Holds(c) /\ lease[c].provider = p}
HoldersOf(i) == {c \in Client : Holds(c) /\ lease[c].slot = i}
-----------------------------------------------------------------------------
PoolInit ==
    /\ slots = <<>>
    /\ active = <<>>
    /\ lease = [c \in Client |-> NoLease]
    /\ refused = {}

\* Mutant: always at the end.
InsertsLast(p, k) == k = Len(slots) + 1

\* The place of the first slot of strictly larger priority, or the end.
InsertsAt(p, k) ==
    /\ \A j \in 1..(k-1) : ~(Priority[p] < Priority[slots[j]])
    /\ k \in Index => Priority[p] < Priority[slots[k]]

\* add_slot(): insert in priority order, then start every count from zero.
AddSlot(p) ==
    /\ p \notin ToSet(slots)
    /\ \E k \in 1..(Len(slots) + 1) :
          /\ InsertsAt(p, k)
          /\ slots' = InsertAt(slots, k, p)
    /\ active' = [i \in 1..(Len(slots) + 1) |-> 0]
    /\ UNCHANGED <<lease, refused>>

\* Mutant: off by one at the limit.
HasCapacityAtLimit(i) == active[i] <= MaxConcurrent[slots[i]]

HasCapacity(i) == active[i] < MaxConcurrent[slots[i]]

\* route(): the first slot with capacity is counted and handed out.
Route(c) ==
    /\ ~Holds(c)
    /\ \E i \in Index :
          /\ HasCapacity(i)
          /\ \A j \in 1..(i-1) : ~HasCapacity(j)
          /\ active' = [active EXCEPT ![i] = @ + 1]
          /\ lease' = [lease EXCEPT ![c] = [provider |-> slots[i], slot |-> i]]
    /\ refused' = refused \ {c}
    /\ UNCHANGED slots

\* route() when no slot has capacity: ValueError, nothing is counted.
Refuse(c) ==
    /\ ~Holds(c)
    /\ \A i \in Index : ~HasCapacity(i)
    /\ refused' = refused \cup {c}
    /\ UNCHANGED <<slots, active, lease>>

\* Mutant: the count is left alone.
ReleaseUncounted(c) ==
    /\ Holds(c)
    /\ lease' = [lease EXCEPT ![c] = NoLease]
    /\ UNCHANGED <<slots, active, refused>>

\* release(): give one unit back, unless the count is already zero.
Release(c) ==
    /\ Holds(c)
    /\ LET i == lease[c].slot IN
          \/ /\ active[i] > 0
             /\ active' = [active EXCEPT ![i] = @ - 1]
          \/ /\ active[i] = 0
             /\ UNCHANGED active
    /\ lease' = [lease EXCEPT ![c] = NoLease]
    /\ UNCHANGED <<slots, refused>>

\* total_capacity: the sum over the slots, each unit of a slot counted by itself.
Units == UNION {{i} \X (1..MaxConcurrent[slots[i]]) : i \in Index}
TotalCapacity == Cardinality(Units)
-----------------------------------------------------------------------------
UseStep == \E c \in Client : Route(c) \/ Refuse(c) \/ Release(c)

\* A pool to which slots may be added while leases are out.
PoolNext == (\E p \in Provider : AddSlot(p)) \/ UseStep
PoolSpec == PoolInit /\ [][PoolNext]_poolVars

\* The pool as the code base uses it: slots are added only while no lease is
\* outstanding.
ConfiguredNext == (Idle /\ \E p \in Provider : AddSlot(p)) \/ UseStep
ConfiguredSpec == PoolInit /\ [][ConfiguredNext]_poolVars
-----------------------------------------------------------------------------
TypeOK ==
    /\ slots \in Seq(Provider)
    /\ \A i, j \in Index : slots[i] = slots[j] => i = j
    /\ active \in [Index -> Nat]
    /\ lease \in [Client -> Lease \cup {NoLease}]
    /\ \A c \in Client : Holds(c) => lease[c].slot \in Index
    /\ refused \subseteq Client

\* No provider serves more clients than its max_concurrent ("Thread-safe,
\* respects capacity", class docstring): the providers really in use are
\* bounded, not only the counters.
CapacityRespected ==
    \A p \in Provider : Cardinality(UsersOf(p)) <= MaxConcurrent[p]

\* A lease names the slot its provider sits in and the counter of a slot is
\* the number of clients that will release it: a release always goes back to
\* where the route was counted, and takes nobody else's unit.
CapacityAccounting ==
    /\ \A c \in Client : Holds(c) => slots[lease[c].slot] = lease[c].provider
    /\ \A i \in Index : active[i] = Cardinality(HoldersOf(i))

\* Capacity never leaks, whenever slots are added: a unit is counted only as
\* long as some client can still release it, so a pool at rest is a free pool.
NoLeakedCapacity ==
    \A i \in Index : /\ active[i] <= Cardinality(HoldersOf(i))
                     /\ active[i] <= MaxConcurrent[slots[i]]

\* The pool implements the promise it makes to its callers.
Leases == INSTANCE ProviderLeases
            WITH offered <- ToSet(slots),
                 holding <- [c \in Client |-> IF Holds(c) THEN lease[c].provider
                                              ELSE NoLease],
                 denied <- refused
ImplementsLeases == Leases!Spec
=============================================================================
