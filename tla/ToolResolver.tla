---------------------------- MODULE ToolResolver ----------------------------
(***************************************************************************)
(* agent_framework/tool_resolver.py: the name a model used, turned into a  *)
(* registered one by threads that share one resolver and its two caches    *)
(* without a lock.  A step is what one thread does to the shared state     *)
(* between two places where another one can come in.                       *)
(*                                                                         *)
(* Names are data, and how close two of them are is a constant.  The third *)
(* policy, the model's own choice, is left out: nothing in the code gives  *)
(* the resolver a resolve_fn.  A resolution takes far less than the five   *)
(* minutes a miss is kept.                                                 *)
(***************************************************************************)
EXTENDS Naturals, FiniteSets

CONSTANTS Name, NoName, Registry, NoRegistry, Thread,
          Similar  \* the names that are close enough to a name

VARIABLES
    tools,     \* what each registry has: registry._tools
    registry,  \* the registry of the resolver
    aliases,   \* the map of its AliasPolicy
    cache,     \* _cache
    missed,    \* _miss_cache: "none", "fresh", or "old" for more than five minutes
    changing,  \* set_registry() or add_aliases() is between its two statements
    resolving, \* what each thread is at
    past       \* ghost, for each name: the answers that were right since the cache was
               \* cleared (close matches too, when a change overtook a call); whether
               \* clearing it overtook a call; and when there was last no answer, or a
               \* change that overtook a call

resolverVars == <<tools, registry, aliases, cache, missed, changing, resolving, past>>

Idle == [at |-> "idle", name |-> NoName, policy |-> 0, result |-> NoName, met |-> FALSE]
InFlight(n) == {t \in Thread : resolving[t].at # "idle" /\ resolving[t].name = n}

\* `if self._registry and result in self._registry.tools`
Registered(n) == registry # NoRegistry /\ n \in tools[registry]

\* What the policies would give now, if one had the resolver for oneself.
Close(n) == {m \in Similar[n] : Registered(m)}
RightNow(n) == IF Registered(aliases[n]) THEN {aliases[n]} ELSE Close(n)

ResolverInit ==
    /\ tools = [r \in Registry |-> {}]
    /\ cache = [n \in Name |-> NoName] /\ missed = [n \in Name |-> "none"]
    /\ changing = FALSE /\ resolving = [t \in Thread |-> Idle]
    /\ past = [n \in Name |-> [right |-> {}, lacked |-> "fresh", raced |-> FALSE]]

\* The ghost after a change of tools, registry or aliases.
Remember ==
    past' = [n \in Name |->
               [right |-> past[n].right \cup RightNow(n)' \cup (IF InFlight(n) # {} THEN Close(n)' ELSE {}),
                lacked |-> IF RightNow(n)' = {} \/ InFlight(n) # {} THEN "fresh" ELSE past[n].lacked,
                raced |-> past[n].raced]]
-----------------------------------------------------------------------------
Here(t, at) == resolving[t].at = at
Move(t, at, policy, result) ==
    resolving' = [resolving EXCEPT ![t] =
                     [at |-> at, name |-> @.name, policy |-> policy, result |-> result, met |-> @.met]]
Goto(t, at) == Move(t, at, resolving[t].policy, resolving[t].result)
Answer(t, n) == Move(t, "done", resolving[t].policy, n)
Alone == UNCHANGED <<tools, registry, aliases, changing, past>>
ReadOnly == UNCHANGED <<cache, missed>> /\ Alone

\* A thread begins to resolve a name; it meets those that are at the same name.
Resolve(t, n) ==
    resolving' = [u \in Thread |->
        IF u = t THEN [at |-> "look", name |-> n, policy |-> 0, result |-> NoName, met |-> InFlight(n) # {}]
        ELSE [resolving[u] EXCEPT !.met = @ \/ u \in InFlight(n)]]

Look(t) ==
    /\ Here(t, "look")
    /\ Goto(t, IF cache[resolving[t].name] # NoName THEN "cached" ELSE "misses")
    /\ ReadOnly

\* Cleared since it was seen, the name raises a KeyError.
Cached(t) ==
    /\ Here(t, "cached")
    /\ LET found == cache[resolving[t].name] IN
       \/ found = NoName /\ Goto(t, "raised")
       \/ found # NoName /\ Answer(t, IF registry = NoRegistry \/ Registered(found) THEN found
                                       ELSE NoName)
    /\ ReadOnly

\* Mutant: the age of a miss is read without a look whether there is one.
MissesUnchecked(t) == Here(t, "misses") /\ Goto(t, "aged") /\ ReadOnly

Misses(t) ==
    /\ Here(t, "misses")
    /\ Goto(t, IF missed[resolving[t].name] = "none" THEN "policy" ELSE "aged")
    /\ ReadOnly

\* Mutant: a miss is kept for good.
AgedNever(t) ==
    /\ Here(t, "aged")
    /\ LET m == missed[resolving[t].name] IN
       \/ m = "none" /\ Goto(t, "raised")
       \/ m # "none" /\ Answer(t, NoName)
    /\ ReadOnly

Aged(t) ==
    /\ Here(t, "aged")
    /\ LET m == missed[resolving[t].name] IN
       \/ m = "none" /\ Goto(t, "raised")
       \/ m = "fresh" /\ Answer(t, NoName)
       \/ m = "old" /\ Goto(t, "expire")
    /\ ReadOnly

\* Of two threads that find a miss too old, the second one raises a KeyError.
Expire(t) ==
    /\ Here(t, "expire")
    /\ Goto(t, IF missed[resolving[t].name] = "none" THEN "raised" ELSE "policy")
    /\ missed' = [missed EXCEPT ![resolving[t].name] = "none"]
    /\ UNCHANGED cache /\ Alone

\* Policy 0 is the alias, policy 1 the closest match, which needs a registry.
Policy(t) ==
    LET close == Close(resolving[t].name)
        Try(m) == Move(t, "verify", resolving[t].policy, m)
    IN  /\ Here(t, "policy")
        /\ \/ resolving[t].policy = 0 /\ Try(aliases[resolving[t].name])
           \/ resolving[t].policy = 1 /\ \E m \in close : Try(m)
           \/ resolving[t].policy = 1 /\ close = {} /\ registry # NoRegistry /\ Try(NoName)
           \/ resolving[t].policy = 1 /\ registry = NoRegistry /\ Goto(t, "raised")
        /\ ReadOnly

Verify(t) ==
    /\ Here(t, "verify")
    /\ \/ Registered(resolving[t].result) /\ Goto(t, "store")
       \/ /\ ~Registered(resolving[t].result)
          /\ \/ resolving[t].policy = 0 /\ Move(t, "policy", 1, NoName)
             \/ resolving[t].policy = 1 /\ Move(t, "miss", 2, NoName)
    /\ ReadOnly

Store(t) ==
    /\ Here(t, "store") /\ Answer(t, resolving[t].result)
    /\ cache' = [cache EXCEPT ![resolving[t].name] = resolving[t].result]
    /\ UNCHANGED missed /\ Alone

StoreMiss(t) ==
    /\ Here(t, "miss") /\ Answer(t, NoName)
    /\ missed' = [missed EXCEPT ![resolving[t].name] = "fresh"]
    /\ UNCHANGED cache /\ Alone

ResolveStep(t) ==
    \/ Look(t) \/ Cached(t) \/ Misses(t) \/ Aged(t) \/ Expire(t)
    \/ Policy(t) \/ Verify(t) \/ Store(t) \/ StoreMiss(t)
-----------------------------------------------------------------------------
\* The first statements of set_registry() and add_aliases(), and their second.
SetRegistry(r) ==
    /\ ~changing /\ changing' = TRUE
    /\ registry' = r
    /\ UNCHANGED <<tools, aliases, cache, missed, resolving>> /\ Remember

AddAlias(n, m) ==
    /\ ~changing /\ changing' = TRUE
    /\ aliases' = [aliases EXCEPT ![n] = m]
    /\ UNCHANGED <<tools, registry, cache, missed, resolving>> /\ Remember

ClearCache ==
    /\ changing /\ changing' = FALSE
    /\ cache' = [n \in Name |-> NoName]
    /\ past' = [n \in Name |-> [right |-> RightNow(n), raced |-> InFlight(n) # {},
                                 lacked |-> IF InFlight(n) # {} THEN "fresh" ELSE past[n].lacked]]
    /\ UNCHANGED <<tools, registry, aliases, missed, resolving>>

\* Five minutes pass.
Tick ==
    /\ \A t \in Thread : resolving[t].at = "idle"
    /\ missed' = [n \in Name |-> IF missed[n] = "fresh" THEN "old" ELSE missed[n]]
    /\ past' = [n \in Name |-> [right |-> past[n].right, raced |-> past[n].raced,
                                 lacked |-> IF RightNow(n) = {} THEN "fresh" ELSE "old"]]
    /\ UNCHANGED <<tools, registry, aliases, cache, changing, resolving>>
-----------------------------------------------------------------------------
\* A name is resolved as tools, aliases and registry are, or were since the cache
\* was last cleared; and it is not found only if at some moment of the last five
\* minutes there was nothing to find, or a change overtook a call of it.  Excepted
\* are answers in the middle of a change, and what clearing the cache overtook:
\* such an answer may be in the cache again.  A call that registrations overtook
\* may miss the alias and then find a close match (and keep it in the cache).
ResolutionIsCurrent ==
    \A t \in Thread :
       LET n == resolving[t].name IN
       resolving[t].at = "done" =>
          \/ changing \/ past[n].raced
          \/ resolving[t].result = NoName /\ past[n].lacked = "fresh"
          \/ resolving[t].result # NoName /\ resolving[t].result \in past[n].right

\* resolve(), whose exceptions take the whole batch with them, raises only while
\* other calls are at the same name, when a change overtakes it, or before the
\* resolver has a registry.
RaisesOnlyWhenShared ==
    \A t \in Thread :
       resolving[t].at = "raised" =>
          \/ resolving[t].met \/ past[resolving[t].name].raced
          \/ changing \/ registry = NoRegistry
=============================================================================
