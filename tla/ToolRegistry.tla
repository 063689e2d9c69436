---------------------------- MODULE ToolRegistry ----------------------------
(***************************************************************************)
(* agent_framework/tools.py: batches of tool calls on the thread pool of   *)
(* a ToolRegistry, with the registry that ToolLoader made and the resolver *)
(* that the registry shares with its views (for_role).                     *)
(*                                                                         *)
(* Executors are data: one returns or raises, which is the same to the     *)
(* batch.  The arguments of a call are an object with all that the tool    *)
(* requires, an object without, no JSON, or JSON that is no container      *)
(* (null, a number): every tool that has a path, a pattern or a command    *)
(* requires some.  The pool starts its threads when they are needed.       *)
(***************************************************************************)
EXTENDS ToolResolver, ToolLoader

CONSTANTS Caller,     \* agent loops, each with a batch at a time
          Uses,       \* the registry each of them was given
          Home,       \* the registry whose pool a thread is in
          Main, View, \* the registry that is loaded, and a view of it
          InRole,     \* the names of the tools with the view's role, or with none
          Ask,        \* what may be asked of the loader
          Served,     \* the sets of names that are then put to use
          Late,       \* the tools that may be registered later
          Batch,      \* the batches of calls
          Aliases,    \* the map of aliases at first
          Alias,      \* the tools that a name may come to be an alias of
          MaxBatches, MaxChanges, MaxTicks  \* bounds

Arguments == {"object", "partial", "null", "invalid"}

\* Overrides are a dict, no tool has the empty name, and every batch asks for names that are modelled.
ASSUME ToolAssumption ==
    /\ Uses \in [Caller -> Registry] /\ Home \in [Thread -> Registry]
    /\ {Main, View} \subseteq Registry /\ NoRegistry \notin Registry
    /\ NoName \notin Late \cup UNION Served
    /\ DOMAIN Aliases = Name
    /\ \A ask \in Ask : IsMapping(ask.overrides)
    /\ \A calls \in Batch : calls \in Seq([name : Name, arguments : Arguments])
    /\ {MaxBatches, MaxChanges, MaxTicks} \subseteq Nat

VARIABLES
    loading,  \* what was asked of the loader, and got; until the tools are used
    batch,    \* each caller's batch: which one it is, and its futures in the order of the calls
    got,      \* the results it has collected, or what execute() returned
    waiting,  \* it is inside execute()
    queue,    \* the work queue of each pool
    work,     \* what each thread took from the queue, and where it is with it
    budget    \* what is left of the bounds

batchVars == <<batch, got, waiting, queue, work>>
vars == <<resolverVars, loading, batchVars, budget>>

NotLoading == [ask |-> <<>>, loaded |-> NothingYet]
NoWork == [phase |-> "idle"]
Pending == [state |-> "pending", result |-> "none"]
Calls(c) == DOMAIN batch[c].futures
NextResult(c) == batch[c].futures[Len(got[c]) + 1]
More(c) == Len(got[c]) < Len(batch[c].futures)
Spend(what) == budget[what] > 0 /\ budget' = [budget EXCEPT ![what] = @ - 1]
-----------------------------------------------------------------------------
Init ==
    /\ ResolverInit /\ aliases = Aliases /\ registry \in {Main, NoRegistry}
    /\ \E ask \in Ask : loading = [ask |-> ask, loaded |-> Load(ask)]
    /\ batch = [c \in Caller |-> [round |-> 0, futures |-> <<>>]] /\ got = [c \in Caller |-> <<>>]
    /\ waiting = [c \in Caller |-> FALSE]
    /\ queue = [r \in Registry |-> <<>>] /\ work = [t \in Thread |-> NoWork]
    /\ budget = [batches |-> MaxBatches, changes |-> MaxChanges, ticks |-> MaxTicks]

\* The loaded registry and a view of it are put to use.
Serve ==
    /\ loading # NotLoading /\ loading' = NotLoading
    /\ ~loading.loaded.raised
    /\ LET names == Named(loading.loaded.tools) IN
       /\ names \in Served
       /\ tools' = [tools EXCEPT ![Main] = names, ![View] = names \cap InRole]
    /\ UNCHANGED <<registry, aliases, cache, missed, changing, resolving, batchVars, budget>>
    /\ Remember

Using == loading = NotLoading

\* A name that is there already is refused.
Register ==
    /\ Using /\ Spend("changes")
    /\ \E n \in Late \ tools[Main] : tools' = [tools EXCEPT ![Main] = @ \cup {n}]
    /\ UNCHANGED <<registry, aliases, cache, missed, changing, resolving, loading, batchVars>>
    /\ Remember

Reconfigure ==
    /\ Using /\ Spend("changes")
    /\ \/ \E r \in Registry \ {registry} : SetRegistry(r)
       \/ \E n \in Name : \E m \in Alias[n] \ {aliases[n]} : AddAlias(n, m)
    /\ UNCHANGED <<loading, batchVars>>

FinishChange == ClearCache /\ UNCHANGED <<loading, batchVars, budget>>

FiveMinutes == Using /\ Spend("ticks") /\ Tick /\ UNCHANGED <<loading, batchVars>>
-----------------------------------------------------------------------------
\* execute(): one future for each call, queued in their order.
Execute(c) ==
    /\ Using /\ ~waiting[c] /\ Spend("batches")
    /\ \E calls \in Batch :
          /\ batch' = [batch EXCEPT ![c] =
                [round |-> @.round + 1, futures |-> [i \in DOMAIN calls |-> Pending]]]
          /\ queue' = [queue EXCEPT ![Uses[c]] = @ \o
                [i \in DOMAIN calls |-> [caller |-> c, round |-> batch[c].round + 1,
                                         place |-> i, call |-> calls[i], phase |-> "queued"]]]
    /\ waiting' = [waiting EXCEPT ![c] = TRUE] /\ got' = [got EXCEPT ![c] = <<>>]
    /\ UNCHANGED <<resolverVars, loading, work>>

\* A call ends.  Nobody looks at the futures of a batch that was given up.
End(item, state, result) ==
    batch' = IF item.round # batch[item.caller].round THEN batch
             ELSE [batch EXCEPT ![item.caller] =
                [round |-> @.round,
                 futures |-> [@.futures EXCEPT ![item.place] = [state |-> state, result |-> result]]]]
Leave(t, state, result) == End(work[t], state, result) /\ work' = [work EXCEPT ![t] = NoWork]

\* A call that was cancelled is passed over.
Skip(t) ==
    /\ work[t] = NoWork /\ queue[Home[t]] # <<>>
    /\ Head(queue[Home[t]]).phase = "cancelled"
    /\ queue' = [queue EXCEPT ![Home[t]] = Tail(@)]
    /\ UNCHANGED <<resolverVars, loading, batch, got, waiting, work, budget>>

\* A thread takes the next call, looks at its arguments and at its name.
Take(t) ==
    LET item == Head(queue[Home[t]])
        Begin(phase) == work' = [work EXCEPT ![t] = [item EXCEPT !.phase = phase]]
        Valid == item.call.arguments # "invalid"
        Known == item.call.name \in tools[Home[t]]
    IN  /\ work[t] = NoWork /\ queue[Home[t]] # <<>> /\ item.phase = "queued"
        /\ queue' = [queue EXCEPT ![Home[t]] = Tail(@)]
        /\ \/ ~Valid /\ End(item, "done", "invalid") /\ UNCHANGED <<work, resolving>>
           \/ Valid /\ Known /\ Begin("running") /\ UNCHANGED <<batch, resolving>>
           \/ Valid /\ ~Known /\ Begin("resolving") /\ Resolve(t, item.call.name) /\ UNCHANGED batch
        /\ UNCHANGED <<tools, registry, aliases, cache, missed, changing, past,
                       loading, got, waiting, budget>>

\* Back from the resolver: the name must be in this registry too.
Resolved(t) ==
    /\ resolving[t].at \in {"done", "raised"}
    /\ resolving' = [resolving EXCEPT ![t] = Idle]
    /\ \/ resolving[t].at = "raised" /\ Leave(t, "failed", "resolver")
       \/ /\ resolving[t].at = "done" /\ resolving[t].result \notin tools[Home[t]]
          /\ Leave(t, "done", "not found")
       \/ /\ resolving[t].at = "done" /\ resolving[t].result \in tools[Home[t]]
          /\ work' = [work EXCEPT ![t].phase = "running"] /\ UNCHANGED batch
    /\ UNCHANGED <<tools, registry, aliases, cache, missed, changing, past,
                   loading, got, waiting, queue, budget>>

\* `key not in args` raises a TypeError outside the try; what the executor
\* raises, a signature without the context included, is an answer.
Run(t) ==
    /\ work[t].phase = "running"
    /\ \/ work[t].call.arguments = "object" /\ Leave(t, "done", "answered")
       \/ work[t].call.arguments = "partial" /\ Leave(t, "done", "missing")
       \/ work[t].call.arguments = "null" /\ Leave(t, "failed", "arguments")
    /\ UNCHANGED <<resolverVars, loading, got, waiting, queue, budget>>

Work(t) ==
    \/ Skip(t) \/ Take(t) \/ Resolved(t) \/ Run(t)
    \/ ResolveStep(t) /\ UNCHANGED <<loading, batchVars, budget>>

\* Mutant: results are taken as they come.
CollectAny(c) ==
    /\ waiting[c] /\ More(c)
    /\ \E i \in Calls(c) :
          /\ batch[c].futures[i].state = "done"
          /\ ~ \E j \in DOMAIN got[c] : got[c][j].place = i
          /\ got' = [got EXCEPT ![c] = Append(@, [place |-> i, result |-> batch[c].futures[i].result])]
    /\ UNCHANGED <<resolverVars, loading, batch, waiting, queue, work, budget>>

\* list(pool.map(...)): the results one after the other.
Collect(c) ==
    /\ waiting[c] /\ More(c) /\ NextResult(c).state = "done"
    /\ got' = [got EXCEPT ![c] = Append(@, [place |-> Len(@) + 1, result |-> NextResult(c).result])]
    /\ UNCHANGED <<resolverVars, loading, batch, waiting, queue, work, budget>>

Return(c) ==
    /\ waiting[c] /\ ~More(c)
    /\ waiting' = [waiting EXCEPT ![c] = FALSE]
    /\ UNCHANGED <<resolverVars, loading, batch, got, queue, work, budget>>

\* Mutant: a batch that is given up leaves its calls in the queue.
RaiseOnly(c) ==
    /\ waiting[c] /\ More(c) /\ NextResult(c).state = "failed"
    /\ waiting' = [waiting EXCEPT ![c] = FALSE] /\ got' = [got EXCEPT ![c] = <<>>]
    /\ UNCHANGED <<resolverVars, loading, batch, queue, work, budget>>

Cancelled(item, c) == IF item.caller = c THEN [item EXCEPT !.phase = "cancelled"] ELSE item

\* A future that failed ends the batch: the results are lost, the calls that
\* are still queued are cancelled, and those at work go on.
Raise(c) ==
    /\ waiting[c] /\ More(c) /\ NextResult(c).state = "failed"
    /\ waiting' = [waiting EXCEPT ![c] = FALSE] /\ got' = [got EXCEPT ![c] = <<>>]
    /\ queue' = [queue EXCEPT ![Uses[c]] = [i \in DOMAIN @ |-> Cancelled(@[i], c)]]
    /\ UNCHANGED <<resolverVars, loading, batch, work, budget>>

Next ==
    \/ Serve \/ Register \/ Reconfigure \/ FinishChange \/ FiveMinutes
    \/ \E t \in Thread : Work(t)
    \/ \E c \in Caller : Execute(c) \/ Collect(c) \/ Return(c) \/ Raise(c)

Spec == Init /\ [][Next]_vars
-----------------------------------------------------------------------------
\* Loading raises exactly when a tool that was asked for by name does not fit the
\* sandbox or the host.  Otherwise the registry has each wanted tool that loads
\* and fits, once, and an override of a default in its place.
LoadedAsAsked == Using \/ RightlyLoaded(loading.ask, loading.loaded)

\* The items of a caller's batches that are still queued or at work.
Open(c) ==
    {item \in UNION ({ToSet(queue[r]) : r \in Registry} \cup {{work[t] : t \in Thread} \ {NoWork}}) :
        item.caller = c /\ item.phase # "cancelled"}

\* While a caller waits, what it waits for is queued or at work, and what is
\* queued is for somebody who waits: nobody hangs, and a batch that was given
\* up leaves no calls behind that have not begun.  What execute() returns has
\* an answer for each call, in the calls' order, and nothing of the batch goes
\* on after it.
BatchAnsweredInOrder ==
    \A c \in Caller :
       LET mine == {item \in Open(c) : item.round = batch[c].round} IN
       /\ waiting[c] => {item.place : item \in mine} =
                            {i \in Calls(c) : batch[c].futures[i] = Pending}
       /\ \A item \in Open(c) : item.phase = "queued" => waiting[c] /\ item \in mine
       /\ ~waiting[c] /\ got[c] # <<>> =>
             /\ mine = {}
             /\ got[c] = [i \in Calls(c) |-> [place |-> i, result |-> batch[c].futures[i].result]]
=============================================================================
