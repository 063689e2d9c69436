--------------------------- MODULE WorkerManager ---------------------------
(***************************************************************************)
(* agent_framework/worker_manager.py: a batch of tasks run on a thread     *)
(* pool, every worker taking a provider from the shared ModelPool and      *)
(* giving it back in a finally clause.  The main thread submits the tasks  *)
(* in order of priority, collects the futures as they complete and returns *)
(* the results ordered by task id.                                         *)
(*                                                                         *)
(* The agent loop a worker runs is one step here (AgentLoop models it): it *)
(* returns a text, or raises.  The pool is ModelPool; its clients are the  *)
(* workers and the outsiders, other users of the same pool.                *)
(***************************************************************************)
EXTENDS ModelPool

CONSTANTS Task,          \* the WorkerTask objects a caller may submit
          TaskId,        \* WorkerTask.task_id, [Task -> Nat]
          TaskPriority,  \* WorkerTask.priority, [Task -> Int]
          MaxParallel,   \* WorkerManager.max_parallel
          Outsider       \* other threads that route through the pool

VARIABLES caller,    \* what the thread in execute() is doing
          batch,     \* the tasks of the current execute()
          unsent,    \* sorted_tasks not yet submitted
          queue,     \* the executor's work queue
          stage,     \* [Task -> where its worker is]
          outcome,   \* [Task -> the WorkerResult its future will carry]
          collected, \* the futures as_completed() has yielded
          results,   \* the dict results, task_id -> the task it came from
          returned   \* what the last execute() returned

mainVars == <<caller, batch, unsent, collected, results, returned>>
workVars == <<queue, stage, outcome>>
vars == <<poolVars, mainVars, workVars>>

ASSUME ManagerAssumption ==
    /\ Client = Task \cup Outsider /\ Task \cap Outsider = {}
    /\ TaskId \in [Task -> Nat]
    /\ TaskPriority \in [Task -> Int]
    /\ MaxParallel \in Nat \ {0}

Stage == {"new", "unsent", "queued", "routing", "running", "releasing", "done"}
Outcome == {"none", "success", "failed", "refused"}

Working == {t \in Task : stage[t] \in {"routing", "running", "releasing"}}
Ids(T) == {TaskId[t] : t \in T}
-----------------------------------------------------------------------------
Init ==
    /\ PoolInit
    /\ caller = "idle"
    /\ batch = {} /\ unsent = <<>> /\ collected = {}
    /\ results = <<>> /\ returned = <<>>
    /\ queue = <<>>
    /\ stage = [t \in Task |-> "new"]
    /\ outcome = [t \in Task |-> "none"]

\* The lists that sorted(tasks, key=priority) makes of the tasks in T, for
\* every order the caller may have given them in.
SortedLists(T) ==
    {s \in [1..Cardinality(T) -> T] :
        \A i, j \in 1..Cardinality(T) :
            i < j => s[i] # s[j] /\ TaskPriority[s[i]] <= TaskPriority[s[j]]}

\* The pool is set up before the manager works with it.
Configure(p) ==
    /\ caller = "idle" /\ Idle
    /\ AddSlot(p)
    /\ UNCHANGED <<mainVars, workVars>>

\* execute(): an empty list returns at once and is left out.
Execute(T) ==
    /\ caller = "idle"
    /\ T # {} /\ \A t \in T : stage[t] = "new"
    /\ caller' = "submitting"
    /\ batch' = T
    /\ unsent' \in SortedLists(T)
    /\ stage' = [t \in Task |-> IF t \in T THEN "unsent" ELSE stage[t]]
    /\ collected' = {} /\ results' = <<>>
    /\ UNCHANGED <<poolVars, returned, queue, outcome>>

Submit ==
    /\ caller = "submitting" /\ unsent # <<>>
    /\ queue' = Append(queue, Head(unsent))
    /\ stage' = [stage EXCEPT ![Head(unsent)] = "queued"]
    /\ unsent' = Tail(unsent)
    /\ caller' = IF Len(unsent) = 1 THEN "collecting" ELSE caller
    /\ UNCHANGED <<poolVars, batch, collected, results, returned, outcome>>

Threads == IF MaxParallel <= Cardinality(batch) THEN MaxParallel ELSE Cardinality(batch)

\* A pool thread takes the next work item.
Start(t) ==
    /\ queue # <<>> /\ Head(queue) = t
    /\ Cardinality(Working) < Threads
    /\ queue' = Tail(queue)
    /\ stage' = [stage EXCEPT ![t] = "routing"]
    /\ UNCHANGED <<poolVars, mainVars, outcome>>

Routed(t) ==
    /\ stage[t] = "routing"
    /\ Route(t)
    /\ stage' = [stage EXCEPT ![t] = "running"]
    /\ UNCHANGED <<mainVars, queue, outcome>>

\* Mutant: a refused worker tries again instead of failing.
RefusedRetries(t) ==
    /\ stage[t] = "routing"
    /\ Refuse(t)
    /\ UNCHANGED <<mainVars, workVars>>

\* route() raises: a failed result, and nothing to release.
Refused(t) ==
    /\ stage[t] = "routing"
    /\ Refuse(t)
    /\ stage' = [stage EXCEPT ![t] = "done"]
    /\ outcome' = [outcome EXCEPT ![t] = "refused"]
    /\ UNCHANGED <<mainVars, queue>>

\* Mutant: the slot is released on the success path only.
FinishWithoutFinally(t) ==
    /\ stage[t] = "running"
    /\ \E o \in {"success", "failed"} :
          /\ outcome' = [outcome EXCEPT ![t] = o]
          /\ stage' = [stage EXCEPT ![t] = IF o = "failed" THEN "done" ELSE "releasing"]
    /\ UNCHANGED <<poolVars, mainVars, queue>>

\* The agent loop returns a text, or it (or the tool filter) raises.
Finish(t) ==
    /\ stage[t] = "running"
    /\ stage' = [stage EXCEPT ![t] = "releasing"]
    /\ \E o \in {"success", "failed"} : outcome' = [outcome EXCEPT ![t] = o]
    /\ UNCHANGED <<poolVars, mainVars, queue>>

\* The finally clause, after which the future is done.
GiveBack(t) ==
    /\ stage[t] = "releasing"
    /\ Release(t)
    /\ stage' = [stage EXCEPT ![t] = "done"]
    /\ UNCHANGED <<mainVars, queue, outcome>>

\* Mutant: only successes are filed.
CollectSuccesses(t) ==
    /\ caller = "collecting"
    /\ t \in batch \ collected /\ stage[t] = "done"
    /\ collected' = collected \cup {t}
    /\ results' = IF outcome[t] = "success"
                  THEN [i \in DOMAIN results \cup {TaskId[t]} |->
                           IF i = TaskId[t] THEN t ELSE results[i]]
                  ELSE results
    /\ UNCHANGED <<poolVars, caller, batch, unsent, returned, workVars>>

Collect(t) ==
    /\ caller = "collecting"
    /\ t \in batch \ collected /\ stage[t] = "done"
    /\ collected' = collected \cup {t}
    /\ results' = [i \in DOMAIN results \cup {TaskId[t]} |->
                      IF i = TaskId[t] THEN t ELSE results[i]]
    /\ UNCHANGED <<poolVars, caller, batch, unsent, returned, workVars>>

Return ==
    /\ caller = "collecting" /\ collected = batch
    /\ caller' = "idle"
    /\ returned' = [k \in 1..Cardinality(DOMAIN results) |->
                       results[CHOOSE i \in DOMAIN results :
                           Cardinality({j \in DOMAIN results : j <= i}) = k]]
    /\ UNCHANGED <<poolVars, batch, unsent, collected, results, workVars>>

OutsiderStep(o) ==
    /\ Route(o) \/ Refuse(o) \/ Release(o)
    /\ UNCHANGED <<mainVars, workVars>>

WorkerStep(t) ==
    Start(t) \/ Routed(t) \/ Refused(t) \/ Finish(t) \/ GiveBack(t)

MainStep == Submit \/ (\E t \in Task : Collect(t)) \/ Return

Next == \/ \E p \in Provider : Configure(p)
        \/ \E T \in SUBSET Task : Execute(T)
        \/ MainStep
        \/ \E t \in Task : WorkerStep(t)
        \/ \E o \in Outsider : OutsiderStep(o)

Spec == Init /\ [][Next]_vars

\* The main thread and every worker thread keep running (a call of the agent
\* loop ends: its turns and its provider's retries are bounded).  Nothing is
\* assumed of the outsiders.
FairSpec == Spec /\ WF_vars(MainStep) /\ \A t \in Task : WF_vars(WorkerStep(t))
-----------------------------------------------------------------------------
ManagerTypeOK ==
    /\ TypeOK
    /\ caller \in {"idle", "submitting", "collecting"}
    /\ batch \subseteq Task /\ collected \subseteq batch
    /\ unsent \in Seq(Task) /\ queue \in Seq(Task)
    /\ stage \in [Task -> Stage]
    /\ outcome \in [Task -> Outcome]
    /\ DOMAIN results = Ids(collected)
    /\ \A i \in DOMAIN results : results[i] \in collected /\ TaskId[results[i]] = i

\* A worker holds a provider exactly while it runs its loop: no path through
\* _execute_worker, refusal and exceptions included, keeps or loses a lease.
LeaseWhileRunning ==
    \A t \in Task : Holds(t) <=> stage[t] \in {"running", "releasing"}

\* When execute() has returned nothing of its batch is left behind: no queued
\* task, no running worker, no lease.
NothingLeftBehind ==
    caller = "idle" =>
        /\ queue = <<>> /\ Working = {}
        /\ \A t \in Task : ~Holds(t)

\* The returned list holds, in increasing order of id, one finished task of
\* the batch for every id in the batch ("List of worker results, ordered by
\* task_id").  With distinct ids that is every task.
EveryTaskAccounted ==
    caller = "idle" =>
        /\ \A t \in batch : \E k \in DOMAIN returned : TaskId[returned[k]] = TaskId[t]
        /\ \A k \in DOMAIN returned :
              /\ returned[k] \in batch /\ stage[returned[k]] = "done"
              /\ outcome[returned[k]] # "none"
        /\ \A k, l \in DOMAIN returned :
              k < l => TaskId[returned[k]] < TaskId[returned[l]]

\* A worker is refused only when the pool is too small for what is asked of
\* it: other workers that may hold a provider, and the outsiders that do,
\* leave no room in the total capacity.
RefusedOnlyWhenOversubscribed ==
    [][\A t \in Task :
         (outcome'[t] = "refused" /\ outcome[t] # "refused") =>
            TotalCapacity
              < Threads + Cardinality({o \in Outsider : Holds(o)})]_vars

\* The manager and the outsiders use the pool as ModelPool asks, so what is
\* proved of the configured pool holds here.
UsesConfiguredPool == ConfiguredSpec

\* execute() returns, whatever the workers run into and even if outsiders
\* never give a provider back: route() refuses, it does not wait.
BatchReturns == (caller # "idle") ~> (caller = "idle")
=============================================================================
