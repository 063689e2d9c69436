------------------------------ MODULE GPUJobs ------------------------------
(***************************************************************************)
(* agent_framework/sandbox/gpu_jobs.py: GPUManager starts each job as a    *)
(* worker process that runs the script in a process of its own, and        *)
(* watches it from a thread.  Callers kill jobs and clean up old records   *)
(* while the monitors run; these three take the manager's lock.  get_job   *)
(* and list_jobs do not, and hand out the record as it is: so every        *)
(* assignment to a record is a step of its own, and what is said of a      *)
(* status is said of every state between two.  spawn_job takes no lock.    *)
(***************************************************************************)
EXTENDS Naturals, Sequences, FiniteSets, SequencesExt

CONSTANTS Job,        \* the job ids that spawn_job will make up
          MaxRetained \* max_retained_jobs

ASSUME GPUJobsAssumption == MaxRetained \in Nat

VARIABLES
    status,    \* active_jobs: GPUJob.status; "none" and "forgotten" are not in it
    processes, \* the keys of _processes
    monitor,   \* what each job's monitor thread does next
    killer,    \* what a call of kill_job has still to do for the job
    stdout,    \* GPUJob.stdout: how much it holds of what the script prints
    stderr,    \* and GPUJob.stderr
    ended,     \* the jobs that were given an end_time, in that order
    worker,    \* how each worker process ended
    script,    \* and each script's
    missed     \* the jobs that were killed before their process was in _processes

record == <<status, stdout, stderr, ended>>
threads == <<monitor, killer, processes>>
system == <<worker, script>>
jobVars == <<record, threads, system, missed>>

Finished == {"completed", "failed", "killed"}
Exit == {"ok", "error"}
Reporting == {"stamp", "stdout", "stderr"}
-----------------------------------------------------------------------------
JobInit ==
    /\ status = [j \in Job |-> "none"] /\ processes = {}
    /\ monitor = [j \in Job |-> "none"] /\ killer = [j \in Job |-> "none"]
    /\ stdout = [j \in Job |-> "none"] /\ stderr = [j \in Job |-> "none"]
    /\ ended = <<>> /\ missed = {}
    /\ worker = [j \in Job |-> "none"] /\ script = [j \in Job |-> "none"]

\* spawn_job(): the process starts, ...
Start(j) ==
    /\ worker[j] = "none"
    /\ worker' = [worker EXCEPT ![j] = "running"]
    /\ UNCHANGED <<record, threads, script, missed>>

\* ... then the job can be found, and killed, by other threads, ...
Register(j) ==
    /\ worker[j] # "none" /\ status[j] = "none"
    /\ status' = [status EXCEPT ![j] = "running"]
    /\ UNCHANGED <<stdout, stderr, ended, threads, system, missed>>

\* ... then its process can be, and the monitor starts.
Watch(j) ==
    /\ status[j] # "none" /\ monitor[j] = "none"
    /\ processes' = processes \cup {j}
    /\ monitor' = [monitor EXCEPT ![j] = "watching"]
    /\ UNCHANGED <<record, killer, system, missed>>

\* _run_gpu_job(): subprocess.run starts the script ...
RunScript(j) ==
    /\ worker[j] = "running" /\ script[j] = "none"
    /\ script' = [script EXCEPT ![j] = "running"]
    /\ UNCHANGED <<record, threads, worker, missed>>

\* ... which ends, whether or not its worker is still there, ...
ScriptEnds(j) ==
    /\ script[j] = "running"
    /\ \E how \in Exit : script' = [script EXCEPT ![j] = how]
    /\ UNCHANGED <<record, threads, worker, missed>>

\* ... and the worker ends the way the script did; with an error when it could
\* not run the script, or not write the file with its exit status.
WorkerEnds(j) ==
    /\ worker[j] = "running" /\ script[j] # "running"
    /\ \E how \in {"error"} \cup ({script[j]} \cap Exit) :
          worker' = [worker EXCEPT ![j] = how]
    /\ UNCHANGED <<record, threads, script, missed>>

\* The system kills the worker (out of memory).
WorkerDies(j) ==
    /\ worker[j] = "running"
    /\ worker' = [worker EXCEPT ![j] = "died"]
    /\ UNCHANGED <<record, threads, script, missed>>

\* Nobody is inside one of the blocks under _lock.
Free == \A j \in Job : monitor[j] \notin Reporting /\ killer[j] = "none"

Conclude(j) ==
    /\ status' = [status EXCEPT ![j] = IF worker[j] = "ok" THEN "completed" ELSE "failed"]
    /\ monitor' = [monitor EXCEPT ![j] = "stamp"]

Leave(j) ==
    /\ monitor' = [monitor EXCEPT ![j] = "done"]
    /\ UNCHANGED status

\* Mutant: the status of a job that was killed is overwritten.
DecideAnyway(j) ==
    /\ monitor[j] = "watching" /\ worker[j] # "running" /\ Free
    /\ IF status[j] = "forgotten" THEN Leave(j) ELSE Conclude(j)
    /\ UNCHANGED <<stdout, stderr, ended, killer, processes, system, missed>>

\* Mutant: one join with a timeout in place of the loop around it.
DecideEarly(j) ==
    /\ monitor[j] = "watching" /\ Free
    /\ IF status[j] \in {"killed", "forgotten"} THEN Leave(j) ELSE Conclude(j)
    /\ UNCHANGED <<stdout, stderr, ended, killer, processes, system, missed>>

\* Mutant: no report of a worker that was ended by a signal.
DecideUnlessSignal(j) ==
    /\ monitor[j] = "watching" /\ worker[j] # "running" /\ Free
    /\ IF status[j] \in {"killed", "forgotten"} \/ worker[j] = "died" THEN Leave(j) ELSE Conclude(j)
    /\ UNCHANGED <<stdout, stderr, ended, killer, processes, system, missed>>

\* _monitor_job(): when the worker has ended, a job that is still recorded and
\* was not killed gets its status, ...
Decide(j) ==
    /\ monitor[j] = "watching" /\ worker[j] # "running" /\ Free
    /\ IF status[j] \in {"killed", "forgotten"} THEN Leave(j) ELSE Conclude(j)
    /\ UNCHANGED <<stdout, stderr, ended, killer, processes, system, missed>>

\* ... then its exit code and end time, ...
Stamp(j) ==
    /\ monitor[j] = "stamp"
    /\ ended' = Append(ended, j)
    /\ monitor' = [monitor EXCEPT ![j] = "stdout"]
    /\ UNCHANGED <<status, stdout, stderr, killer, processes, system, missed>>

\* What a log has by now of all that the script prints to it.
Printed(j) == IF script[j] = "running" THEN "part" ELSE IF script[j] = "none" THEN "none" ELSE "all"

\* ... then what the script has printed so far, one log after the other.
ReadStdout(j) ==
    /\ monitor[j] = "stdout"
    /\ stdout' = [stdout EXCEPT ![j] = Printed(j)]
    /\ monitor' = [monitor EXCEPT ![j] = "stderr"]
    /\ UNCHANGED <<status, stderr, ended, killer, processes, system, missed>>

ReadStderr(j) ==
    /\ monitor[j] = "stderr"
    /\ stderr' = [stderr EXCEPT ![j] = Printed(j)]
    /\ monitor' = [monitor EXCEPT ![j] = "done"]
    /\ UNCHANGED <<status, stdout, ended, killer, processes, system, missed>>

\* A log that is not text makes read_text() raise: the thread ends there.
ReadRaises(j) ==
    /\ monitor[j] \in {"stdout", "stderr"} /\ Printed(j) # "none"
    /\ monitor' = [monitor EXCEPT ![j] = "raised"]
    /\ UNCHANGED <<record, killer, processes, system, missed>>

\* kill_job(): the worker is killed, and waited for, if there is one in
\* _processes; the script's process is not.  Then the record says so.
Kill(j) ==
    /\ status[j] = "running" /\ Free
    /\ worker' = [worker EXCEPT ![j] = IF j \in processes /\ @ = "running" THEN "killed" ELSE @]
    /\ missed' = missed \cup ({j} \ processes)
    /\ killer' = [killer EXCEPT ![j] = "status"]
    /\ UNCHANGED <<record, monitor, processes, script>>

NameKilled(j) ==
    /\ killer[j] = "status"
    /\ status' = [status EXCEPT ![j] = "killed"]
    /\ killer' = [killer EXCEPT ![j] = "stamp"]
    /\ UNCHANGED <<stdout, stderr, ended, monitor, processes, system, missed>>

StampKilled(j) ==
    /\ killer[j] = "stamp"
    /\ ended' = Append(ended, j)
    /\ killer' = [killer EXCEPT ![j] = "none"]
    /\ UNCHANGED <<status, stdout, stderr, monitor, processes, system, missed>>

Forget(jobs) ==
    /\ status' = [j \in Job |-> IF j \in jobs THEN "forgotten" ELSE status[j]]
    /\ processes' = processes \ jobs
    /\ UNCHANGED <<stdout, stderr, ended, monitor, killer, system, missed>>

Retained == SelectSeq(ended, LAMBDA j : status[j] # "forgotten")

\* cleanup(): the oldest finished jobs, down to max_retained_jobs.
Cleanup ==
    /\ Free /\ Len(Retained) > MaxRetained
    /\ Forget({Retained[i] : i \in 1..Len(Retained) - MaxRetained})

\* cleanup(max_age_hours): those that ended before some time.
CleanupByAge ==
    /\ Free
    /\ \E n \in 1..Len(Retained) : Forget({Retained[i] : i \in 1..n})

Spawning(j) == Register(j) \/ Watch(j)
Running(j) == RunScript(j) \/ ScriptEnds(j) \/ WorkerEnds(j)
Monitor(j) == Decide(j) \/ Stamp(j) \/ ReadStdout(j) \/ ReadStderr(j) \/ ReadRaises(j)
Killing(j) == NameKilled(j) \/ StampKilled(j)

JobNext ==
    \/ \E j \in Job : Start(j) \/ Spawning(j) \/ Running(j) \/ WorkerDies(j)
                      \/ Monitor(j) \/ Kill(j) \/ Killing(j)
    \/ Cleanup \/ CleanupByAge

JobSpec == JobInit /\ [][JobNext]_jobVars

\* Calls of spawn_job and kill_job go on once they have begun, scripts end, and
\* monitors run.
FairJobSpec ==
    /\ JobSpec
    /\ \A j \in Job : /\ WF_jobVars(Spawning(j)) /\ WF_jobVars(Running(j))
                      /\ WF_jobVars(Monitor(j)) /\ WF_jobVars(Killing(j))
-----------------------------------------------------------------------------
Stamped == ToSet(ended)

JobTypeOK ==
    /\ \A j \in Job :
          /\ status[j] \in Finished \cup {"none", "running", "forgotten"}
          /\ worker[j] \in Exit \cup {"none", "running", "killed", "died"}
          /\ script[j] \in Exit \cup {"none", "running"}
          /\ monitor[j] \in Reporting \cup {"none", "watching", "done", "raised"}
          /\ killer[j] \in {"none", "status", "stamp"}
          /\ stdout[j] = "none" => stderr[j] = "none"
          /\ Free => (status[j] \in Finished => j \in Stamped)
    /\ \A j \in processes : status[j] # "none" /\ monitor[j] # "none"

\* Whoever looks, without the lock and between any two assignments: a job that
\* is completed had a worker and a script that ended well, the worker of one
\* that failed has ended otherwise and not by kill_job, and that of a killed one
\* runs no more, unless it was killed too early (gpu_jobs.py:235).  The output
\* comes after the status; once the monitor is through with it, it is all the
\* script printed, however the worker ended by itself.
StatusIsTrue ==
    \A j \in Job :
        /\ status[j] = "completed" => worker[j] = "ok" /\ script[j] = "ok"
        /\ status[j] = "failed" => worker[j] \in {"error", "died"}
        /\ status[j] = "killed" => worker[j] # "running" \/ j \in missed
        /\ monitor[j] = "done" /\ status[j] \in {"completed", "failed"} /\ worker[j] \in Exit =>
              /\ stdout[j] = IF script[j] = "none" THEN "none" ELSE "all"
              /\ stderr[j] = stdout[j]

\* The first of kill_job and the monitor to finish a job has the last word on
\* its status and end time ("If already killed by kill_job(), don't overwrite
\* status").
FinishedOnce ==
    [][\A j \in Job :
          /\ status[j] \in Finished => status'[j] \in {status[j], "forgotten"}
          /\ j \in Stamped => ~\E i \in DOMAIN ended' \ DOMAIN ended : ended'[i] = j]_jobVars

\* A spawned job is finished in the end, even when its worker is killed from
\* outside or while spawn_job is still at work.
EveryJobFinishes == \A j \in Job : (worker[j] # "none") ~> (status[j] \in Finished \cup {"forgotten"})

=============================================================================
