# serac: a TLA+ verification project

serac (`agent_framework/`) runs language-model agents: an orchestrator splits a
goal into tasks, a worker manager runs them on a thread pool against a pool of
model providers, each worker is an agent loop that alternates model calls and
tool calls, and the tools reach a sandbox (a server process in a container), a
GPU job manager, a task queue, a todo list and a memory store. This directory
models those parts in TLA+, checks them with TLC and proves theorems about the
central ones with TLAPS.

## Inventory

| part | source | state it keeps | operations | hard behaviour |
|---|---|---|---|---|
| model pool | `model_pool.py` | sorted slot list, active count per slot index | add_slot, route, release, capacities | many threads route and release; adding a slot renumbers the others |
| worker manager | `worker_manager.py` | work queue, futures, results by task id | execute, decompose, one worker | parallel workers, failures at every step, no waiting for capacity |
| agent loop | `loop.py` | message list, turn and token counts, steering inbox, finalization flag | run, tool batch, compaction, finalization | several limits racing each other, messages steered in from another thread |
| retry | `retry.py` | attempt counter | retry_call, classify_exception | which failures are retried, how often |
| providers | `providers.py` | response chaining of the Responses API, usage | chat, reset_conversation | what a chained request leaves out, stale chain ids |
| tools | `tools.py`, `tool_resolver.py`, `tool_loader.py` | registry, name caches, shared thread pool | register, execute, resolve, load | a batch of tools runs concurrently; caches outlive the registry they were filled from |
| built-in tools | `builtins.py`, `docker_sandbox.py`, `tool_security.py` | files, `sys.stdout`, one script path per sandbox | read/write/patch file, execute_python, web tools | tools of one batch share files and process state |
| memory | `memory.py` | SQLite tables and full-text index | save, supersede, delete, search | several locked steps make one search; chains of superseding entries |
| todo list | `todo.py`, `todo_backends.py` | a JSON file | add, update, delete, reorder, clear, set | read-modify-write without a lock, one shared temporary file |
| sessions | `session.py` | one JSON file per session | create, append, compaction points, recall, search | read-modify-write without a lock, one temporary file that is renamed shared by all writers |
| consult and dispatch | `consult.py`, `dispatch.py` | session files | consult, dispatch_agent | two calls on one session |
| sandbox RPC | `sandbox/client.py`, `sandbox/transport.py`, `sandbox/server.py` | one byte stream per client, server loop flag | request, exec, shutdown | a client timeout while the answer is on its way |
| GPU jobs | `sandbox/gpu_jobs.py` | job records, processes, monitor threads | spawn, kill, get, list, cleanup | kill racing exit racing the monitor, records read without the lock |
| task queue | `sandbox/task_queue.py` | a markdown file and a jsonl file | add, claim, complete | several processes, `flock`, a crash between two writes, lines cut short |
| code history | `sandbox/code_history.py` | a jsonl file, id counter | record, list, export | a crash inside an append, a restart that loads what is left |
| experiments | `sandbox/experiments.py` | an SQLite table | log, list, best | one transaction per operation, so little; the choice among ties |
| tracing | `tracing.py` | span tree, current span in a context variable | start, finish | parents across threads |
| sanitizer | `sanitize.py` | none | sanitize | verdict when the judge fails |
| sandbox launching | `research_sandbox.py`, `research_launch`, `llm_proxy.py` | a container, a TCP port | start, stop, request | pure I/O |
| model targets | `model_targets.py` | none | parse, build | configuration parsing |

How the parts interact. `WorkerManager.execute` runs one `AgentLoop` per task
on a thread pool and takes a provider from the shared `ModelPool` for each.
An `AgentLoop` calls `provider.chat`, tells the provider when a conversation
starts (`reset_conversation`), executes tool batches through a `ToolRegistry`,
saves what it compacts away in a `SessionStore`, and reads a steering queue
that other threads fill. Tools of an agent reach the sandbox server through a
`SandboxClient`, and the task queue, todo list, memory and GPU manager through
files, a database and processes that several agents share. `consult` and
`dispatch_agent` are entry points that run one loop and keep a session file.

What makes each part correct, in a sentence:

- model pool: no provider serves more clients than configured, and no unit is
  ever lost;
- worker manager: every task is answered for, every lease is given back, and
  the batch ends;
- agent loop: whatever limit strikes first, the requests stay legal
  conversations, no limit is overrun, and the text returned is the last one;
- providers and retry: what a chained request leaves out is what the service
  has, also when an answer was lost and the call is made again;
- tools: a batch that returns has an answer for each call in order, a name is
  resolved by what is configured, and what is loaded is what was asked for;
- built-in tools: a call that meets no other does exactly what it says, whatever
  an earlier one left running;
- memory: the index agrees with the table, and a search returns what was to be
  found while it ran;
- sandbox: a call returns the answer to its own request, and comes back;
- code history: what was recorded is there after a crash;
- GPU jobs: a status is the truth about the processes, and final;
- task queue: one agent per idea, in the order pending, testing, finished;
- todo list, sessions: a call takes effect as a whole or not at all, and calls
  that do not overlap lose nothing.

## Modules

Each part has a module of its own with `Init`, one action per operation or
step, `Next` and `Spec`; `FairSpec` adds fairness where a liveness property
needs it. Mutated forms of an action or operator (marked "Mutant") stand before
the original and are in no specification; they document which bug each property
would notice.

| module | models | state against the code |
|---|---|---|
| `ProviderLeases` | what the model pool promises | abstract: who holds which provider |
| `ModelPool` | `model_pool.py` | `slots` is `_slots`, `active` is `_active_counts`, `lease` the `PoolRoutingResult` each client has in hand |
| `WorkerManager` | `worker_manager.py`; extends `ModelPool` | `queue` is the executor's work queue, `stage` where a worker is in `_execute_worker`, `results` the dict of the same name |
| `AgentLoop` | `loop.py` | variables named after `self.messages`, `turn_count`, `total_usage` (`used`), `finalization_attempted` (`attempted`), `steering_queue` (`inbox`); `pc` is the place in `_run_loop` |
| `Retry` | `retry.py`, as operators | an exception is its status and what its text says |
| `ResponsesChain` | the Responses mode of `providers.py`, driven by reduced agent loops; extends `Retry` | `chain` is the id, key, count and instructions on the provider object; `stored` is what the service keeps |
| `ToolLoader` | `tool_loader.py`, as operators | a configuration is a sequence of keys and specifications, with an empty place for each default that is not selected and each override that stands in a default's place |
| `ToolResolver` | `tool_resolver.py` | `cache` and `missed` are `_cache` and `_miss_cache`, `resolving` where each thread is in `resolve` |
| `ToolRegistry` | `tools.py`; extends `ToolLoader` and `ToolResolver` | `queue` and `work` are the thread pools' queues and threads, `batch` the futures of each caller |
| `Workspace` | `docker_sandbox.py` and the tools of `builtins.py` that use it | `client` the caller of each tool, `box` its container, `script` and `file` what all containers share |
| `Memory` | `memory.py` | `table` and `index` are `memories` and `memories_fts`, `lastRow` the autoincrement counter, `search` the locals of a search under way |
| `TmpFile` | how both file stores save: a temporary file of a fixed name, renamed | `live`, `tmp` the inodes at the two paths, `handle` the inode a writer has open |
| `TodoStore` | `todo.py`, `FileTodoStore` of `todo_backends.py`; extends `TmpFile` | `todo` the stage of a call, `plan` the list it is about to save |
| `SessionStore` | `session.py` and the saving in `loop.py`'s `_self_compact`; extends `TmpFile` | `left` the entries a loop has still to append, `plan` the content it is about to save |
| `Delegation` | `consult.py`, `dispatch.py`; extends `TodoStore` | `file` the session file, `history` the local variable |
| `CodeHistory` | `sandbox/code_history.py` | `cells`, `nextId` are `_entries`, `_next_id`; `file` the appends, torn ones included |
| `SandboxServer` | `sandbox/client.py`, `transport.py`, `server.py`; extends `CodeHistory` | `conns` the two directions of each stream, `link` the client's transport, `midFrame` a read between length and payload |
| `GPUJobs` | `sandbox/gpu_jobs.py` | `status`, `stdout`, `stderr`, `ended` are the fields of the records in `active_jobs`, `processes` is `_processes`; `monitor` and `killer` say what a monitor thread and a `kill_job` have still to assign; `worker` and `script` are the two operating system processes |
| `TaskQueue` | `sandbox/task_queue.py` | `table` (the rows by their idea) and `journal` (whole and partial lines; `sidecar`: it exists) are the two files, `garbled` those that end within a character, `holder` the `flock` |

Eight modules hold the theorems:

| proofs | of |
|---|---|
| `WorkerManagerProofs` | `ModelPool` and its refinement of `ProviderLeases`, `WorkerManager` |
| `AgentLoopProofs` | `AgentLoop` |
| `ChainProofs` | `ResponsesChain` |
| `ToolProofs` | `ToolResolver`, `ToolRegistry`, `ToolLoader`, `Workspace` |
| `StoreProofs` | `SessionStore`, `Memory` |
| `DelegationProofs` | `TodoStore`, `Delegation` |
| `SandboxProofs` | `CodeHistory`, `SandboxServer`, `GPUJobs` |
| `TaskQueueProofs` | `TaskQueue` |

`GPUJobs`, `Memory` and `Workspace` share a proof module with another component
and so have names of their own for the usual ones (`JobSpec`, `MemorySpec`,
`WorkspaceSpec`, and so on). The `MC...` modules and their `.cfg` files are the
instances that TLC checks.

A step is what nothing else can come between. In `ModelPool` and `CodeHistory`
a method is one step, because it runs under a lock; in `Memory` a statement is,
with its commit and triggers. In the agent loop a step lies between two points
where a limit, the steering thread or an exception can matter. In the tools a
step is what a thread does to the shared dictionaries between two places where
another one can come in. In the file stores and the containers a step is one
system call or one command, so that another process may come, or this one may
end, between any two. In `GPUJobs` an assignment to a job's record is a step,
because `get_job` and `list_jobs` hand the record out without the lock.

A module's `TypeOK` documents the range of its variables and is not among the
properties of the runs. Those of `ModelPool` and `Workspace` are part of what
is proved, and the other proofs state the types they need; TLC has checked the
rest on the same instances.

### Abstractions

- Texts, prompts, tool arguments and tool results are data: a message is its
  role and where it comes from, a text is the turn that produced it, a todo
  text is present or blank.
- `AgentLoop`: whether the conversation is long enough to compact is left open
  in every turn. `_hard_truncate` is left out: the exceptions that would lead
  there are caught below it.
- `WorkerManager`: a worker's loop is one step that returns or raises;
  `AgentLoop` shows that it ends.
- `Retry`: the delays between attempts are left out.
- `ResponsesChain`: a loop is reduced to what it does to its messages between
  two calls; the service joins a request to what it stored under the previous
  id (external, from the way `providers.py` uses it). A call that failed by a
  timeout, a lost connection or a server error may have been answered and
  stored.
- `ToolResolver`: which names are close to a name is a constant. The third
  policy, a model's choice, is left out: nothing in the code gives the resolver
  a function for it. A resolution takes less than the five minutes a miss is
  kept.
- `ToolRegistry`: executors are data; one returns or raises, and the batch
  treats both alike.
- `Workspace`: one file stands for those the file tools name; a text is the set
  of calls that have put something in it. Shell commands, the web, search and
  git tools are input and output. In-process execution (no sandbox) takes the
  same steps on files and cannot time out.
- `Memory`: the query is fixed and a text is a hit for it or a miss; where the
  code takes the best of many, any of them may be the best. One search at a
  time, among any number of writers: searches only read. No code follows
  `superseded_by`, so it is set or not.
- `SessionStore`: a message or compaction point is known by its writer and its
  number. The reads (get, search, list) change nothing and are left out.
- `SandboxServer`: a command runs in one step, since `exec` blocks the event
  loop; of the kinds of command there are those that are recorded and
  `shutdown`. A frame is its length and the rest. The disk does not fail
  (`code_history.py:80` swallows an `OSError`, and the entry is then only in
  memory). `ServeRaises` is code that raises something that is no `Exception`.
- `TaskQueue`: agents' names have no `|` in them. An idea with a line break in
  it, which the table cannot hold, is modelled. Of a line of the journal there
  is all, all but its line break, or less; whether less ends within a character
  is left open. An asset may be empty, which `_hydrate_assets` ignores.
- `TodoStore`: the list's metadata is left out.
- `TmpFile`: overlapping writers may leave either text or a mixture in a file.
- `Delegation`: all calls are on one session; a call without one changes
  nothing the module holds.

## Runs

| run | instance | what it shows |
|---|---|---|
| `pool` | 3 slots (one of capacity 2, two of equal priority), 4 clients | capacity is respected, counters are exact, and the pool implements `ProviderLeases` |
| `manager` | 3 tasks (two with one id), 2 threads, 0 to 2 providers, an outsider that may keep a unit for ever | leases follow workers, every id is answered for, a refusal has a reason, `execute` returns |
| `loop` | 2 runs of 2 turns, a budget of 3, responses of 0 to 2 calls and 1 or 2 tokens, a deadline, one steering message, finalization, coalescing and a store | the seven safety properties of the loop, and that `run` ends |
| `chain` | 2 loops taking turns on one provider, the same prompt, one retry, lost answers, 5 responses | each request joined to what is stored is the loop's conversation, with its instructions |
| `tools` | 2 loops, a full registry and a view with 2 threads, 2 batches of 2 calls (a bad argument and an alias among them), 2 changes of configuration, 5 minutes passing once; the loader is asked for all and for some names, with overrides of defaults and new ones | what is loaded is what was asked for; names are resolved by what is configured; a batch is answered in order, and one given up leaves no call queued; a resolution raises only when two threads share it |
| `workspace` | 4 calls of the Python and file tools, 2 at a time, one timeout or failure | code that runs is never that of a call that was over; a call that met no other does what it says |
| `memory` | 3 ids, 3 rows, `top_k` 1 oversampled twice, 2 rows scanned | the index agrees; a search returns only what was to be found while it ran, and all that was to be found throughout unless crowded out |
| `sessions` | 2 loops of 4 entries each, 2 creations, one failed write or death | what did not overlap lost nothing; what did neither repeats nor reorders a loop's entries |
| `sandbox` | 2 clients, 2 connections, 3 requests, 2 deaths | own answers until a call is given up, the history survives, calls return |
| `gpu` | 2 jobs, one record retained | what a reader without the lock sees of a status is true, statuses are final, every job finishes |
| `queue` | 2 agents, 3 ideas (one with a line break; two assets and an empty one), one failure, short write or death | the state machine holds, ids name one idea and the table and the readable journal keep up, named accidents excepted |
| `delegation` | 2 agents, 3 calls on one session of 4 messages, 2 todo calls, one death | a session holds whole exchanges in order, calls that do not overlap lose nothing, nor does a todo call that is alone |

Why the bounds are enough. A bound is large enough
when the cases a property is about occur below it: a full pool needs capacity + 1 clients (the instance has four
units and four clients, and is full for the fourth when fewer slots are
configured); an overtaken or repeated turn needs two; a limit that strikes in a
first or second turn, after a compaction or in finalization needs two turns and
a budget that two or three calls use up; two runs show what is carried from one
to the next. A late answer needs two requests on a connection, and a third
shows the following calls; a torn line followed by a good one needs two deaths.
An overlap needs two agents, and a loss of the first of two exchanges when a
session is cut needs three. A container left behind, two calls that meet it or
each other and one that is alone afterwards make four calls in a workspace. A
search is crowded out by one row more than the two it takes, and a memory that
takes the place of one it has found needs no more rows than that. Two compactions by one loop, of a message and a
point each, need four entries. The loop run has a reliable store; with none or a
failing one `HistoryPreserved` promises nothing, and the theorems about the
loop hold for all three.

`CHECK_DEADLOCK FALSE` is used where the bounded calls are used up in the end.
`pool` checks deadlock: a client can always ask, or give back.

Fairness. `manager`: the main thread and the workers run on (a call of
`AgentLoop.run` ends by `RunEnds`); nothing is assumed of outsiders. `loop`:
the loop's thread runs and its calls come back, because the HTTP clients have
timeouts and bounded retries; the steering thread and the clock need do
nothing. `sandbox`: a live server serves each connection, and a client that can
read reads; nobody need restart a dead server, and no timeout is counted on.
`gpu`: `spawn_job` and `kill_job` go on once begun, scripts end, and monitor
threads run.

### Seen while modelling

Where the code does something else than its documentation or a caller expects.
The modules follow the code; no run refutes a promise.

Models, loops and pools:

- `loop.py:551`: compaction looks for exceptions, but providers report errors
  in the response; the conversation is then replaced by the error's text,
  against the comment at line 549, "Keep existing messages, skip compaction".
- `providers.py:630`: the response chain is kept per provider object without
  a lock, while the pool hands one provider to several workers; one loop's
  request may continue another's conversation. The `chain` run therefore lets
  the loops take turns (`Exclusive`).
- `ModelPool.add_slot` zeroes every count, so capacity is only respected by
  pools that are configured while idle. Every use in the code base is such a
  use: hence `ConfiguredSpec`, and `UsesConfiguredPool` for the manager.
- `worker_manager.py:262`: a provider error ends a loop without an exception,
  and the worker reports success with an empty text.
- The tokens of a compaction are not counted in `total_usage` (`loop.py:546`;
  `used` and `spent` of `AgentLoop` differ by them); a finalization that was
  cut off is returned, a turn that was is not (`loop.py:361`); the clamp of
  `max_tokens` during finalization is on a provider that other loops may use
  (`loop.py:340`); the steering queue survives `run`, so a message may reach
  the next run.
- `retry.py`: an exception with a `.response` object and no status code makes
  `int()` raise inside the handler: the error is replaced and not retried.

Tools:

- `tools.py:239` adds a keyword `context` to every call of a loop. The memory
  tools (`memory.py:540-608`) do not take it and always fail there; that of
  `code_search` (`builtins.py:206`), a number of lines, is overwritten with the
  message list.
- `tools.py:228`: arguments that are JSON but no object raise outside the
  `try`, and the whole batch is lost.
- `tool_resolver.py:183-194`: two threads that drop the same old miss raise a
  `KeyError` in one of them; lines 215-224 clear the cache and not the misses,
  and a resolution under way may store an old answer after the clearing. A view
  made by `for_role` shares the resolver of the full registry.
- `tool_loader.py:340`: a requested name that no default has is left out
  without a word; a second tool of one name and a failing import are only
  logged.
- `docker_sandbox.py:205`: all containers write their script to one path, so
  that of two concurrent calls both may run the same code; line 176: a timeout
  ends the docker client and leaves the container running.
- The sandbox's `patch_file` reads and writes in two steps and loses parallel
  patches, and does not say when there was nothing to replace.

Stores:

- `memory.py:91`: the triggers are created without `IF NOT EXISTS`, so that a
  database file opened a second time raises in every later call (`usable` of
  `Memory`); superseded rows crowd live ones out of the rows a search takes.
- `session.py` and `todo_backends.py` share one temporary file among all
  writers and lock nothing; `create_session` empties a session that is there;
  `loop.py:525` logs a failed preservation and compacts anyway.
- `dispatch_agent` asks `time.isoformat`, which does not exist: with a session
  it raises after its run, and never saves (`DispatchRaises`).
- A consult session that a process died over is never readable again, and each
  later call on it raises; `consult.py:507` says "Last 5 exchanges" of what are
  five messages.
- The todo tool blanks a text when only the status is updated, refuses an
  update of the text alone, and `set` with `merge` never updates an item.
- An idea with a line break is written to the task queue and never read back,
  and `_ensure_file` may empty a queue that was created a moment before.
- `task_queue.py:143`: "Uses a temp-file + os.replace pattern so a crash
  mid-write never leaves a truncated line on disk" (line 135) is not what the
  code does: it is one `os.write`, whose count is ignored. A line that is cut
  short is not read, nor is the next idea's, which is glued to it, and both read
  back with the asset `stocks`; a file that ends within a character makes every
  later call raise (`LogShort`, `FailInLog`, `garbled`).

Sandbox:

- `sandbox/client.py:132`: a call that timed out leaves its answer on the
  stream, and the next call returns it as its own.
- `sandbox/gpu_jobs.py:283`: `kill_job` ends the worker and not the script,
  which is a process of its own and goes on using the GPU; line 281: called
  before the process is in `_processes` (line 236) it kills nothing, returns
  `True` and has the job called killed (`missed`).
- `sandbox/gpu_jobs.py:257-271`: the status is there before the end time and the
  output, for readers that take no lock; a log that is not text ends the monitor
  in between, and the record keeps a final status and no output (`ReadRaises`).

## Theorems

TLAPS checks the following for every value of the constants, from the named
assumptions on them, which TLC evaluates in the runs: `PoolAssumption` and
`ManagerAssumption`, `LoopAssumption`, `ChainAssumption`, `ToolAssumption` and
`LoaderAssumption`, `WorkspaceAssumption`, `MemoryAssumption`, `FileAssumption`
(finitely many agents), `SessionAssumption`, `DelegationAssumption`,
`SandboxAssumption`, `GPUJobsAssumption` and `QueueAssumption`. Most of an
assumption gives the bounds and constants their types. What goes beyond that:
lease and client names are apart; overrides are a dict, so a key comes once;
no tool has the empty name; a session keeps an even number of messages (the
code keeps 20). The theorems about `ResponsesChain` have the hypothesis
`Exclusive`, that loops take turns on a provider: without it the code does not
keep what they say (see above).

| theorem | statement |
|---|---|
| `PoolTypeCorrect` | the type invariant, slots being added at any time |
| `PoolLeaksNothing` | for slots added at any time: a slot counts no more leases than may still be released to it |
| `AccountingIsExact` | configured pool: each counter is the number of leases that name its slot |
| `CapacityIsRespected` | configured pool: no provider beyond `max_concurrent` |
| `PoolImplementsLeases` | configured pool: it implements `ProviderLeases` |
| `ManagerUsesConfiguredPool` | the manager's steps on the pool are those of a configured pool |
| `WorkersHoldLeases` | a worker holds a lease exactly while it runs |
| `ExecuteLeavesNothing` | nothing is queued, running or leased when no batch is under way |
| `TasksAreAccounted` | `execute` returns a finished task for each id of its batch, ordered by id |
| `RefusalsHaveAReason` | a worker is refused a provider only when the threads and the outsiders holding one are more than the pool's capacity |
| `AnswersAreLatest` | the text returned is the last turn's, or the one before a provider error |
| `CutOffTurnsFailClosed` | after a turn that was cut off no turn's text is returned |
| `BudgetStopsCalls` | no call begins once the tokens counted have reached the budget |
| `FinalizationIsTheEnd` | nothing but the end of the run follows a finalization |
| `MaxTokensIsRestored` | `max_tokens` is lowered for the finalization call only |
| `ToolCallsAreAnswered` | every request begins with the prompt, and each tool call in it is followed by its results |
| `SteeringIsRead` | a steering message taken in a turn is the last thing the model reads in it |
| `CompactionLosesNothing` | with a reliable store, what compaction removes is in the store |
| `ChainInvariant`, `RequestsAreWhole` | loops that take turns: a request joined to what the service has is the loop's conversation, each message once |
| `InstructionsAreRight` | loops that take turns: a request goes with the instructions of its own conversation |
| `RegistriesAreLoadedAsAsked` | a loaded registry has the wanted tools that load and fit, the first of each name, and no other |
| `ToolsInvariant`, `ResolutionsAreCurrent` | a name is resolved to what was right since the cache was cleared, unless another thread or a change was at it |
| `ResolverRaisesOnlyShared` | resolving raises only where another thread or a change was at the name |
| `BatchesAnswered` | a batch returns the answers to its calls in order, and leaves none queued or at work |
| `PythonRunsCodeOfTheMoment` | a Python call never runs code older than the calls it met |
| `AloneIsSafe` | a call that met no other does what it says |
| `MemoryInvariant`, `IndexAlwaysAgrees` | the rows have distinct numbers and ids, the index has the rows of the table, and a search in progress has what it should have by then |
| `SearchFindsWanted`, `SearchMissesNothing` | a search finds what was there at some time, and all that was there throughout unless it was crowded out |
| `AnswersAreOnesOwn` | while no call on a connection was given up, a response is the one to its call; and none is ever newer than its call |
| `RecordedStaysRecorded` | what was recorded is in the history of every later process, or its line met a torn one |
| `StatusesAreTrue`, `JobsFinishOnce` | in every state between two assignments a job's status is true of its processes (but for a kill that came too early), its output whole once the monitor is through, and the status final |
| `QueueInvariant`, `StateMachineEnforced` | no row is behind the journal and the change under way is beyond it; the journal takes each idea from pending to testing to finished, by one agent |
| `UnreadableIsOnRecord` | what cannot be loaded of the journal is of ideas on record, at most two for each failure |
| `TableInvariant`, `IdsStayUnique` | an id that was answered names one idea, unless that idea's row was lost or cannot be read back |
| `TableKeepsUpWithJournal` | when the lock is free the table has what was answered, with the same exceptions, and the state and asset the loadable lines say, except for ideas on record as lacking one |
| `TodoCallsAloneAreWhole` | a todo call that met no other changed the list as it says or not at all |
| `SessionsHoldWholeExchanges` | a delegation session holds whole exchanges, each once, in the order they were answered |
| `SessionsRemember` | a call that met no other on its session is remembered until newer ones push it out |
| `NothingLostAlone` | while no two calls on a session overlapped, it holds all that was reported as saved |
| `OwnEntriesStayInOrder` | whatever overlaps, a loop's entries are in the session once and in order |

The arguments.

*Pool.* `TypeOK` is inductive for `PoolNext`. `NoLeakedCapacity` needs it to
know that a released slot exists: `add_slot` only lowers counts, a route raises
one count and one set of holders, and a release lowers both or finds the count
at zero. In the configured pool the inductive invariant is `ConfiguredInv`, the
types, the exact accounting, and that no counter passes its limit. That
accounting survives `add_slot` is where idleness is used: with no lease out
the zeroes are exact. `CapacityRespected` then follows without a further
induction: the users of a provider are the holders of its slot. The refinement
also needs that the slots are sorted (`Sorted`), so that "the first slot with
room" is "the cheapest provider with room".

*Manager.* `ManagerUsesConfiguredPool` maps every action to a pool step or a
stutter. With it `CapacityIsRespected` holds of the manager's pool too, by
composition. The others rest on an invariant that says where each task of a
batch is: not sent, queued, at work or done, and that the batch is done when
all of it is collected. `TasksAreAccounted` adds what is filed under the ids
(`Filed`) and a fact about numbers: the places of a finite set's elements,
counted from below, are each taken once (`PlacesAreTaken`). A refusal is a
statement about sums. The capacity of a pool is defined as a number of units (a
provider and a number up to its limit), so that no induction is needed: each
unit of a pool without room is held by somebody (`FullPool`), the holders are
workers and outsiders, and no more workers are at work than there are threads
(`FewAtWork`).

*Loop.* `IInv` says at each `pc` what a limit check has established since the
last call (`BudgetLeft`), that nothing but the final call and the end comes
after finalization was attempted (`FinalizationIsLast`), and whose text
`final_text` holds (`TextInHand`: the last turn's, or while a turn has not been
judged the turn's before it, and nothing after a cut-off turn). The properties
themselves are not inductive: they speak of the end of a run, and `TextInHand`
carries them there. A second invariant (`Talk`) is about the messages: they
begin with the system prompt and are complete (`Complete`: every request is
followed by its results), except while tools run, when a request comes last.
That two complete conversations joined are one (`CompleteConcat`), and that a
request and its results are one, are lemmas of their own.

*Chain.* While loops take turns (`TakeTurns`), `Stage` says of the loop at work,
at each point of a call, how the chain and its messages belong together: the
chain is nobody's (`id` is 0), or its key is another conversation's, or it
`Fits`: key and instructions are this one's (`Belongs`), and what the service
has stored, together with the messages not yet counted, is the conversation
(`Whole`, `Joins`). A summary is asked for with other messages first than the
agent's, so its key differs, and the chain begins anew before and after it. The
failures are where this is delicate: an answer may have been stored and lost,
but then the chain still names what came before it, and what the service has
under an id never changes (`StoresGrow`). What a call takes of the messages
(`Pick`) is a recursive function, so the lemma that one message more is one
item more or none (`PickAppend`) is an induction.

*Loader.* `load_tools_from_config` is a recursive function on the list of
entries. By induction a loaded prefix has exactly the tools of its entries that
load and fit, the first of each name (`LoadIs`, `OneEntryMore`); what the list
is made of - selected defaults, overrides of these in their place, new keys at
the end - is `ConfigIs`.

*Resolver.* A thread carries something it saw a step ago: a tool it found, a
miss, a cache without the name. Either that is still so or a change overtook
it, and what overtook it is on record (`Carries`, of `Found`, `Lacking` and
`Seen`). With the caches (`Known`) this is inductive, for all threads at once.

*Batches.* Every call is in one place at most (`Once`), and one that is
queued is of a batch that is waited for (`Kept`). A future is pending exactly
while its call is queued or at work, and the results collected are those of the
first futures (`Collected`), so a batch that has returned all of them has
nothing under way. A call that was cancelled stays in the queue until a thread
passes it over.

*Workspace.* Two containers that are up at the same time have met (`Meet`). So
the script a call finds once it has emptied it was put there by itself or by a
call it has met (`ScriptOfMet`), and a call that has met no other is the only
one to touch the script and the file (`AloneSoFar`).

*Memory.* What a search has collected was wanted at some moment of it, and so
was every visible row whose number it holds (`FoundSoFar`): while a search runs
new rows get new numbers and the others keep their id (`TableTyped`, `Kept`);
their text may change, and the counter starts again when a store in memory is
closed, which is not while a search runs. What was wanted throughout is collected, or a statement to come
will find it, unless one was crowded (`NoneLost`).

*Sandbox.* On a connection of which no call was given up, the stream carries no
more than what its client waits for (`Clean`); on any other, nothing newer than
that (`Fine`). Where the client is between length and payload is part of both.

*Code history.* No two lines that can be read back have one id, and no id is given
out again while one of them has it; what was recorded is a whole line, read
back unless the line before it was torn (`Lines`).

*GPU jobs.* Each job by itself: what its worker, script and output are
(`WorkerTrue`), what `kill_job` has done and has still to do (`KillTrue`), what
a monitor may have concluded (`ReportTrue`), which of the two has stamped the
record (`StampTrue`) and how much of the output is in it (`OutputTrue`). A
second finisher finds the status final.

*Task queue.* Whoever is between taking and releasing the lock is its holder
(`Locked`). Every row, in the table and in what an agent has read, is at least
as far as the journal says (`Ahead`), an agent about to append is beyond all the
journal has of its idea (`Beyond`), and a claim is granted only while none was
(`Claimed`).

The rewritten table needs more. It is empty for a while, so what a table must be
(`Standing`: distinct ids, every answered idea there, the agent that was told,
and all that the journal says) is said of the file only while nobody writes it,
and of the rows its holder is about to write from the moment the lock is taken
(`TableStands`, `WorkStands`). The row that changed is ahead of the journal
until its line is there (`Pending`). What can be loaded of the journal is
another matter: a line that stands by itself can, and every other piece is of an
idea in `unlogged`, of which a failure adds its own and, by leaving an open end,
one more (`Apart`, `SInv`).

*Sessions.* While nothing overlapped (`Undisturbed`) one loop saves at a time,
the temporary file is its own and what it saves is what was told and its entry.
In general (`Mixed`) every text that is anywhere - in an inode or a loop's plan -
has each loop's entries in order and before those it has still to append, so
that whichever text wins, appending keeps the order.

*Delegation.* What the file holds, or a call has in hand, is whole exchanges in the
order they were answered (`Knows`): an overlapping save may drop some and never
splits one, for what is cut is even. While nothing overlaps, it is the end of
all the answers (`Remembered`), because cutting, adding an exchange and cutting
again is cutting once (`KeptOfKept`). The todo list: the
temporary file of a call that is alone is its own, and the list stays as it was
until it is replaced (`TodoAlone`).

*Induction.* The library's induction theorems take an operator and cannot be
used here; `NatLessThanWellFounded` and `WFMin` take a set. From them comes the
form used: a set of numbers with 0 and with the successor of each member has
them all (`Reaches`), or a set that is not empty has a least member (`Least`).
Therefore `Pick` and `load_tools_from_config` are recursive functions, where
`SelectSeq` and a fold would be the shorter definitions: the provers know
nothing about those.

Two properties were wrong as first stated, and it was the proofs that showed it.
A resolution that registrations overtake may miss the alias, registered a step
too late, and then keep a close match that was never the right answer by
itself; `ResolutionIsCurrent` now counts the close matches of such moments. And
`LoadedAsAsked` took an override of a default that was not selected for a
replacement in that default's place; it is a new entry, and where it stands
decides which of two tools of one name is registered. TLC shows both on
instances that have the case, and the `tools` run has the second one now.

Only model-checked: the four liveness properties (`BatchReturns`, `RunEnds`,
`CallReturns`, `EveryJobFinishes`), which the prover cannot treat because they
rest on fairness and `ENABLED`. Every other property of every run is stated by
a theorem.

## Not modelled, and what is left

Not modelled for good: `sanitize.py` (a stateless filter), `model_targets.py`
(configuration), `research_sandbox.py`, `research_launch` and `llm_proxy.py`
(starting containers, forwarding HTTP), the shell, web, search and git tools of
`builtins.py` (input and output), the path rules of `tool_security.py` (no
state), the tool schemas and recall counts of `memory.py`, and a model's choice
among tools in `tool_resolver.py`, which nothing in the code configures.

`sandbox/experiments.py` does one transaction per operation, and `tracing.py`
records what happened and steers nothing: a module for either would state
little that could be wrong.

What may still be proved: what `Retry` decides for an exception, as a theorem of
its own; that the loops of `WorkerManager` keep to `AgentLoop`; and the type
invariants of the modules whose proofs get by with less.
