# OpenQuake engine: TLA+ verification project

The OpenQuake engine computes seismic hazard and risk. Its numerical code is
sequential; what is hard to get right, and hard to test, is the machinery
around it: a master that distributes tasks to worker processes and reads their
results over ZeroMQ, several engine processes that queue behind one another
through a table in SQLite, a database server that serialises their commands,
users who abort, delete and restart things while all this runs, and the
bookkeeping that cuts the work, numbers the realizations of a logic tree and
sends each result to the right one. This directory holds TLA+ models of that
machinery, the TLC configurations that check them on small instances, and
proofs checked by TLAPS.

Paths below are relative to the root of the repository, and those of the engine
to `openquake/`. `PROJECT.json` gives, for each definition, the lines it models,
and for each hazard the line and the properties that are about it.

## 1. The system

| Component | State it keeps | Operations | What is hard |
|---|---|---|---|
| Parallel computations: `baselib/parallel.py` (`Starmap`, `safely_call`, `Result`, `IterResult`), `baselib/zeromq.py` | master: queue of tasks, counter `todo`, number of tasks, pool; worker: the running generator; sockets: unread messages | submit, `_submit_many`, `_loop`, `shutdown`; `safely_call`; send, receive | interleaving of many senders, subtasks started by tasks, exceptions half way, lost workers, stale messages on a reused port, blocking sends |
| Splitting: `baselib/general.py` (`block_splitter`, `split_in_blocks`), `Starmap.apply`, `split_task`, `calculators/classical.py` | a generator: the block being filled, the last key | cut a sequence in blocks by weight and key, and cut a block again in its task | weights of zero, items heavier than a block, a last block that may not exist |
| Queue of jobs: `engine/engine.py` (`run_jobs`, `poll_queue`, `run_calc`) | the processes and what they read of the job table | create, queue, run, finish jobs; signals | several processes poll a table they also write; stale reads; deaths |
| Job table: `server/db/actions.py` | `status`, `is_running`, `pid`, parent of each job | create_job, update_job, set_status, finish, del_calc, delete_uncompleted_calculations, reset_is_running | seven commands write the same two columns |
| Requests of users: `server/views.py` (`calc_abort`, `calc_remove`, `submit_job`), `commands/abort.py` | none of their own: read, then kill, then write | abort, remove, run | time of check and time of use |
| DbServer: `server/dbserver.py`, `commonlib/logs.py` | the proxy, the commands dealt to each thread, the port of the server | `dbcmd`, `ensure_on`, start, stop | several clients start it at once; a thread that dies; a client that waits without timeout |
| Upgrades: `server/db/upgrade_manager.py`, `schema/upgrades` | the table of applied versions and the schema | instance, upgrade, one statement at a time | a process killed between two statements that are each final |
| Worker pools: `baselib/workerpool.py`, `engine.run_jobs` | the pools of each host, their control sockets, the processes of the master | zmq_start, zmq_wait, zmq_stop | ports that still answer or do not answer yet, workers stopped while another job uses them |
| Calculation IDs and datastores: `baselib/datastore.py`, `hdf5.py`, `commonlib/logs.py`, `commands/purge.py`, `importcalc.py` | IDs in the table and files on disk | next ID, create, import, purge | the last ID is read and used in two steps, by two kinds of calculations |
| Logic trees: `commonlib/logictree.py`, `hazardlib/lt.py` | branchsets and what they are attached to; realizations | parse, enumerate, sample, number | a branch that is attached twice or lost; two ways to count the realizations |
| Composite source model: `commonlib/source_reader.py` | groups of sources with their `et_ids` and samples | build, apply uncertainties, reduce, regroup | one source that stands for many realizations |
| Calculators, hazardlib, hmtk, risklib | arrays, the datastore | `execute`, `post_execute` | numerical code |
| Input, exports, extraction, other WebUI views, command line | files | parse, format, query | no control of interest |

How they interact:

* `engine.run_jobs`, in its own process (from the command line, or a child of
  the WebUI), talks to the DbServer with `dbcmd`: it creates rows, polls
  `GET_JOBS`, writes its pid and status. Processes do not talk to each other:
  the table and `psutil.pid_exists` are all they share.
* `dbcmd` sends one command to the proxy of the DbServer, which deals it to one
  of its threads; a process that finds no server starts one, which upgrades the
  database before it serves.
* On a zmq cluster `run_jobs` asks the DbServer to start the worker pools after
  it leaves the queue, and to stop them after its last calculation.
* `run_calc` runs a calculator, which reads the logic trees, builds the
  composite source model, cuts its groups in blocks and makes one `Starmap` after
  another. Each opens a PULL socket, starts tasks in a pool of the process (or on
  the hosts of a zmq cluster) and reads their messages until `todo` is zero.
* Signals join the two: a SIGINT of a user becomes `MasterKilled` in the
  master, whose `_loop` is left; `Starmap.shutdown` then terminates the pool.

The hazards of this code, each at its line, are in `PROJECT.json`. Those no
property covers have a note.

## 2. The modules

| Module | What it is |
|---|---|
| `Starmap` | one parallel computation: master, workers, sockets |
| `ParallelMap` | the abstract specification it implements |
| `StarmapProofs` | theorems about `Starmap` and its refinement |
| `BlockSplitter` | the generator `block_splitter`, one item a step |
| `Splitting` | its callers; extends `BlockSplitter` |
| `SplittingProofs` | theorems about `BlockSplitter` and `Splitting` |
| `JobQueue` | processes of the engine, the job table, requests of users |
| `Slots` | the abstract specification of the queue |
| `JobQueueProofs` | theorems about `JobQueue` and its refinement |
| `UpgradeDb` | the upgrade of the database by a process that is going to serve |
| `DbServer` | clients, servers, proxy and threads; extends `UpgradeDb` |
| `Commands` | the abstract specification of `dbcmd` |
| `DbServerProofs` | theorems about `UpgradeDb` and `DbServer`, and the refinement |
| `WorkerPool` | the worker pools of a cluster, the jobs that use them and users who start and stop them |
| `WorkerPoolProofs` | theorems about `WorkerPool` |
| `CalcIds` | calculation IDs, datastores, users who import and purge |
| `CalcIdsProofs` | theorems about `CalcIds` |
| `LogicTree` | source model and GSIM logic trees, realizations |
| `SourceModel` | the composite source model; extends `LogicTree` |
| `LogicTreeProofs` | theorems about `LogicTree` and `SourceModel` |
| `Lists` | sums, products, counts and selections of lists, for `Splitting`, `LogicTree` and `SourceModel` |
| `DataLemmas` | lemmas the proofs share: least and greatest numbers, induction on numbers, `FlattenSeq`, `Count`, `Select`, sums and products, orders |
| `MC...` | values of the constants for TLC, one module for each of the above |

Definitions keep the names of the code where they can. A definition named
`X_Y` is the definition `X` with the bug `Y`: it stands before `X`, is used by
nothing, and shows when it is put in the place of `X` that the property it is
listed with in `PROJECT.json` is able to fail.

### Starmap

| Model | Code (`parallel.py` unless said) |
|---|---|
| `first_args`, `task_queue` | the arguments `_loop` submits first, `self.task_queue` |
| `task_no`, `tasks`, `todo` | `self.task_no`, `len(self.tasks)`, `self.todo` |
| `sent[t]`, `rcvd[t]` | what `safely_call` passed to `zsocket.send`, what `Socket.__iter__` gave to `_loop` |
| `yielded` | what `IterResult._iter` yields to `reduce` |
| `wstate[t]` | where `t` is: unread subtask, queued, in the pool, running, over |
| `SubmitFirst`, `EnterLoop`, `RecvX`, `CloseLoop` | `_loop` (834-868) with `_submit_many` and `IterResult._iter` |
| `Start`, `SendX`, `TaskRaises`, `EndTask`, `Unwind` | `safely_call` (465-499) with `Result.new` |
| `Shutdown` | `Starmap.shutdown` |
| `Kill`, `MasterFails`, `SendFails` | what may happen to it: death of a worker, a signal, an object that cannot be sent |

A message read by the master is one step with everything `_loop` does for it:
the end of a task decrements `todo` and submits the next task of the queue,
a subtask is appended to the queue and the first of the queue is submitted, a
value is yielded. ZeroMQ keeps the order of one sender and promises nothing
between senders: the master reads the next message of any task. A task run by
the master itself (`oq_distribute=no`, a single task, `OQ_TASK_NO`) is
run inside `submit`: the master does nothing until it is over (`MasterFree`).
Messages and values carry no content: the properties tell kinds, senders and
positions apart. A worker that dies may lose any suffix of what the master has
not read. The high water marks of the two sockets are one number, `Capacity`.

### BlockSplitter and Splitting

| Model | Code |
|---|---|
| `items`, `ws`, `prev_key`, `blocks` | the rest of the sequence, the `WeightedSequence` being filled, `prev_key`, what was yielded (`general.py`) |
| `NegativeWeight`, `NewBlock`, `AppendItem`, `IgnoreItem`, `LastBlock` | one turn of the loop, and what follows it |
| `ApplyMaxWeight`, `ApplyBlocks`, `DontSplit`, `Apply` | `Starmap.apply`, `split_in_blocks` |
| `Execute`, `Submit`, `RunTask`, `EndTask` | `ClassicalCalculator.execute` and the task `classical_split_filter` |
| `ComputeFirst`, `ComputeBlocks` | `split_task` |

A caller cuts, its tasks may cut again, and `calls` is what was computed. Times
are integers per unit of weight; an item is `[id, w, k]`.

### JobQueue

| Model | Code |
|---|---|
| `row`, `last` | the table job (`status`, `is_running`, `pid`, parent) and its last ID |
| `pc[p]` | where process `p` is in `run_jobs`, `poll_queue`, `run_calc` of `engine.py` |
| `seen[p]` | the answer of `GET_JOBS`, which the process uses after it may be out of date |
| `title[p]`, `exists[p]`, `sig[p]` | the process title, `psutil.pid_exists`, a SIGINT not yet handled |
| `req` | what a user request is about to do: kill, scan the titles, write the status |

Each command of the DbServer is one atomic step (it is one transaction of
SQLite, and `DbServer` shows that it is executed once); between two commands of
a process anything may happen. `Interrupt` is the handler of `manage_signals` in
each place of `run_jobs`: in `poll_queue` it aborts all the jobs of the process,
in the `try` of `run_calc` it finishes the job as aborted, elsewhere it ends the
process and leaves the table as it is. A child of the WebUI that ended is a
zombie, for which `psutil.pid_exists` is true, until the WebUI starts another
process (`Exit`, `CreateJob`).

### UpgradeDb and DbServer

| Model | Code |
|---|---|
| `objects`, `job_sql`, `installed`, `versions` | the schema, the definition of the table job, the table of versions and its rows |
| `Instance`, `Execute`, `CreateVersioning`, `InsertScript`, `ReadVersions` | `UpgradeManager.instance`, `_upgrade`, `install_versioning`, `_insert_script`, `upgrade` |
| `cpc[c]`: `FindServer`, `StartServer`, `GiveUp`, `SendCommand` | `ensure_on` and `logs.dbcmd` in a client |
| `spc[s]`: `CheckStatus`, `ResetIsRunning`, `Bind` | `oq dbserver start`, `run_server`, `DbServer.start` |
| `net`, `front`, `inbox`, `ring` | commands on the way, in the proxy, dealt to a thread; whose turn it is |
| `ExecuteCommand`, `CommandRaises`, `Reply` | `dworker` |
| `StopServer`, `CrashServer` | a server that is stopped, or dies while it starts |

A script is the sequence of its statements, and a statement is what it creates
and the new definition it gives to the table job, if any: `isolation_level=None` makes
each of them final. The versions a server has still to apply are the set `todo`,
of which it takes the least. The proxy deals round robin without regard to who is busy.

### WorkerPool

| Model | Code |
|---|---|
| `slot` | the jobs that `poll_queue` sees as executing |
| `pc[p]`: `Begin`, `CheckHost`, `Popen`, `StartDone`, `WaitDone`, `WaitRaises` | `WorkerMaster.start` and `wait`, called by `run_jobs` through `dbcmd` |
| `AskHost`, `Compute`, `PullTask`, `FinishCalc`, `Interrupt` | `set_concurrent_tasks_default`, the calculation, signals |
| `BeginStop`, `Terminate`, `Reap` | the `finally` of `run_jobs`, `WorkerMaster.stop` |
| `UserStops`, `Restart` | `oq workers stop` and `restart`; `oq workers start` is a `Begin` |
| `popens`, `asked` | `self.popens`; the pool whose answer a process waits for |
| `st[q]`, `work[q]`: `StartWorkers`, `Bind`, `Answer`, `Exit` | `WorkerPool.start` |

A host answers from the bind of a pool to its exit. The pool of the host
127.0.0.1 is the process of the `Popen`; elsewhere the `Popen` is an ssh. Nothing
keeps two commands apart: the steps of jobs and users meet in any order, and a job
leaves its slot (`FinishCalc`) before it stops the pools (`BeginStop`).

Three variables record what happened, and no step depends on them: `clear`, the
processes at work that no stop of another one has met; `up`, the pools that were
bound when a process began its stop; `misled`, the hosts where a start met
another start, or a stop, that the port did not show yet. The properties say with
them how far each overlap reaches; none of them supposes that there is no overlap.

### CalcIds

| Model | Code |
|---|---|
| `rows`, `seq`, `file[i]` | the IDs of the table job, `sqlite_sequence`, whose data are in `calc_<i>.hdf5` |
| `ListFiles`, `ReadSeq`, `Insert` | `actions.create_job` |
| `InitLogs`, `TakeNextId` | `logs.init` with and without a job, `datastore.hdf5new` |
| `ChooseMode`, `Open`, `OpenRefused` | `DataStore.__init__` and `open` |
| `ImportCheck`, `Dump`, `Expose`, `ImportJob` | `importcalc`, `expose_outputs`, `actions.import_job` |
| `Purge` | `purge_one`, `del_calc` |

The variables `found` and `snap` record, for the properties, whose data were
in the datastore that was opened and what was over when the ID was looked for.

### LogicTree and SourceModel

| Model | Code |
|---|---|
| `bsets`, `bset` | the branchsets in the order of the file, `branch.bset` |
| `ParseSourceModels`, `ParseBranchset`, `Attach` | `parse_branchset`, `apply_branchset`, `validate_filters` |
| `enumerate_paths` | `BranchSet.enumerate_paths` |
| `Product`, `GsimWeight` | `GsimLogicTree.__iter__` |
| `Enumerate`, `Sample`, `Effective` | `FullLogicTree.init`, `get_realizations`, `get_effective_rlzs` |
| `get_et_id`, `get_trti_eri`, `et_ids`, `get_rlzs_by_gsim`, `get_num_rlzs` | the methods of `FullLogicTree` of the same names |
| `_build_groups`, `apply_uncertainties`, `_get_csm`, `reduce_sources` | the functions of the same names of `source_reader.py` |

A source is its ID and what its checksum depends on: what the file says and the
branches whose uncertainties were applied to it. Weights are integers that sum
to `Unit` in a branchset, and a path that is shorter than others weighs as if its
missing branches had the weight `Unit`, so that the weights of the paths sum
to `One(MaxLevels)`; the draws of a sampling are any draws.

## 3. What TLC checks

Twelve runs: nine that pass, then three findings.

| Run | Shows | Instance |
|---|---|---|
| `StarmapLoop` | the inductive invariant `Inv`; `TodoCounts`, `KeepsCoresBusy`, `NothingLeft`, `AllReduced`; every step is one of `ParallelMap` or none (`ImplementsParallelMap`); `Terminates`, `TasksEnd` | a zmq cluster, 2 arguments and a possible subtask, one core (so that the queue is used), sockets of 2 messages, a stale message, exceptions also out of `safely_call`, failed sends, deaths, workers of another version, signals |
| `StarmapInline` | `AllReduced`, `Terminates` without distribution | tasks run by the master, memory warnings; a capacity that is never reached |
| `JobQueueSlots` | `ImplementsSlots`, `VisibleWhileComputing`, `FailedOnlyIfOver` | three processes, one with two jobs and a child of the WebUI, `serialize_jobs` 2, deaths, failures, an abort |
| `JobQueueDrains` | `QueueDrains`, `RowsAreConsistent` | two processes, one with two jobs, `serialize_jobs` 1, any one request of a user, deaths, failing commands |
| `DbServer` | `RecordedIsApplied`, `UpToDate`, `ImplementsCommands`, `CommandsEnd`, `SomebodyServes` | three clients, one with a zmq command that may raise, two servers that may be started together, two threads, the seven upgrade scripts of the engine from any version, deaths and stops |
| `WorkerPool` | `AtWork`, `WorkersAreManaged`, `WaitsForSomeone`, `NoneLeftBehind`, `JobsEnd` | a job and a user who starts, stops or restarts the workers, a local and a remote host, four pools, aborts at any time, pools that are slow |
| `CalcIds` | `JobsOwnTheirData`, `RefusedOnlyByARace`, `OldDataAreSafe` | two jobs with a calculation without a job and an import, or with `hdf5new`; three IDs, any number of purges |
| `Splitting` | `BlocksFit`, `EachOnce`, `InOrder`, `CloseToHint`, `RaisesForAReason`, `TypeOK` | all sequences of up to four elements of four weights (-1, 0, 1, 5) and two keys, through each caller |
| `LogicTree` | `PathsEnumerated`, `BranchesInPaths`, `RealizationsAgree`, `EtIdsArePairs`, `RealizationsGetTheirSources` | up to three branchsets of one or two branches, attached anywhere, with filters and extensions; two tectonic region types with one or two GSIMs; enumerated, or with two samples |
| `JobQueueOverlap` | finding: violates `AtMostSerialized` | two processes, one job each |
| `SampledSources` | finding: violates `SampledAsItsRealization` | one branchset, three samples |
| `WorkersLost` | finding: violates `PoolsStay` | two jobs, one after the other |

The type invariant of a module is checked in its run: by name in `Splitting`,
in `Inv` of `Starmap`, in `ImplementsCommands` of `DbServer` and as the first
conjunct of `RowsAreConsistent`, `WorkersAreManaged`, `JobsOwnTheirData` and
`RealizationsAgree`.

Bounds. Two or three actors are enough for each pair of steps of different
actors to meet in both orders; a third one is there where a slot, a subtask, an
overtaken process or a third kind of calculation is needed. `MaxSend` limits the
results and subtasks of a task: two allow a value followed by a subtask, and two
subtasks. `Capacity` below that number makes senders block, above it they never
do. `MaxStale` is the number of messages of an older calculation that arrive on
the reused port. `MaxJob` is the number of jobs of all processes. `MaxRequests`
is one: one request already interleaves its two or three steps with everything
else. `Pool` has as many members as processes times
hosts, so that no start is refused for want of one (a restart that starts them a
third time is cut off there). `MaxId` is 3: with four calculations IDs have to be
shared for some to be refused, and one that was purged comes up again. `MaxLen`
is 4: a task of the classical calculator gets enough elements to cut a block, keep
a light one and have a last one. `MaxLevels` is 3, the least for a branchset that is
attached below only some of the branches of a level that was itself attached below
some. `MaxSampled` bounds the trees that are sampled, not those that are enumerated.
The sets of processes that are started alike (`JobQueueSlots`, `CalcIds`) are symmetric;
these two runs check no liveness.

`CHECK_DEADLOCK FALSE` is in all the runs but those of `Starmap` and `JobQueue`: their clients, jobs and
calculations come once and end, and the algorithms return, after which nothing
is left to do. A wait that is not an end is what their liveness properties
exclude. In `Starmap` and `JobQueue` a deadlock would be reported; the
stuttering steps at the end of `Next` are for finished computations only.

### The findings

1. *Two jobs can leave the queue together* (`JobQueueOverlap`): between
   `create_job` and the first `update_job` a job is not in `GET_JOBS`, and a
   younger one overtakes it.
2. *A source is sampled as often as the first realization it stands for*
   (`SampledSources`): `reduce_sources` (`commonlib/source_reader.py:188-193`)
   compares checksums that leave `samples` out and keeps the first source for the
   `et_ids` of all. Two source models that share a source and were sampled a
   different number of times get the same number of ruptures from it, although
   `doc/adv-manual/event-based-with-large-logic-tree.rst:42-46` says that the
   number of samples of each is kept track of.
3. *A job loses its workers to the one before it* (`WorkersLost`): `run_calc`
   finishes a job in the table, so that the next one leaves the queue, finds the
   pools at work and starts none, before the `finally` of `run_jobs`
   (`engine/engine.py:449`) stops those pools. `doc/installing/cluster.md:59-64` says
   that the engine starts and stops them at each calculation, as long as
   `serialize_jobs` is the default.

The models reproduce other behaviour on which no run is spent; where a document
or a comment says otherwise it is named:

* a task that runs out of memory leaves the master waiting, since
  `check_mem_usage` raises outside every `try` of `safely_call` (`Unwind`;
  `doc/adv-manual/parallelization.rst:142-144`);
* a task that the master runs itself can fill the socket that only the master
  reads, above the high water marks (`MasterFree`, `Room`);
* a memory warning is yielded to the reduction as a value;
* a job waits for a zombie of the WebUI, which never joins its children;
* aborting the second job of a chain interrupts the first, as they have one pid;
* `oq abort` sets as failed a job that waits in the queue and runs later
  (`commands/abort.py:49`); the status deleted is overwritten by the process that
  still runs;
* an upgrade is not a "single transaction" (`server/db/upgrade_manager.py:334`): a
  process killed in it leaves a database on which each later start fails;
* two starts of the worker pools that overlap leave a pool that no stop can reach;
* a stop leaves the workers of a pool that is starting, since a pool starts them
  before it binds its port (`baselib/workerpool.py:229`): a job that is interrupted
  then leaves them behind, although the docstring of `WorkerMaster.stop`
  (`baselib/workerpool.py:124`) says that the stop goes to all the pools;
* a start while the pools of a stop are still closing takes them for pools at work,
  and its `zmq_wait` raises, or a task waits for workers that are gone;
* of two servers that upgrade together one may apply a script over the other's, so
  that the table job ends with an older definition, or one of them fails half way;
* two calculations without a job that run at once may take the same ID, and
  `importcalc` writes over a datastore that has no job;
* `split_task` raises an `IndexError` when only the first of its elements weighs
  something (`baselib/parallel.py:917`), where line 899 promises a partial result;
  the engine does not call it.

### Assumptions

*Fairness.* It is stated for what the operating system and the network do by
themselves, never for deaths, signals, failures or users. `Starmap`: the master
as a whole and each task (every process runs, ZeroMQ delivers what it was given,
a task does not run for ever, `MaxSend`). `JobQueue`: the steps of each process
(calculations end, the DbServer answers) and the handling of a signal that was sent.
`DbServer`: each client, with its network, each thread and each server; the wait
of `ensure_on` may give up after 30 seconds, but nothing relies on it. `WorkerPool`:
each process and each pool.

*`Patient`.* In `JobQueue` a process is started after the earlier ones are visible
in the table; finding 1 is what happens otherwise. `JobQueueSlots` makes the
assumption, `JobQueueDrains` does not. `DbServer` and `WorkerPool` make none of this
kind: servers start together and commands about the workers overlap as they like.
Where that does harm the property says so, in terms of what happened: `UpToDate`
excepts servers that raced (`raced`), and those of `WorkerPool` processes that a stop of
another one met (`clear`) and hosts where two commands met (`misled`).

*Pids* are not reused while a row carries them.

*`SourcesOnce`.* The files of a source model, and those of an extension, list no
source twice with the same tectonic region type, ID and content. Only files of
NRML 0.4 are checked for it (`hazardlib/nrml.py:185-194`). A source that is listed
twice becomes one with the same `et_id` twice, and is counted twice for a
realization. `MCLogicTree` assumes it of its files, so that TLC evaluates it.

## 4. Refinement

Three abstract specifications say what the detailed ones promise. TLC checks each
refinement on an instance, and each is a theorem (section 5).

`ParallelMap` says that a computation is done when every task that ever
existed has finished and every value was reduced exactly once, and otherwise
fails. `Starmap` implements it under the mapping at the end of the module: a
task is open until its last message is sent, the values computed are the `out`
messages that were not lost, those reduced are the `out` messages read. So the
counter `todo`, the queue and the protocol of messages are shown to have no other
effect. It is checked and proved without memory warnings: with them `None` is
reduced too and the mapping does not hold.

`Slots` has K slots that processes take and leave. `JobQueue` implements it
under `Patient`: a process holds a slot from `mark` until it calculated its
last job, failed, or was told to stop.

`Commands` says that a command is executed at most once and answered only
after it was. `DbServer` implements it: neither the proxy, nor a thread that
dies, nor a server that is restarted executes a command again. It is what
`JobQueue`, `WorkerPool` and `CalcIds` rely on when they take a command, or a part
of one, as a step.

## 5. What is proved

Every theorem holds for all values of the constants that the `ASSUME` of its
module admits (finitely many actors where the code counts them, weights that are
integers, at least one core), and so for any number of processes, tasks, jobs, IDs,
hosts, threads, scripts or branches. A further hypothesis, where there is one, is in the
statement of the theorem and in the table; it is a choice of the users or a fault that
does not occur, or, for `SourcesOnce`, something the files of the users must satisfy; the
named run is an instance of it. None is there for the sake of
the proof: section 3 says what a source that is listed twice does, and TLC finds each
of the other properties violated when `Patient` is not assumed in `JobQueue`, when the
requests that are excluded are made one by one, and when memory warnings occur.

| Module | Theorem | Statement | Hypothesis |
|---|---|---|---|
| `StarmapProofs` | `TypeCorrect`, `Invariance` | `TypeOK`, `Inv` | |
| | `CounterIsRight` | `TodoCounts` | |
| | `CoresAreBusy` | `KeepsCoresBusy` | |
| | `NothingIsLeft` | `NothingLeft` | |
| | `EverythingIsReduced` | `AllReduced` | |
| | `ComputationImplementsParallelMap` | `ImplementsParallelMap` | `NoWarning` (`StarmapLoop`) |
| `SplittingProofs` | `SplitterTypes` | `TypeOK` | |
| | `BlocksAlwaysFit` | `BlocksFit` | |
| | `CallersSplit` | `SplitterSpec` | |
| | `AlwaysOnce` | `EachOnce` | |
| | `AlwaysInOrder` | `InOrder` | |
| | `AlwaysForAReason` | `RaisesForAReason` | |
| | `AlwaysCloseToHint` | `CloseToHint` | |
| `JobQueueProofs` | `RowsConsistent` | `RowsAreConsistent` | |
| | `FailsIfOver` | `FailedOnlyIfOver` | no `oq abort`, no restart of the DbServer |
| | `CalculationsAreVisible` | `VisibleWhileComputing` | `WebOnly` (`JobQueueSlots`) |
| | `SlotsAreBounded` | `AtMostSerialized` | `Ordered` (`JobQueueSlots`) |
| | `QueueImplementsSlots` | `ImplementsSlots` | `Ordered` (`JobQueueSlots`) |
| `DbServerProofs` | `VersionsAreApplied` | `RecordedIsApplied` | |
| | `ServersAreUpToDate` | `UpToDate` | |
| | `ServerImplementsCommands` | `ImplementsCommands` | |
| `WorkerPoolProofs` | `TypeCorrect` | `TypeOK` | |
| | `PoolsAreAtWork` | `AtWork` | |
| | `WorkersHaveAPool` | `WorkersAreManaged` | |
| | `WaitIsNotInVain` | `WaitsForSomeone` | |
| | `NothingIsLeft` | `NoneLeftBehind` | |
| `CalcIdsProofs` | `DataOfJobs` | `JobsOwnTheirData` | |
| | `RefusedByARace` | `RefusedOnlyByARace` | |
| | `OldDataStay` | `OldDataAreSafe` | |
| `LogicTreeProofs` | `TreeInvariant`, `RealizationsAreNumbered` | `TreeInv`, `RlzInv` | |
| | `NoBranchIsLost` | `BranchesInPaths` | |
| | `PathsAreEnumerated` | `PathsEnumerated` | |
| | `EtIdsAreNumbers` | `EtIdsArePairs` | |
| | `PathsWeighOneInvariant` | `PathsWeighOne` | |
| | `RealizationsAlwaysAgree` | `RealizationsAgree` | |
| | `RealizationsAlwaysGetTheirSources` | `RealizationsGetTheirSources` | `SourcesOnce` (`LogicTree`) |

### Starmap

That `todo` is zero exactly when all is over is not inductive:
reading a subtask message counts a task, which is right only when that task was
not counted before. `Inv` therefore says where each task is. `SubInv`: a subtask
in an unread message is in one message only and known to nobody else. `QueueInv`:
`first_args` and `task_queue` together hold each queued task once. `EndInv`:
`TASK_ENDED` is the last message of a task and only of one that is done; a
task that did not start sent nothing. `CountInv`: `todo` is the number of the
tasks that are busy or whose end is unread, and enough of them are while the
queue is not empty; from it, at zero, nothing is pending, hence no subtask is
unread, hence nothing is queued. `ReadInv`: what was read is reduced, or the loop
was left. All but the types suppose `OQ_TASK_NO = -1`: with a selected task,
`task_no` and `tasks` differ and skipped tasks are never over.

For the refinement `OutInv` adds that what was reduced was sent as a result and read,
which is why `NoWarning` is needed. The step that ends the loop is the
interesting one: `ParallelMap` allows `done` only when all tasks are
over and all values reduced, which are `NothingLeft` and `AllReduced`.

### BlockSplitter and Splitting

`SplitterSpec` is the generator called by anyone with
any sequence and any maximum, again and again, and the callers of `Splitting` are such
a one (`CallersSplit`). `BlocksFit` is not inductive:
an item is appended when its key is `prev_key`, which says nothing of the items
already in the block. `SplitterInv` adds `KeyOfTheLast`: they all have the key of
the last item.

`WorkInv` follows the elements from the caller to the calls: what was computed, what the
generator has (`Rest`), and the tasks that are left have together as many items of
each kind as the elements (`NoneLost`). A kind (`Kinds`) is what an item can be
recognised by after `split_task` weighed it again: who it is, and the sign of its
weight. Sorting, selecting and cutting move items without changing their number
(`CountPermuted`, `CountSelect`, `CountBlocks`). The exception is a `split_task` that
measured no time, for which nothing weighs any more: `NoBlocks` says that it then
gets no block and raises. At the end nothing is left, hence `EachOnce`; a
generator that raises has found a negative weight among the elements, hence
`RaisesForAReason`.

`CloseToHint` needs to know how the blocks came about. `PairsOfBlocks`: those yielded so
far are p pairs and at most one more for each key seen, and each pair weighs more
than `max_weight`. So p times `max_weight` is less than the weight of the elements,
and as `hint` times `max_weight` is not less than that, p is less than `hint`. The argument
needs that the total does not depend on the order in which the elements are added, while
`Weigh` adds them in order: `WeighIs` takes a sum of integers as the difference of the cardinalities
of two sets of units (`Units`), which a permutation maps onto each other.

### JobQueue

`Base` holds of every behaviour: each ID was given to one job of one process
(`JobsInv`), a process looks at one of its jobs (`PosInv`), a row of a job has the pid of
its process or none, has one when its status is active, and is not running when it
is final (`RowsInv`), and what a process read of the table are rows that had a
pid and have it still (`SeenInv`). `CleanInv`:
a job that `poll_queue` is about to declare failed is of a process that
is over, however old the answer it looks at is. `oq abort` breaks it, since it writes
`failed` itself, and a restart of the DbServer, since it resets `is_running`.

`WebInv` says that the jobs a process has still to calculate are running in the
table: with requests from the WebUI alone, the status of a row is written by others only
after its process was told to stop (`AbortInv`). From it a process that calculates
is visible. `PatientInv` is the argument for the slots: of two
processes in the order in which they came, the older is visible from before the
younger polls (`OrderInv`), so it is in what the younger reads (`PolledInv`), so the
younger entered only if it is among the first `serialize_jobs` (`EnteredInv`). The
last step is a count: the holders that are left are at most as many. With several processes
in one slot `AtMostSerialized` would not follow, and without `Patient` it is
false (`JobQueueOverlap`).

### UpgradeDb and DbServer

`UpgradeInv`: the versions that a server has not to apply any more are in the table
(`StmtInv`), the statements it executed are in the schema (`DoneInv`), hence a
version that is recorded was applied to its end. No server removes what another one
created, so this holds also for servers that upgrade together and die
anywhere. `UpToDate` needs more: two servers may apply scripts in the wrong order, after
which the table job has an old definition. `OneByOne`, which holds until two servers
race, says that one starts at a time, that it applies versions that are not
recorded, and that no definition is older than those of the scripts applied.

`CommandInv`: a command is in one place (on the way, in the proxy, in one box,
once, or in the hands of one thread) and was not executed before it is there
(`OnePlace`, `WaitingInv`). The proof found the mapping of the refinement
ambiguous: the arms of a `CASE` overlapped for a client that gave up while its
command was in the proxy. They are an `IF` now, in the order that was meant.

### WorkerPool

There is no hypothesis: jobs overlap, users stop and restart the workers and interrupts
come at any time. The properties say instead how far the damage goes, and `Inv`
carries what they need over all these steps. `PoolInv`: a port has one pool, and a pool that
has it has its workers. `HostAt` is what is true of a host as long as no start met
another start or a stop there: one pool at most is on its way or bound, nobody is about
to make a second one, no worker has lost its pool, and a stop that has passed left
nothing but the pool it is waiting for. What happens on a spoilt host does not spoil another one
(`HostInv`), which is `WorkersAreManaged`.

`ClearInv`: while a process is clear, no other one stops, and until its own stop
nothing closes. So the pools that its start found, or made, stay (`StartInv`), which gives `WaitsForSomeone`
and `AtWork`, and a pool that was bound when its stop began is dead, or was asked, or
will be (`StopInv`), which gives `NoneLeftBehind`. A process that is not clear may
lose its pools, and finding 3 shows that it does.

### CalcIds

The datastore of an ID belongs to who opened it last for writing with that ID
(`FileInv`), each ID of the table was given to one job (`RowInv`, `SeqInv`: the
sequence never goes back, so that a purged ID is not given again to a job by the table),
and what a calculation saw when it looked for an ID is still there, with lesser IDs (`SnapInv`,
`OldInv`). No hypothesis is needed: the races of section 3 are between calculations
that run at the same time, or with an import, which the properties except.

### LogicTree and SourceModel

`TreeInv`: the branchsets are attached to branches of earlier ones only, each but the
first to some. So there is no way round, and every branch can be reached.
`PathsFrom` is a recursive function of the number of a branchset, and that it has
a value at all is a theorem (`PathsFunction`). `PathsAreEnumerated` says that
it returns the ways down the tree, all of them and none twice, from which no
branch is lost. `EtIdsAreNumbers` is arithmetic: quotient and remainder are unique.

That the weights of the paths sum to one goes from the last branchset to the first
(`PathsWeigh`): the paths that begin with a branch weigh its weight times
those that follow it, whose sum does not depend on the branchset that was attached
there. It needs `ValuesInv`, that there are weights for as many branches as
a branchset has, and at most `MaxLevels` branchsets. The weights of the GSIM logic
tree are a sum over a product of sequences (`ProductValues`, `CrossedSum`), and so are
those of an enumeration of both trees.

`RlzsInv` says of the realizations what `RealizationsAgree` does, and that each has a
path of an effective realization and a branch for each tectonic region type. For a
sampling it needs that `Effective` takes each path that was drawn once:
`InOrderOfIDs` is defined by how many paths come before each, and
that these numbers are 0, 1, 2 and so on without a gap follows from the order of
the IDs being strict and total on paths none of which begins another (`PathsOrdered`,
`Ranked`).

`RealizationsAlwaysGetTheirSources` follows the sources through `_get_csm`. `CsmInv`: the
composite source model is what `GetCsm` made of groups that raised no
error. A source of the files has a place (which effective realization, group and
number in it), and what `_build_groups` makes at two places with the same
key, which is the tectonic region type, the ID, the content and the `et_id`, is made at
one place (`SamePlace`): the `et_id` gives the realization, and `SourcesOnce` does the
rest. So of the sources that are not in atomic groups, those that `reduce_sources` takes as
one (`Alike`) have `et_ids` that differ, and the reduced source has each of them once
(`KeysOfReduced`). A group of the regrouped model has one list of `et_ids`,
so that any of its sources answers for it (`TimesInGroup`). From this the sources a
realization gets are those of its places, each in one group (`GotIs`), and
as many as in its files, because two of them with one name have one place
(`SameNames`). In the proof the number of samples and the branches of the GSIM logic tree
do not matter: a realization is known by its effective realization and
by the branch it has of each tectonic region type (`OfRealization`).

*Induction over data.* The theorems for induction of the library take a predicate,
which the provers at hand cannot instantiate. `DataLemmas` states them for a set `G` of
numbers in its place (`Upwards`, `FromTheLast`, `FromTheFirst`), from the
well-foundedness of inclusion between finite sets (`NatMin`). They are enough for
`FlattenSeq` (that the function in its definition exists, its elements, and that it
distributes over concatenation), for the sums and products of `Lists` (`Recursion`),
for `Weigh`, for `groupby`, which puts the
elements of one key after another, and for
`PathsFrom`, downwards from the last branchset and upwards from the first. Sorting is
defined by what comes before each place, not by an algorithm; that each place gets an
element and only one (`OrderedIs`) follows from a strict order alone.

## 6. What is only model-checked, and what is not modelled

Liveness (`Terminates`, `TasksEnd`, `QueueDrains`, `CommandsEnd`, `SomebodyServes`,
`JobsEnd`) is beyond the provers used here and stays with TLC, as do the
findings. Each safety property that a passing run checks is also stated by a theorem.

Not modelled of the components in section 2: the distributions celery, dask and
threadpool, performance monitors and logging; `split_in_slices`; `run_jobs` with
`multi=True`, users and permissions of the WebUI, parents given with `--hc`; the
other tables of the database; `check_foreign`; `WorkerMaster.kill` and
`inspect`; `oq reset` and `oq run --calc-id`; late sampling, collapse and reduction
of logic trees, the values of the uncertainties, filters on tectonic region and
source types; the cache of composite source models and `_check_dupl_ids`.

Not modelled at all: the calculators and the hazard and risk libraries, which are
most of the implementation (`hazardlib` alone is more than two thirds of its
lines). They are formulas over floating point arrays that keep no state between
calls; what they must satisfy is numerical, and a model over small integers would
say nothing of it. `JobQueue` takes a calculation as something that ends or raises.
The parsers of the input, the exports, the views that only read and the command
line are functions of text and files.

## 7. Plan

What is left is the cache of composite source models, whose checksum leaves parameters
out.

## 8. Running it

    tlc -config StarmapLoop.cfg MCStarmap
    tlc -config DbServer.cfg MCDbServer
    for m in DataLemmas SplittingProofs StarmapProofs JobQueueProofs \
             DbServerProofs WorkerPoolProofs CalcIdsProofs LogicTreeProofs
    do tlapm $m.tla; done

`SampledSources.cfg` belongs to `MCLogicTree`, `WorkersLost.cfg` to `MCWorkerPool`,
the others to the module their name begins with. Each run takes from seconds to three minutes on two cores. The
proofs take a few seconds to two minutes each, those of `JobQueue` and
`Splitting` about three minutes, those of `LogicTree` about six.
