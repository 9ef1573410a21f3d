# Taktis in TLA+

Taktis runs coding-agent tasks: a project has phases, a phase has tasks in
numbered waves, a task is one SDK process. A flow executes a graph of nodes in the
same way. This directory models how tasks are scheduled, run, stopped,
continued, resumed, reviewed and recovered, how flows are executed and
triggered, and how what a task says reaches its page; model-checks the models
with TLC; and proves the central properties with TLAPS.

Paths are relative to the repository (`taktis/core/manager.py` and so on).

## 1. Inventory

The program is **one asyncio event loop**. Nothing preempts a coroutine between
two suspensions (`await`s that really wait), so the concurrency is that of
coroutines interleaving at their suspensions, plus the operating system killing
the whole server. The database is SQLite through a connection pool; a session
(`db.get_session`) commits when its block is left.

| Part | State | Operations | Hard part | What makes it correct |
|---|---|---|---|---|
| `manager.py` ProcessManager | registries `_processes`, `_output_tasks`, `_on_output`, `_on_complete`; a semaphore | start, continue, stop, stop_all, remove_dead_process, one monitor coroutine per process | waits inside `acquire()`, a stop racing a natural exit, entries removed by task id and not by owner | permits conserved, bounded concurrency, registries agree, one terminal event |
| `scheduler.py` WaveScheduler | `_executing_phase_ids`; rows of tasks and phases | execute_phase, execute_task and its callbacks, `_wait_for_tasks` | events published before the subscription, timeouts, errors in one of many starts, check-then-write on rows | waves sequential, checkpoints sound, a phase ends, no completed task runs again |
| `execution_service.py` ExecutionService | `_running_project_ids` | start/stop/continue/approve/resume/stop_all/run_phase/run_project | every handler suspends in `stop_task` and then writes a row | one process per task, a cancelled task stays down, nobody forgotten |
| `crash_recovery.py` | rows only | recover_stale_tasks, recover_unprocessed_reviews, report_interrupted_work | what a crash leaves between any two steps | no row is left running with nobody behind it |
| `sdk_process.py` SDKProcess | output queue (10000), EOF marker, pending permission | start, stop, stream, approve, deny, send_input | a full queue, an EOF that must arrive, a single permission slot | the monitor always sees the end; every request is answered once |
| `events.py` EventBus | subscriber queues (1000) | publish, subscribe, unsubscribe, sweep | dropped events, sweeping a live subscriber | whoever waits learns of the end, by event or by polling |
| `phase_review.py` | review and fix tasks, phase status | spawn, fix, re-review | runs inside `execute_phase`, and `_on_complete` judges the same phase | attempts bounded, verdict matches the last review |
| `graph_executor.py` GraphExecutor | results, skipped flags, pending gates, `_cancelled` | execute, resume, gates, plan approval, cancel, loops, retries | cancel against approval, skip propagation, waits without timeout | a node runs once after its feeders, skipped iff unreachable, a cancel ends the flow |
| `engine.py` Taktis | `_active_flow_executors` | start-up, facade | two flows of one project share one registry entry | gates reach the flow that waits for them |
| `cron_scheduler.py` | schedule rows, `_running_schedule_ids` | tick, trigger | due windows against the time of the last run | no double run, no missed run |
| `stale_task_watchdog.py` | none | periodic check | a task that waits for a permit looks dead | only dead tasks are failed |
| `planner.py`, `wave_grouper.py` | none | waves from dependencies | cycles, unknown dependencies | a task's wave is later than its dependencies' |
| `state.py` StateTracker | project_states row | metrics, decisions, blockers | read-modify-write | no lost update |
| `consult.py` | session registry (5, 30 min) | create, get, remove, sweep | eviction of a session in use | capacity respected |
| `db.py` | connection pool | get_session | exhaustion, cancelled sessions | a connection returns clean |
| `project_service.py`, `repository.py`, `web/app.py`, `context.py`, experts, prompts, templates, pipeline factory, configuration | rows, files, pages | CRUD, text, rendering | deletion of what is running | see "Not modelled" |

Calls go downward: `web` and `cron_scheduler` call `engine`, which calls
`execution_service` and `graph_executor`; these call `scheduler`, and
`scheduler` calls `manager`, which owns `SDKProcess`. Upward there are only the
callbacks `on_output` and `on_complete`, registered by task id in the manager
and called by the monitor, and events through `EventBus`. Rows are shared by
everyone. `PROJECT.json` lists every component, and under `hazards` the lines
where this goes wrong if it goes wrong.

## 2. Modules

| Module | Models | Extends |
|---|---|---|
| `ProcessManager` | `manager.py` and what it sees of an SDKProcess | |
| `WaveScheduler` | `scheduler.py` for one phase, the two event queues, the rows | `ProcessManager` |
| `ExecutionService` | the handlers of `execution_service.py`, `recover_stale_tasks`, the watchdog | `WaveScheduler` |
| `GraphExecutor` | `graph_executor.py` for one module of a flow: waves, gates, plans, loops, checkers, fan-outs, cancel, resume | |
| `PhaseReview` | `phase_review.py` with its callers (`execute_phase`, run and resume of a phase, `run_project`) over several phases, `recover_unprocessed_reviews` | |
| `Schedules` | the loop of `cron_scheduler.py`, the requests for schedules and flows, the flow registry of `engine.py` | |
| `EventBus` | `events.py`: bounded queues, drops, the sweep | |
| `SDKProcess` | `sdk_process.py`: output queue, end marker, permission slot, follow-up, stop | |
| `OutputPipeline` | from the process through the monitor, the bus and the relays to one page | `SDKProcess`, `EventBus` |
| `OutputDelivery` | the abstract specification of that pipeline | |
| `ConsultSessions` | `consult.py` and the advisor's requests | |
| `StateTracker` | the event loop of `state.py` | |
| `SessionPool` | `db.py`: `get_session` and its pool | |
| `*_proofs` | theorems about `ProcessManager`, `ExecutionService`, `GraphExecutor`, `Schedules`, `PhaseReview`, `OutputPipeline` | that module, `TLAPS` |
| `ExecutionHistories_proofs` | theorems about the histories of `ExecutionService` | `ExecutionService_proofs` |
| `Services_proofs` | theorems about `ConsultSessions`, `StateTracker`, `SessionPool` | these modules, `TLAPS` |
| `MC*` | small instances for TLC | that module |

The first three modules are layers of one system. An action of an upper module
that calls the lower one conjoins the action of the lower one (`LaunchTask` is
`StartTask` and what `execute_task` adds); that these layers use the manager
only through its operations is not a convention but a theorem, `ServiceUsesManager`.
`OutputPipeline` composes a process and a bus that exist apart, and
`OutputDelivery` says what the composition promises. `GraphExecutor`,
`PhaseReview` and `Schedules` stand above the scheduler and see of a task its
row and the steps in which it changes; each abstracts what the module below it
models in full. `MCServer` puts the last four services, which share no state,
into one run: the initial state chooses one of them (`focus`) and the others
stand still, so the run explores the sum of their state spaces.

### Reading the models against the code

* **A step is what runs between two suspensions.** `EventBus.publish` and
  `SDKProcess.start` never suspend (no `await` in them waits), so "take a free
  permit, start, register, create the monitor" is one step (`Enter`), and so
  are the terminal event and the monitor's `finally` (`MonitorFinishes`). A start
  without a free permit suspends *after* the duplicate check (`queued`).
* **A task created with `create_task` has not run yet.** Hence `fresh` monitors
  and runs, `spawned` calls and runners, `created` queries. A `fresh` monitor that
  is cancelled never enters its `try`: stage `leaked`.
* **A `Proc`** is an SDKProcess with the call that carries it and its monitor.
  The set bounds how many exist at once; an object is reused when nothing
  refers to it any more (`Unused`).
* **`callbacks[t] = i`** says that the closures registered under `t` are those of
  the call that carries `i`. Whatever process exits, the closures registered
  *now* record it (`RunRecorded`, `ContinuationRecorded`), as the monitor looks
  them up by task id.
* **Sessions.** SQLite opens a transaction with the first write. A handler that
  writes what it read in the same session is split where it suspends *and*
  others may write in between: `LoadTask` / `MarkRunning`, `UserStarts` /
  `RunRequested`, `UserStops` / `StopRecorded`, `UserApproves` /
  `ApprovalRecorded`. A handler that reads in one session and writes in another
  keeps what it has read in a variable: a resume reads the phase, then the rows, and
  resets later what it has read as stuck (`ResumePhase`, `ResumeLoads`,
  `ResumeResets`, variable `resume`); `stop_all` stops, lists the running rows and then
  cancels them (`StopAll`, `Halt`, `StopAllLists`, `StopAllRecorded`, variable
  `listed`). `on_complete`'s final session is one step.
* **Events.** A runner's queue keeps the tasks for which an event has arrived
  and which it waits for; others are dropped when drained. The order among
  events of one queue does not matter, the order of the two queues does
  (`DrainQueues`).
* **`happened`** is a history variable: the kinds of mishaps and user operations
  so far. The constant `Together` (`MayCome` in `GraphExecutor` and `SDKProcess`)
  lists the sets of kinds that may occur in one behaviour, which is the bound on
  the environment; with a singleton of all kinds there would be no restriction. A
  property says by `Never`, `Orderly` or a test of `happened` which histories it
  speaks about.
* **The watchdog** is one more actor of `ExecutionService`. Its threshold of five
  minutes is a choice: any row that is running without a live process may be old enough.
  It reads the row (request `suspect`), fails it unless a process lives by then, whatever
  the row says by then, stops what is registered when that is committed, and publishes
  the failure (`WatchdogReads`, `WatchdogFails`, `WatchdogStops`, `WatchdogTells`).

`GraphExecutor`
* A text is the set of marks the program looks for in it: `issue` (the pattern
  of conditionals, loops and checkers) and `FAILED` (the summary of a failed task).
* `stack` holds the calls the executor is inside of, innermost first: a
  handler that awaits a task, a revision inside a loop, an item of a fan-out, a gate. It is
  what the interpreter's own stack would tell, and what a crash forgets.
* `topological_sort_waves` is the recursive function of Kahn's rounds,
  `_mark_skipped` the fixpoint it computes; `dropped` is a history of the ports
  that were not taken, against which `SkipExact` is stated. `redone` is a history of
  the instant nodes that a revision ran again below the revised agent.
* The tasks are rows that end as `WaveScheduler` ends them. `dies` is a database
  error in the wait of a wave, which leaves `execute` while the tasks go on;
  `crash` takes everything but the rows; `resume` builds a new executor from them.
* `resume` looks a node's row up by wave and name (`LastRow`), as the code does. Names
  are chosen by the user and need not differ; the row of a node without a name is called
  "Agent" or "LLM Router" (`RowName`), so the node itself never finds it, but one of
  that name does. Rows of revisions, re-checks and items carry names made up for them
  and are never matched. A graph may hold a node of a type the executor does not know,
  which it passes over (`ExecuteUnknown`).

`PhaseReview`
* Three kinds of coroutine: `Hands` (`run_phase`, `resume_phase`), `Project`
  (`run_project`, whose snapshot of phases is `agenda`) and `Recovery`. All three
  drive the same review cycle; only the recovery does so without the guard.
* The waves of a phase are one work row. `loop[p]` keeps of the review and fix rows
  what the code reads of them again: whether one failed or is pending, how many
  fixes are completed, what the newest review said.
* `crowded` and `overruled` are histories: phases whose cycle ran beside the
  recovery's, phases a resume touched while somebody worked on them. Somebody who has
  not asked the guard yet does not make a phase crowded. The read and the reset of a
  resume, two sessions in the code, are one step here: whatever could come between
  them is the work of somebody, and then the phase is `overruled`.
* A work, review or fix row that a user stops is seen by the coroutine that awaits it
  as `failed` (the event) or as `cancelled` (the polled row).

`Schedules`
* A job is a coroutine that executes a flow: the loop's own trigger, a manual
  trigger, or a flow a user executes or resumes. A flow runs module after module, may
  wait at a gate, and ends.
* Time is counted in ticks. The loop reads the rows once for a round and judges and
  triggers by what it has read (`seen`: `last_run_at`, `chosen`: the template,
  `untimed`: no `time_of_day`), awaiting one trigger after the other; the clock goes on
  meanwhile, rows and templates change, and it wakes up `Interval` to
  `Interval + Late` ticks after it has finished.
* A template is an entity of its own with a content (`kind`) that `EditTemplate`
  changes and `Trigger` loads as it is then. A request that creates or changes a
  schedule checks the template in one session (`CheckTemplate`) and writes the
  row in another (`ChangeTemplate`); `change` is what lies between.
* A schedule without a `time_of_day` (`ChangeTime`) makes `_should_run` raise, which ends
  the round for all that come behind it (`RoundRaises`); the order of the rows is open.
* Histories: `crossed` (a flow met another one of its project), `edited` (a template
  got its gate while a schedule had been accepted with it), `lost` (`last_run_at` does
  not tell the last trigger), `excused` (the loop could not judge a schedule in this
  window).

`SDKProcess`, `EventBus`, `OutputPipeline`
* Output events are numbered as they are made; `Eof` = 0 is the end marker and
  the event that tells the end, `Foreign` = -1 what other tasks publish on the same topic.
* The five runners of `sdk_process.py` differ in options and are one coroutine. Run 2
  is the follow-up that `send_input` starts on the client of run 1; it is accepted while
  the manager knows the process, also after the end of the stream (`Known`).
* `stop` first awaits the client's interrupt and disconnect (`StopCalled`, stream
  `stopping`), while the run goes on, and cancels it afterwards (`StopCancels`, `cut`).
* `fullSince` is `_full_since`; which of the noted queues have been full for 60
  seconds is a choice of the environment.

`ConsultSessions`, `StateTracker`, `SessionPool`
* The text of an answer is the number of the message it answers. `shared` marks a
  page whose queue another page reads as well, `endless` a session whose query left
  no end marker.
* A round of the tracker is `wait` (its gets are out), `handle`, `drain`. A get that is
  answered in `handle` is in nobody's hands: its event is `excepted`.
* A borrower of `SessionPool` is one use of `get_session`; a write is the pair of
  the borrower and the number of its statement, so the database content tells
  whose transaction committed what.

### Bounds in the actions

`ProcessManager` and above: one stop in flight per task (`StopTask`), one operation in
flight per task (`Idle`), one `stop_all` in a history, one resume in flight, one call
per task and origin, and the finite sets `Task`, `Proc`, `Runner`; one phase.
`GraphExecutor`: `MaxTask` rows, `MaxRound`, `MaxItem`, one resumption. `PhaseReview`:
`MaxRequests`, `MaxCrashes`; `MaxReviews` bounds a counter and is never reached.
`Schedules`: `Horizon`, `MaxRequests`, one change of a template in flight. `SDKProcess`:
`MaxEvent` and one follow-up. `ConsultSessions`: `MaxTurns`. `StateTracker`:
`MaxEvents`. `SessionPool`: `MaxBorrower`, `MaxWrites`.

### Abstractions

* The retry policy (patterns, attempts, backoff) is the set `Retryable`; a
  retryable error may or may not be retried.
* A start or a continuation that raises, an `execute_task` that raises before it
  writes its row (phases only) and a database error under `execute_phase` are
  choices of the environment. Such an error before the wave loop or while the
  phase is finalised is not modelled.
* `RunExits`: every run that ends by itself delivers a result event with a
  session id; a run that is stopped does not.
* Recovery's check of a process id is dropped: `pid` is always `None` with the
  SDK. SDK subprocesses that outlive a crashed server are ignored.
* `PhaseReview`: timeouts and retries of the waits are `WaveScheduler`'s. When a
  resume puts a row back to pending whose process lives, the model does not keep both.
* `Schedules`: a database error and a template that is missing or no JSON are the
  same branch of `Trigger`. Windows are hourly, daily or weekly with the time
  scaled; projects exist as long as their schedules. A shutdown is `ServerDies`.
* `SessionPool`: `get_session` opens a connection of its own after ten seconds, so
  nobody waits for ever; a rollback that itself raises is not modelled.

## 3. What is checked

All passing runs finish with their whole state space explored.

| Run | Instance | Shows |
|---|---|---|
| `manager` | 2 tasks, 3 processes, 1 permit | the safety properties of the manager and that queued calls are served |
| `leak` | the same | **violation**: a permit is lost when a process is stopped before its monitor's first step |
| `ends` | 3 tasks in 2 waves, interactive ones in both, 1 runner, 2 processes, 1 permit | every `execute_phase` ends, through failing starts, timeouts, database errors and permission requests, unless unanswered requests keep every permit from a sibling |
| `retry` | 2 tasks in 2 waves, one retryable, `phase_timeout` fair | **violation**: a requeued task is not executed again |
| `waves` | 3 tasks in 2 waves (one retryable), 2 processes, 2 permits, 1 runner | barrier and checkpoints through stops, permissions, requeued errors, failing starts and calls, crashes and resumes |
| `users` | 2 tasks in 2 waves, 2 processes, 2 permits, 2 runners | one runner, one process per task, nobody forgotten, cancelled tasks stay down, checkpoints and completion, for nine mixes of user operations, watchdog and mishaps, among them a resume beside a runner at work |
| `rerun` | 2 tasks, 1 permit, timeouts | **violation**: `execute_task` has read a row, its old process completes, and `running` is written over the completion |
| `graph` | all graphs of an agent and two conditionals, cyclic ones included, and graphs that have every kind of node, with namesakes, an unnamed and an unknown one; one retry, two items, one resumption | sorting, skipping, feeding, completion and end of a flow under failures, stops, requeued tasks, cancellations, crashes, resumptions, refused starts |
| `plan` | the same | **violation**: a plan that waits for its approval is applied when the flow is cancelled |
| `pipeline` | three queues of size 1, 2 events and a follow-up, foreign events | order, no silent loss, the end marker, the permission slot, arrival |
| `review` | 2 phases, the first reviewed, 1 attempt, 2 requests, 1 crash | CRITICALs handled, fixes bounded, verdicts kept, phases in order, every cycle ends |
| `server` | 2 schedules, 2 templates and 1 request job; 2 advisor sessions at capacity 1, 2 pages, 2 turns; 4 events; 3 database sessions on 2 connections | reachable flows, no double and no missed run, pages served, events counted, sessions atomic |

Why these sizes: two processes with one permit give a holder and a waiter, a third one
lets a continuation or a second start of the same task join them. Two tasks in wave 1
give siblings that end differently, one in wave 2 gives something to hold back, abort or
resume. Two runners give the guard somebody to refuse, and a resume somebody who ends a
task between its read and its write. In `graph`, a node with two feeders that both
branch is the smallest in which skipping can go wrong, one retry separates "revised"
from "exhausted", and the graph `Revised` has a conditional below the agent that a loop
revises, so it decides twice. In `pipeline`, queues of size 1 overflow at the second
event, wherever it is. In `review`, one attempt separates "fixed" from "given up", the
crash cuts the cycle at each of its steps, and the second request gives a resume or a
stop beside `run_project`; the second phase gives something that must wait. In `server`,
windows of two ticks in four and a guard of three are the daily window and its guard,
close enough that a late check, a long flow and a manual run collide within two periods;
the second session evicts the first at capacity one; two pages share a queue; two
connections and three borrowers give one that inherits what another has left. More of
each repeats the same interactions.

### Properties

`ProcessManager`
* `SlotsConserved`, `ConcurrencyLimit`: permits are neither lost
  count of nor exceeded. A process being stopped is excepted, since its monitor
  returns the permit before `stop_task` reaches `process.stop()`.
* `RegistryAgrees`: `stop_task` never cancels one process's monitor and kills
  another process.
* `OneTerminalEvent`: subscribers hear exactly once that a process has ended.
* `WaiterServed` (liveness): a call waiting for a permit gets one, unless leaked
  monitors hold all of them (`Starved`).

`WaveScheduler`
* `OneRunner`: the guard and the coroutines agree, and there is one at most.
* `WaveBarrier`: the phase's processes that are alive are all of one wave.
* `PhaseEnds` (liveness): every `execute_phase` ends, unless in the end all permits are
  held by processes whose requests no user answers, while a sibling in `gather` waits
  for one (`UsersKeepPermits`); neither wait has a timeout.

`ExecutionService`
* `TypeOK`, with the types of the two modules below (`ManagerTypeOK` among them).
* `CheckpointSound`: no task at or below `current_wave` is pending, running or
  failed, so a resume passes over nothing, except the tasks in `Reopened`.
* `CompleteMeansDone`: a complete phase has no unfinished task, with that exception.
* `NobodyForgotten`: a running row has somebody who will rewrite it.
* `SingleProcess`: two processes of one task never work side by side, whether its
  tasks are left to the phase or run by hand.
* `CancelledStaysDown`: no process of a cancelled task runs or waits to run.

`GraphExecutor`
* `ExecutorTypeOK`.
* `WavesLayered`: the sort refuses exactly the cyclic graphs, and puts each node
  into the earliest wave its wires allow.
* `SkipExact`: the skipped nodes are the least set closed under "a port not taken
  leads here" and "all feeders are skipped", in whatever order branches were decided.
* `AgentsFed`: an agent starts when every feeder is done or skipped, also in a
  resumed flow; and it is not skipped itself, unless a node above it was `redone`.
* `CompleteSound`: a phase reported complete has run every node that was not skipped.
  Both except nodes that a resume has taken for their namesakes (`Mistaken`).
* `FlowEnds` (liveness): a flow ends or waits for its user.

`OutputPipeline`
* `Ordered`: the refinement of `OutputDelivery` — a page shows events in the order
  in which they were made and none twice, across three queues and two relays.
* `NoQuietLoss`: an event that is not in exactly one of the places on its way was
  dropped by a full queue, a sweep, or before the page was there.
* `MarkerThere`: "the end marker MUST succeed or the monitor hangs".
* `Answerable`: the request that waits is the one the user sees and answers.
* `OutputArrives` (liveness): each event, and the end of the task, reaches the page.

`PhaseReview`
* `TypeOK`; `OneCycle`: two coroutines work on a phase only if one is the recovery's.
* `CriticalsHandled`: a phase is not complete on top of a critical review unless
  somebody works on it or the recovery is about to.
* `FixesBounded`: no more than `_MAX_REVIEW_ATTEMPTS` fixes for a first review, over restarts.
* `VerdictStands`: a phase whose newest review passed is not left failed.
* `PhasesInOrder`: `run_project` goes on only behind a complete, uncritical phase.
* `CyclesEnd` (liveness).

`Schedules`, `ConsultSessions`, `StateTracker`, `SessionPool`
* `FlowReachable`: the registry knows the flow that executes, and nothing that ended.
* `Headless`: the loop starts a flow with a gate only if its template got the gate after
  a schedule had been accepted with it (`edited`).
* `NoDoubleFire`, `NotMissed`: one trigger per window, and one in every window.
* `PagesServed`: a page gets text of its own turn or a newer one, never of an older one,
  and the end marker comes.
* `EventsCounted`: a failure that names its project is counted exactly once.
* `SessionsAtomic`: all writes of a session that ended well are committed, none of
  one that raised, whoever had its connection before; nobody keeps the write lock.

### What the conditions of the properties mean

The conditions of the properties are results, not conveniences: for each kind of
history that is excluded TLC shows a behaviour of the code that breaks the
property, and no documentation promises the contrary. They are the limits
within which the code keeps its promises.

`Orderly` and `Never(...)` in the service:

* After a **timeout** or a **database error** the runner has left while
  processes of its wave go on. A rerun then overlaps with them: the barrier, the
  checkpoint and "complete means done" are lost.
* **Starting or continuing by hand** a task of a phase that is being run, the
  same; and a start shortly after an exit lets the old monitor's `finally` remove
  the new run's callbacks, so the new run is never recorded.
* **A permission request** writes `awaiting_input`, on which the runner goes on to
  the next wave; the answer writes `running` again, and if the process has ended
  in between, nobody rewrites that row.
* **The watchdog** fails tasks that merely wait for a permit. They start later all
  the same, while the runner has counted them as failed; a user may start such a
  task a second time, since the duplicate check comes before `acquire`; and a row
  that is run again between the watchdog's commit and its stop loses the new process.
* **Both at once**: a task run by hand while a runner may take it, or
  answered or failed by the watchdog and then started by hand, may get a second process
  (`SingleProcess` allows the phase with all its mishaps, or the hand alone; the
  proof has an invariant for each).
* **stop_all** cancels the rows of tasks that still wait for a permit; they start
  later.
* **A stop with a resume or a crash in its middle** writes `cancelled` over the
  row of a task that a new runner has reset.
* **A crash with an interactive task** in a checkpointed wave puts it back to
  `pending`, behind the point from which a resume starts (`Reopened`).
* **A resume beside a runner at work** resets the rows it had read as running or failed. A
  task that ends between its read and its write is `pending` again, below a
  checkpoint or in a complete phase (`overwritten`, the other part of `Reopened`).

Elsewhere:

* `early` (`AgentsFed`, `CompleteSound`): a user has continued an interactive task
  before the executor's wait had seen its turn end; the wait takes the old end for
  the new one.
* `Mistaken` (`AgentsFed`, `CompleteSound`): of two nodes with one name in one wave, a
  resume takes the last row of that name for both, if it completed.
* `redone` (`AgentsFed`): the nodes of a wave that are not skipped are listed before
  its instant nodes run. When one of these asks for a revision and a conditional
  decides again, it may skip an agent of this very wave, which is started all the same.
* `Forgotten` (`FlowEnds`): a task put back to `pending` by the retry is
  awaited without a timeout, and nothing runs it.
* `parallel` (`Answerable`): a second permission request overwrites the slot of the first.
* `crowded`, `overruled` (`PhaseReview`): the recovery's cycle asks no guard, so two
  cycles may judge one phase; `resume_phase` resets a phase that is being worked on
  and leaves it `in_progress` when its own runner is then refused.
* The first review beside an older failed review or fix (`VerdictStands`): the
  judgement of `on_complete` looks at all rows of the phase.
* `crossed` (`FlowReachable`): two flows of one project share one registry entry.
* `lost`, `excused`, `Left` (`NoDoubleFire`, `NotMissed`): `last_run_at` is written when
  the flow ends, with the time at which it was called; the loop waits for the flows it
  triggers, and gives a round up at a schedule without a time.
* `edited` and plans (`Headless`): `detect_interactive_nodes` runs before a schedule is
  saved and never again. A gate may come into the template between that check and the
  write, while schedules use it, or after the round has read the row. Nor does it look for
  plan appliers, so the property speaks of gates only.
* `shared`, `endless` (`PagesServed`): two pages of one session take from one queue;
  a query cancelled before its first step, or whose end meets a full queue,
  leaves no end marker.
* `cancelled` (`SessionsAtomic`): see the observations below.

### Fairness

`ManagerFairness` and `SchedulerFairness` give weak fairness to what the event loop
runs without anybody's help: the steps of runners, calls, monitors and woken
waiters, and the end of an SDK run (a run has a bounded number of turns), unless
it waits for a permission, which nobody has to grant.
The semaphore's queue is FIFO, so weak fairness is enough. Users, stops,
crashes, permissions and errors carry none. `SchedulerTimedSpec` adds strong
fairness of `WaitTimesOut`: the deadline is only tested at the top of the waiting
loop, to which the runner comes back again and again. `PhaseEnds` does not need
it as long as no task is retryable. Process liveness without fairness of exits
would be false, since nothing but `phase_timeout` bounds a run.

`ExecutorFairness` is the same for the executor's coroutine and the ends of its
tasks; gates, approvals and turns are the user's and carry none, which is why
`FlowEnds` names them. `Fairness` of `PhaseReview` gives it to its coroutines and
processes. `PipelineFairness` gives it to the coroutines between process and
page, to the timeouts of their puts and of the heartbeat, and to the browser
(one that stops reading is disconnected sooner or later); the relays have strong
fairness of their puts, since asyncio wakes the putters of a full queue in the
order in which they came. That a stop goes on (`StopCancels`) assumes that the
client's interrupt and disconnect return. The agent itself owes nothing.

### Observations

While the models were written, the following differences between the code and
what it says, or plainly intends, came up. Those with a run are findings.

* Manager and service: the permit lost with each stop that comes before the monitor's
  first step (`leak`), the requeued task that nobody runs (`retry`), `running` written
  over a completion (`rerun`), and what the conditions above tell. A resume that has read its
  rows before a running phase ends puts completed tasks back to `pending`
  (`execution_service.py:805`, 820, 840), although `current_wave` is "last *fully*
  completed wave" there (811). An unanswered permission request that has the only
  permit keeps the siblings of its wave waiting for ever, and the phase with them.
* Flows: the plan applied by a cancel (`plan`). Besides: a cancel that comes while an
  earlier gate of a wave waits lets a later gate of that wave wait for ever
  (`graph_executor.py:792`); `resume_flow` does not stop after a failed
  wave (718, against 689); a failed revision's summary replaces the result it was to
  revise (2381, 2513); a resumed flow takes the original result instead of the
  revised one (602) and applies an applied plan again; a start refused in a wave leaves its
  siblings running (811), and so does an item of a fan-out that raises (1948);
  `stop_all` of one project cancels the executors of all (`engine.py:395`). Two nodes of a
  wave with one name (the editor calls every new agent "Agent") are both restored from the
  last of their rows (592-603): the one that failed never runs, and the flow may
  be reported complete. A revision
  runs the instant nodes below the revised agent again "up to" the asking node (1299),
  but in fact also those of later waves and of skipped branches (1302-1318); and as
  `skipped` is never taken back, a conditional that then decides otherwise leaves both of
  its branches skipped.
* Output: the sweep goes by `_full_since`, so it can take away a queue that its
  reader has emptied since, and a page is not told; a follow-up that comes between
  result and end marker is never delivered; a stop cancels the latest run only.
* Reviews: a failed review or fix process marks the phase failed although
  `phase_review.py:85` says that it stays complete; a first review that was interrupted is
  not recovered although the docstring says so; a second crash in a recovered
  cycle drops it; the recovery counts all completed fixes there ever were. A re-review
  that a user stops, and whose row is polled before its event comes, has no result and so no
  critical finding: the phase is complete (`phase_review.py:277`, 303).
* Schedules: the minute of a daily schedule is not looked at; a manual run shortly
  before suppresses the daily one; a long flow makes the schedules of the same check
  late, or miss their window. `api_run_schedule_now` has no guard: of two manual runs of
  one schedule, the one called first may end last and put `last_run_at` back (304). Both
  requests accept a null `time_of_day`; `_should_run` then raises `AttributeError`
  (`cron_scheduler.py:202`), for an hourly schedule too, and the round ends (165): as long
  as the row is there, the schedules behind it are judged in no round.
* Services: the tracker passes over all events of the manager, which do not name a
  project, so completed tasks are never counted; a send to a session that was
  evicted while the request's body was read starts a query nobody stops; a
  cancelled database session is not rolled back (`db.py:548` catches
  `Exception`), so the next borrower of its connection commits it.

## 4. What is proved

TLAPS checks the following for every value of the constants that satisfies the
named assumptions of the modules: finite sets, positive sizes, and `None` and the
like distinct from what they are compared with. TLC evaluates each of these
assumptions in some run.

**The manager** (`ProcessManager_proofs`, from `ManagerAssumption`).
`SlotsConserved`, `RegistryAgrees`, `ConcurrencyLimit` and `OneTerminalEvent` are not
inductive. The strengthening is `ManagerInv`, with the types:

* `RegistrySound`: a registered process belongs to the task that registered it,
  still holds its permit, and lacks a monitor entry only after a stop. Without
  it the `finally` of one monitor could remove the entry of another.
* `StopSound`: what a stop in flight may find. A stop that cut a monitor off
  owns the terminal event, so that event is still out.
* `LifeSound`: which stage goes with which owner, liveness and event count. In
  particular an alive process holds a permit or is being stopped, which turns
  conservation of permits into the concurrency limit.

Each action preserves `ManagerInv` by a lemma of its own; the counting argument
is in `HolderGained`, `HolderLost` and `HoldersKept` (how the cardinality of the
holders follows one change of `stage`), and both ways of starting share `EnterInv`.
`ManagerInvariant` combines them, and the properties and `ManagerTypeOK` follow.

**The service** (`ExecutionService_proofs`, from `SchedulerAssumption` as well).
`ServiceUsesManager` is a refinement: every step of the scheduler, the handlers,
the recovery, the watchdog and the mishaps is a step of `ManagerSpec` or leaves
the manager alone. So everything proved of the manager holds of the whole
(`ServiceKeepsManager`). `PhaseGuarded` proves `OneRunner` for the service with
crashes and any number of runners; its invariant is `OneRunner` together with the
domain of `pc`. `ServiceTyped` proves `TypeOK`. Besides the types, `ServiceInv` says
that what has left a trace has `happened` (a call of a user only after a `start`, a row
`awaiting_input` only after a `permission`), which is how the properties' conditions
enter the proofs: `happened` only grows, so what a history excludes at its end it
excludes at each step (`NeverBefore`).

**The histories of the service** (`ExecutionHistories_proofs`). All six properties of
its rows are theorems, for any number of tasks, waves, processes, permits, runners
and crashes. Five invariants, each under the condition it needs:

* `PhaseInv` (nobody runs tasks by hand): who waits inside a call is gathered by a
  runner, a queued process will find the entry of its task free, and who holds a permit
  is registered. This gives one half of `SingleProcess`.
* `HandInv` (tasks run by hand only): a task whose row is free to be started has
  nobody at work, and otherwise calls and one engaged process account for it. This
  gives the other half, and `CancelledStaysDown` for hands.
* `MindedInv`: for each running row the phase's own call, or a process with its own
  closures, or a stop or other work under way, of which a `stop_all` that has yet to list the
  rows, or has listed this one, is part (`AllStops`). `NobodyForgotten` follows.
* `OrderlyInv`: in an orderly history a runner waits for whoever is at work in its
  wave, rows of later waves are still to do, and a task at work says so in its
  row. `WaveBarrier` follows, and `CancelledStaysDown` for phases.
* `SettledInv`: what `current_wave`, the phase's status, a runner that has passed on,
  the wave a resume in flight will go on from, or a recorded exit say to be over, is
  settled in its row. It is stated of tasks outside `Reopened`: a resume may overwrite the end
  of a task it had read as stuck, and `overwritten` only grows. `CheckpointSound` and
  `CompleteMeansDone` follow.

Proving them corrected three conditions that the instance had been too small to
refute: `NobodyForgotten` does not hold beside the watchdog, `SingleProcess` not when
tasks are run by hand in a phase with permissions or a watchdog, and
`CancelledStaysDown` not beside them either.

**Schedules** (`Schedules_proofs`, from `SchedulesAssumption`). `SchedulesInv` says
which job knows its schedule and project (`JobsSound`), that the loop has a job exactly
while it awaits one (`LoopSound`), that the row and the check's snapshot of it are at
least as new as the last trigger unless that was `lost`, so that the guard sees it
(`RunKnown`), and ties a flow that is no longer in the registry to the one it met
(`Met`). A template with a gate that a row, a request between its check and its write,
the loop's round or its job names is `edited` (`GatesEdited`), which is what carries
`Headless` over all three gaps. `FlowsReachable`, `LoopHeadless` and the action property
`FiresOnce` follow for any number of schedules, projects and requests, and any lengths
of windows that keep the assumption's order. `NoneMissed` proves the action property
`NotMissed` from `WatchInv`: within a window each schedule that is not excused is
served, or the loop will come to it before the window closes, because it wakes up in
time (`Interval + Late <= Window`), or it is at this very tick in a check whose snapshot
is not newer than the row. This is where an error of the property came up that one web
request is too few to show: of two manual runs of one schedule, the one called first may
end last and put `last_run_at` back behind what the check has seen. It is an excuse of
its own now (`Saved`), and so is a round that ends at a schedule without a time.

**Reviews** (`PhaseReview_proofs`, from `PhaseReviewAssumption`). `OneCycle` needs
`CycleInv`: whoever is past the guard of a phase is in `executing` and alone, for
all coroutines but the recovery's. `Placed` (a working coroutine has a phase) and
the types carry the induction through the row that a coroutine awaits.
The other four properties follow from `LoopInv`. It says what a coroutine that is
alone with its phase (`Alone`) knows of it: at each step of the cycle the rounds it
has counted (`Counted`), the row it awaits (`Worked`), what it was told of the newest
review (`Told`) and what it will write (`Judged`) agree with `loop[p]`; and of a phase
nobody works on, what its rows and status owe to the last one who did (`PhaseSound`).
`FixesAreBounded`, `CriticalsAreHandled`, `VerdictsStand` and `PhasesGoInOrder` hold for
any number of phases, coroutines, attempts and crashes. Trying to prove them showed
that `crowded` had been too wide: a resume that had merely not asked the guard yet
counted as a second cycle, so every resumed phase was excepted from the first three.
It no longer is.

**Flows** (`GraphExecutor_proofs`, from `GraphAssumption`: a graph is finite and its
connections lead to nodes of it, which `parse_drawflow_graph` sees to). Four
inductive invariants, each on top of the one before:

* `Layout` (`Layered`). The levels of a graph that is accepted are `Layers`: one more
  than the deepest feeder. That the loop of Kahn's algorithm computes them is proved by
  induction over its rounds with `KSound`: the queue holds the open nodes all of
  whose wires come from nodes done, and each level is one more than the deepest feeder done.
  `KahnEnds` shows that it stops within as many rounds as there are nodes, and what it
  leaves over is a cycle. The loop is a recursive function, and the induction over its
  rounds rests on `AllNaturals`, which states induction for sets instead of operators.
* `SkipInv` (`Skipped`). `skipped` is the `Least` set closed under the two rules; a new
  port not taken extends the least set to the least set, since `_mark_skipped` is a
  least fixpoint itself.
* `Typed` (`ExecutorTyped`): besides the types, each call on the stack belongs to a node of
  the right kind (`FrameOK`), and a node's task is a row of that node (`Tasked`).
* `Sound`. The loop of waves only looks at flags; what it has done is scattered over
  the rows, the results and the stack. `Before` says that nodes of earlier waves are done
  or skipped and `InWave` the same of the part of the wave that has been passed. They
  need `Batch` (which nodes the wave took on), `Calls` (a node whose instant handler
  waits is on the stack, so returning from it is what completes it), `Told` (an event
  heard of a task is true of its row) and `Revisions` (an unfinished revision is
  awaited, so nothing passes it). `Over` and `Again` carry the conclusions.

`CompleteMeansRun` needs besides that waves have no gap (`NoGap`): a level above the
first has a level below it, so the first empty wave is the end. `FeedersFirst` proves the action
property `AgentsFed`. Its failed first version is how the exception `redone` was
found: it had claimed that no skipped agent is ever started. What a resume restores wrongly
is excepted by `Mistaken` node by node: `Before` and `InWave` say of each node that it is
done, skipped or mistaken, so one namesake does not weaken what is said of the others.

**Output** (`OutputPipeline_proofs`, from the assumptions of its three modules).
`DeliversInOrder` proves the refinement `PipelineSafe => Ordered` for queues of
any size, any number of events and all mishaps together. Its invariant `PageInv`
says that the output queue, the page's queue on the bus, the relay's hand
and the merged queue, read from the far end, form one increasing line behind
`shown` (`InLine`), that nothing of a closed page is left anywhere (`Closed`),
and the types. `NumbersAppend`, `IncreasingTail` and their like say once how an
increasing sequence survives being appended to and cut. `NothingLostQuietly` adds
`Accounted`: each event made is in one of the places on the line or behind it, or
`missed`, and what is in one place is in no other because the line increases.
`MarkerArrives` needs `Marked`: each single run that is done has left its marker in the
queue as long as the monitor reads, since an overflow empties the queue to put it.
`RequestsAnswerable` needs besides itself that a stop in flight has `happened`
(`StopHappened`).

**The small services** (`Services_proofs`), each from the assumption of its module.
`AtomicSessions` proves `SessionsAtomic` from `PoolInv`: a connection is in the
pool or with one borrower (`Alone`), what is uncommitted on it is written by that
borrower or by cancelled ones (`Open`), and every write stays in one place until it is
committed or rolled back (`Kept`). `CountedOnce` proves `EventsCounted` from
`TrackerInv`, whose `Rounds` shows why the dropped `get()` costs no failure: the
loop lets others run only in the session that counts a failure, and as that failure's
own `get()` is answered (one per topic), what is dropped meanwhile is of other topics.
`AnswersServed` proves
`PagesServed` from `ConsultInv`: a queue holds only text of the newest message
(`Current`), no page was opened for a later one and pages that read one queue know it
(`Paired`), and an end marker or the query that puts it is there (`Ending`).

**Only model-checked**: the liveness properties and the fairness behind them (out
of the prover's reach), that is `WaiterServed`, `PhaseEnds`, `FlowEnds`, `OutputArrives` and
`CyclesEnd`; and the violations, which are behaviours. Every other property of the passing
runs is a theorem. `WaveBarrier` is proved for `Spec` of `ExecutionService`, the
specification its run checks, in which the scheduler is one part.

## 5. Not modelled

* `planner.py`: it parses and repairs the text of a plan and inserts rows; what
  matters over time, whether and when a plan is applied, is in `GraphExecutor`.
* `wave_grouper.py` and the assignment of waves in `scheduler.py`: functions of the
  rows without state.
* `project_service.py`, `repository.py`: single transactions and their views.
  Deleting a phase that is being executed would need rows that disappear under a
  runner in `WaveScheduler`.
* `context.py`, experts, agent templates, prompts, profiles: files and text.
* `pipeline_factory.py`, configuration, exceptions: built or read once.
* `web/app.py` beyond the pages and requests named above: its other routes call one
  service method, which is an action of a module here, or render a page.
* `db.py` beyond `get_session`: schema, migrations, seeds.
* Parts of modelled components: cron expressions and the calendar of monthly
  schedules; the continuation `send_input` starts when the process is gone;
  `stop_all` of one project (stops in sequence); the preparatory phases of the
  designer; the setters of `state.py` that nothing calls.

What remains worth doing: deletion of rows under a runner.

## 6. Running

    tlc -workers 2 -config MCProcessManager_manager.cfg MCProcessManager
    tlapm ProcessManager_proofs.tla

A configuration is named after its module and its run. The longest ones are
`waves` (under three minutes), `users` (two minutes), `ends` and `server` (a minute and
a half each).
