---------------------------- MODULE WaveScheduler ----------------------------
(***************************************************************************)
(* taktis/core/scheduler.py: a phase executed wave by wave on top of the   *)
(* ProcessManager, with the database rows it keeps and the two event       *)
(* queues it waits on.                                                     *)
(*                                                                         *)
(* One phase is modelled.  A Runner is one execute_phase coroutine, a call *)
(* one execute_task coroutine (or the launch half of a continuation).  A   *)
(* database session is one transaction committed at its end, so a session  *)
(* that writes before it reads is one step; execute_task reads its task    *)
(* before it writes, and that gap is a step boundary.                      *)
(***************************************************************************)
EXTENDS ProcessManager, FiniteSetsExt

CONSTANTS Wave,         \* wave number of each task
          Interactive,  \* tasks with interactive = 1
          Retryable,    \* tasks whose retry policy may still apply
          Runner,       \* execute_phase coroutines that can exist at once
          Together      \* which mishaps and operations may come together

ASSUME SchedulerAssumption ==
  /\ Wave \in [Task -> Nat \ {0}]
  /\ IsFiniteSet(Task)
  /\ Interactive \subseteq Task /\ Retryable \subseteq Task

VARIABLES
  status,       \* tasks.status
  phaseStatus,  \* phases.status
  curWave,      \* phases.current_wave, 0 for NULL
  sessions,     \* tasks whose row has a session_id to resume
  executing,    \* phase_id in _executing_phase_ids
  pc,           \* where a runner stands
  startWave,    \* its start_wave argument
  wave,         \* the wave it is at
  todo,         \* tasks of its snapshot in this and later waves
  waiting,      \* pending of _wait_for_tasks
  failed,       \* tasks _wait_for_tasks reports as failed
  seenC,        \* completion events in the runner's queue, by task
  seenF,        \* failure events in the runner's queue, by task
  call,         \* where the execute_task call of a task and origin stands
  carrier,      \* which kind of call a process was started by
  asking,       \* the process waits for a tool permission
  happened      \* history: the mishaps and operations so far, by kind

dbVars == <<status, phaseStatus, curWave, sessions>>
queueVars == <<seenC, seenF>>
runnerVars == <<executing, pc, startWave, wave, todo, waiting, failed>>
callVars == <<call, carrier, asking>>
schedulerVars == <<managerVars, dbVars, queueVars, runnerVars, callVars,
                   happened>>

Terminal == {"completed", "failed", "cancelled"}
Done == Terminal \cup {"awaiting_input"}
Statuses == Done \cup {"pending", "running"}
PhaseStatuses == {"not_started", "in_progress", "complete", "failed"}

(* idle     no such coroutine            drain    top of the waiting loop   *)
(* spawned  created, not run yet         poll     queues drained, no poll   *)
(* entered  holds the guard              verdict  all results are in        *)
(* ready    between two waves            abort    failing the rest          *)
(* gather   starting the wave's tasks    leaving  phase final, guard held   *)
RunnerStates == {"idle", "spawned", "entered", "ready", "gather", "drain",
                 "poll", "verdict", "abort", "leaving"}

(* Who runs a task: the phase, start_task, or continue_task. *)
Origin == {"phase", "user", "continue"}

(* spawned  not run yet        ready    row says running, not launched     *)
(* loaded   task row read      waiting  inside semaphore.acquire()         *)
(* rejected start_task raised, the row not yet marked failed               *)
(* faulted  execute_task itself raised; gather keeps the exception         *)
CallStates == {"none", "spawned", "loaded", "ready", "waiting", "rejected",
               "faulted"}

InWave(r) == {t \in todo[r] : Wave[t] = wave[r]}

(* The next wave of the snapshot, start_wave being the first to run. *)
Ahead(r) == {t \in todo[r] : Wave[t] >= startWave[r]}

SchedulerInit ==
  /\ ManagerInit
  /\ status = [t \in Task |-> "pending"]
  /\ phaseStatus = "not_started"
  /\ curWave = 0
  /\ sessions = {}
  /\ executing = FALSE
  /\ pc = [r \in Runner |-> "idle"]
  /\ startWave = [r \in Runner |-> 0]
  /\ wave = [r \in Runner |-> 0]
  /\ todo = [r \in Runner |-> {}]
  /\ waiting = [r \in Runner |-> {}]
  /\ failed = [r \in Runner |-> {}]
  /\ seenC = [r \in Runner |-> {}]
  /\ seenF = [r \in Runner |-> {}]
  /\ call = [t \in Task |-> [o \in Origin |-> "none"]]
  /\ carrier = [i \in Proc |-> "phase"]
  /\ asking = [i \in Proc |-> FALSE]
  /\ happened = {}
-----------------------------------------------------------------------------
(* What nobody promises not to happen, and what users choose to do, leaves *)
(* a trace by which a property can say what it depends on.  Bound: only    *)
(* kinds that are in a set of Together come together.                      *)
Happens(kind) ==
  /\ happened' = happened \cup {kind}
  /\ \E kinds \in Together : happened' \subseteq kinds

Never(kinds) == happened \cap kinds = {}
-----------------------------------------------------------------------------
(* EventBus.publish as the runners see it: only a subscribed runner gets   *)
(* the event, and one about a task it does not wait for is dropped when    *)
(* drained, so it is not kept.                                             *)
Subscribed(r) == pc[r] \in {"drain", "poll"}

Published(queue, t) ==
  [r \in Runner |-> IF Subscribed(r) /\ t \in waiting[r]
                    THEN queue[r] \cup {t} ELSE queue[r]]

PublishFailed(t) == seenF' = Published(seenF, t) /\ UNCHANGED seenC
PublishCompleted(t) == seenC' = Published(seenC, t) /\ UNCHANGED seenF

(* _mark_task_failed: row and event. *)
MarkTaskFailed(t) ==
  /\ status' = [status EXCEPT ![t] = "failed"]
  /\ PublishFailed(t)
  /\ UNCHANGED <<phaseStatus, curWave, sessions>>
-----------------------------------------------------------------------------
(* execute_task *)

(* The row is read; a completed task is not executed again. *)
LoadTask(t, o) ==
  /\ call[t][o] = "spawned"
  /\ call' = [call EXCEPT ![t][o] = IF status[t] = "completed" THEN "none"
                                    ELSE "loaded"]
  /\ UNCHANGED <<managerVars, dbVars, queueVars, runnerVars, carrier, asking,
                 happened>>

(* The row is written, and a phase nobody had started is in progress. *)
MarkRunning(t, o) ==
  /\ call[t][o] = "loaded"
  /\ call' = [call EXCEPT ![t][o] = "ready"]
  /\ status' = [status EXCEPT ![t] = "running"]
  /\ phaseStatus' = IF phaseStatus = "not_started" THEN "in_progress"
                    ELSE phaseStatus
  /\ UNCHANGED <<managerVars, queueVars, runnerVars, curWave, sessions,
                 carrier, asking, happened>>

(* start_task returns, or suspends in semaphore.acquire(). *)
LaunchTask(i, t, o) ==
  /\ o # "continue" /\ call[t][o] = "ready"
  /\ StartTask(i, t)
  /\ carrier' = [carrier EXCEPT ![i] = o]
  /\ call' = [call EXCEPT ![t][o] = IF SlotFree THEN "none" ELSE "waiting"]
  /\ UNCHANGED <<dbVars, queueVars, runnerVars, asking, happened>>

(* start_task raises: duplicate, or process.start() failed. *)
LaunchRefused(t, o) ==
  /\ o # "continue" /\ call[t][o] = "ready"
  /\ \/ processes[t] # None /\ UNCHANGED happened
     \/ processes[t] = None /\ Happens("start_raises")
  /\ StartTaskRefused(t)
  /\ call' = [call EXCEPT ![t][o] = "rejected"]
  /\ UNCHANGED <<dbVars, queueVars, runnerVars, carrier, asking>>

(* A session of execute_task raises before the row is written; gather      *)
(* hands the exception to execute_phase.                                   *)
CallFaults(t) ==
  /\ Happens("call_error")
  /\ call[t]["phase"] \in {"spawned", "loaded"}
  /\ call' = [call EXCEPT ![t]["phase"] = "faulted"]
  /\ UNCHANGED <<managerVars, dbVars, queueVars, runnerVars, carrier, asking>>

(* Seeded bug: what gather returns is not looked at. *)
CallFailsUnnoticed(t, o) ==
  /\ call[t][o] \in {"rejected", "faulted"}
  /\ call' = [call EXCEPT ![t][o] = "none"]
  /\ IF call[t][o] = "rejected" THEN MarkTaskFailed(t)
     ELSE UNCHANGED <<dbVars, queueVars>>
  /\ UNCHANGED <<managerVars, runnerVars, carrier, asking, happened>>

(* _mark_task_failed: by the except branch of the call, or by              *)
(* execute_phase once gather has returned with the exception.              *)
CallFails(t, o) ==
  /\ \/ call[t][o] = "rejected"
     \/ /\ call[t][o] = "faulted"
        /\ \A s \in Task : call[s]["phase"] \in {"none", "faulted"}
  /\ call' = [call EXCEPT ![t][o] = "none"]
  /\ MarkTaskFailed(t)
  /\ UNCHANGED <<managerVars, runnerVars, carrier, asking, happened>>

(* A call that waited for a slot gets it and returns. *)
WaiterStarts(i) ==
  /\ SlotGranted(i)
  /\ call' = [call EXCEPT ![owner[i]][carrier[i]] = "none"]
  /\ UNCHANGED <<dbVars, queueVars, runnerVars, carrier, asking, happened>>

(* A call that waited for a slot gets it, and process.start() raises. *)
WaiterRejected(i) ==
  /\ Happens("start_raises")
  /\ SlotGrantedStartRaises(i)
  /\ call' = [call EXCEPT ![owner[i]][carrier[i]] = "rejected"]
  /\ UNCHANGED <<dbVars, queueVars, runnerVars, carrier, asking>>
-----------------------------------------------------------------------------
(* The process and its monitor, with the callbacks of execute_task *)

StreamStarts(i) ==
  /\ MonitorStarts(i)
  /\ UNCHANGED <<dbVars, queueVars, runnerVars, callVars, happened>>

(* The SDK run ends with a result event, from which _on_output keeps the   *)
(* session.  A process that waits for a permission cannot end well.        *)
RunExits(i) ==
  /\ ProcessExits(i)
  /\ asking[i] => exitCode'[i] = "error"
  /\ asking' = [asking EXCEPT ![i] = FALSE]
  /\ sessions' = IF callbacks[owner[i]] = None THEN sessions
                 ELSE sessions \cup {owner[i]}
  /\ UNCHANGED <<status, phaseStatus, curWave, queueVars, runnerVars, call,
                 carrier, happened>>

(* _on_output of an event with is_checkpoint. *)
ToolCheckpoint(i) ==
  /\ Happens("permission")
  /\ stage[i] = "streaming" /\ alive[i] /\ ~ asking[i]
  /\ owner[i] \in Interactive
  /\ asking' = [asking EXCEPT ![i] = TRUE]
  /\ LET j == callbacks[owner[i]] IN
       status' = IF j # None /\ carrier[j] # "continue"
                 THEN [status EXCEPT ![owner[i]] = "awaiting_input"] ELSE status
  /\ UNCHANGED <<managerVars, phaseStatus, curWave, sessions, queueVars,
                 runnerVars, call, carrier>>

(* Seeded bug: only siblings that are running keep the phase open. *)
RecordFinalEarly(t, final) ==
  LET siblings == Task \ {t}
  IN /\ status' = [status EXCEPT ![t] = final]
     /\ phaseStatus' = IF \E s \in siblings : status[s] = "running"
                       THEN phaseStatus
                       ELSE IF "failed" \in {final} \cup {status[s] : s \in siblings}
                       THEN "failed" ELSE "complete"
     /\ UNCHANGED <<curWave, sessions>>

(* Seeded bug: the word of tasks for the end of a phase. *)
RecordFinalCompleted(t, final) ==
  LET siblings == Task \ {t}
  IN /\ status' = [status EXCEPT ![t] = final]
     /\ phaseStatus' = IF \E s \in siblings : status[s] \notin Terminal
                       THEN phaseStatus
                       ELSE IF "failed" \in {final} \cup {status[s] : s \in siblings}
                       THEN "failed" ELSE "completed"
     /\ UNCHANGED <<curWave, sessions>>

(* _on_complete up to its commit, for a run that ends as `final`: the row, *)
(* and the phase if no sibling is left to finish.                          *)
RecordFinal(t, final) ==
  LET siblings == Task \ {t}
  IN /\ status' = [status EXCEPT ![t] = final]
     /\ phaseStatus' = IF \E s \in siblings : status[s] \notin Terminal
                       THEN phaseStatus
                       ELSE IF "failed" \in {final} \cup {status[s] : s \in siblings}
                       THEN "failed" ELSE "complete"
     /\ UNCHANGED <<curWave, sessions>>

(* What execute_task's _on_complete makes of an exit.  A retryable error   *)
(* only rewrites the row.                                                  *)
RecordExit(i, t) ==
  \/ /\ exitCode[i] # "error"
     /\ RecordFinal(t, IF t \in Interactive THEN "awaiting_input"
                       ELSE "completed")
  \/ /\ exitCode[i] = "error"
     /\ RecordFinal(t, "failed")
  \/ /\ exitCode[i] = "error" /\ t \in Retryable
     /\ status' = [status EXCEPT ![t] = "pending"]
     /\ UNCHANGED <<phaseStatus, curWave, sessions>>

(* The callback registered last records the exit, whoever registered it.   *)
(* One whose own start_task has not returned trips over its unbound        *)
(* `process`, and the monitor swallows the error.                          *)
RunRecorded(i) ==
  /\ RunOnComplete(i)
  /\ LET j == callbacks[owner[i]] IN
       IF j = None THEN UNCHANGED dbVars
       ELSE /\ carrier[j] # "continue"
            /\ IF stage[j] = "queued" THEN UNCHANGED dbVars
               ELSE RecordExit(i, owner[i])
  /\ UNCHANGED <<queueVars, runnerVars, callVars, happened>>

(* The terminal event and the monitor's finally block. *)
RunPublished(i) ==
  /\ MonitorFinishes(i)
  /\ IF exitCode[i] = "error" THEN PublishFailed(owner[i])
     ELSE PublishCompleted(owner[i])
  /\ UNCHANGED <<dbVars, runnerVars, callVars, happened>>
-----------------------------------------------------------------------------
(* execute_phase.  A runner action changes pc[r] and what it names. *)
Goto(r, s) == pc' = [pc EXCEPT ![r] = s]

(* run_phase, or one turn of run_project: a coroutine from wave 1. *)
RunPhase(r) ==
  /\ Happens("phase")
  /\ pc[r] = "idle"
  /\ Goto(r, "spawned")
  /\ startWave' = [startWave EXCEPT ![r] = 1]
  /\ UNCHANGED <<managerVars, dbVars, queueVars, callVars, executing, wave,
                 todo, waiting, failed>>

(* Seeded bug: execute_phase without its guard. *)
EnterPhaseUnguarded(r) ==
  /\ pc[r] = "spawned"
  /\ Goto(r, "entered")
  /\ executing' = TRUE
  /\ UNCHANGED <<managerVars, dbVars, queueVars, callVars, startWave, wave,
                 todo, waiting, failed, happened>>

(* The concurrency guard. *)
EnterPhase(r) ==
  /\ pc[r] = "spawned"
  /\ \/ /\ executing
        /\ Goto(r, "idle")
        /\ startWave' = [startWave EXCEPT ![r] = 0]
        /\ UNCHANGED executing
     \/ /\ ~ executing
        /\ Goto(r, "entered")
        /\ executing' = TRUE
        /\ UNCHANGED startWave
  /\ UNCHANGED <<managerVars, dbVars, queueVars, callVars, wave, todo,
                 waiting, failed, happened>>

(* The phase is in progress; the snapshot of what is left to run. *)
LoadPhase(r) ==
  /\ pc[r] = "entered"
  /\ Goto(r, "ready")
  /\ phaseStatus' = "in_progress"
  /\ todo' = [todo EXCEPT ![r] =
                {t \in Task : status[t] \in {"pending", "failed"}}]
  /\ wave' = [wave EXCEPT ![r] = 0]
  /\ failed' = [failed EXCEPT ![r] = {}]
  /\ UNCHANGED <<managerVars, status, curWave, sessions, queueVars, callVars,
                 executing, startWave, waiting, happened>>

(* The next wave: one execute_task for each of its tasks. *)
StartWave(r) ==
  /\ pc[r] = "ready" /\ Ahead(r) # {}
  /\ LET w == Min({Wave[t] : t \in Ahead(r)})
     IN /\ wave' = [wave EXCEPT ![r] = w]
        /\ call' = [t \in Task |-> IF t \in Ahead(r) /\ Wave[t] = w
                                   THEN [call[t] EXCEPT !["phase"] = "spawned"]
                                   ELSE call[t]]
  /\ todo' = [todo EXCEPT ![r] = Ahead(r)]
  /\ Goto(r, "gather")
  /\ UNCHANGED <<managerVars, dbVars, queueVars, carrier, asking, executing,
                 startWave, waiting, failed, happened>>

(* gather has returned: every call has its process or has failed.  Only    *)
(* now are the queues subscribed and the rows read for the first time.     *)
Subscribe(r) ==
  /\ pc[r] = "gather"
  /\ \A t \in InWave(r) : call[t]["phase"] = "none"
  /\ waiting' = [waiting EXCEPT ![r] = {t \in InWave(r) : status[t] \notin Done}]
  /\ failed' = [failed EXCEPT ![r] = {t \in InWave(r) : status[t] = "failed"}]
  /\ seenC' = [seenC EXCEPT ![r] = {}]
  /\ seenF' = [seenF EXCEPT ![r] = {}]
  /\ Goto(r, IF waiting'[r] = {} THEN "verdict" ELSE "drain")
  /\ UNCHANGED <<managerVars, dbVars, callVars, executing, startWave, wave,
                 todo, happened>>

(* Seeded bug: the wait is over with the first event. *)
DrainOne(r) ==
  /\ pc[r] = "drain"
  /\ waiting' = [waiting EXCEPT ![r] = @ \ (seenC[r] \cup seenF[r])]
  /\ failed' = [failed EXCEPT ![r] =
                  @ \cup ((waiting[r] \cap seenF[r]) \ seenC[r])]
  /\ seenC' = [seenC EXCEPT ![r] = {}]
  /\ seenF' = [seenF EXCEPT ![r] = {}]
  /\ Goto(r, IF waiting'[r] # waiting[r] THEN "verdict" ELSE "poll")
  /\ UNCHANGED <<managerVars, dbVars, callVars, executing, startWave, wave,
                 todo, happened>>

(* The completion queue is drained before the failure queue, and the first *)
(* event of a task decides its result.                                     *)
DrainQueues(r) ==
  /\ pc[r] = "drain"
  /\ waiting' = [waiting EXCEPT ![r] = @ \ (seenC[r] \cup seenF[r])]
  /\ failed' = [failed EXCEPT ![r] =
                  @ \cup ((waiting[r] \cap seenF[r]) \ seenC[r])]
  /\ seenC' = [seenC EXCEPT ![r] = {}]
  /\ seenF' = [seenF EXCEPT ![r] = {}]
  /\ Goto(r, IF waiting'[r] = {} THEN "verdict" ELSE "poll")
  /\ UNCHANGED <<managerVars, dbVars, callVars, executing, startWave, wave,
                 todo, happened>>

(* The safety net: what the rows say, then two seconds of sleep. *)
PollRows(r) ==
  /\ pc[r] = "poll"
  /\ LET over == {t \in waiting[r] : status[t] \in Done}
     IN /\ waiting' = [waiting EXCEPT ![r] = @ \ over]
        /\ failed' = [failed EXCEPT ![r] =
                        @ \cup {t \in over : status[t] = "failed"}]
        /\ seenC' = [seenC EXCEPT ![r] = @ \ over]
        /\ seenF' = [seenF EXCEPT ![r] = @ \ over]
  /\ Goto(r, IF waiting'[r] = {} THEN "verdict" ELSE "drain")
  /\ UNCHANGED <<managerVars, dbVars, callVars, executing, startWave, wave,
                 todo, happened>>

(* settings.phase_timeout has passed: whoever is left has failed. *)
WaitTimesOut(r) ==
  /\ Happens("timeout")
  /\ pc[r] = "drain"
  /\ status' = [t \in Task |-> IF t \in waiting[r] THEN "failed" ELSE status[t]]
  /\ failed' = [failed EXCEPT ![r] = @ \cup waiting[r]]
  /\ waiting' = [waiting EXCEPT ![r] = {}]
  /\ seenC' = [seenC EXCEPT ![r] = {}]
  /\ seenF' = [seenF EXCEPT ![r] = {}]
  /\ Goto(r, "verdict")
  /\ UNCHANGED <<managerVars, phaseStatus, curWave, sessions, callVars,
                 executing, startWave, wave, todo>>

(* Seeded bug: any wave is checkpointed. *)
CheckpointAnyWave(r) ==
  /\ pc[r] = "verdict"
  /\ curWave' = wave[r]
  /\ todo' = [todo EXCEPT ![r] = {t \in @ : Wave[t] > wave[r]}]
  /\ Goto(r, "ready")
  /\ UNCHANGED <<managerVars, status, phaseStatus, sessions, queueVars,
                 callVars, executing, startWave, wave, waiting, failed,
                 happened>>

(* A wave without failures is checkpointed. *)
CheckpointWave(r) ==
  /\ pc[r] = "verdict" /\ failed[r] = {}
  /\ curWave' = wave[r]
  /\ todo' = [todo EXCEPT ![r] = {t \in @ : Wave[t] > wave[r]}]
  /\ Goto(r, "ready")
  /\ UNCHANGED <<managerVars, status, phaseStatus, sessions, queueVars,
                 callVars, executing, startWave, wave, waiting, failed,
                 happened>>

(* A wave with failures: the later waves are to be marked failed. *)
AbortWaves(r) ==
  /\ pc[r] = "verdict" /\ failed[r] # {}
  /\ todo' = [todo EXCEPT ![r] = {t \in @ : Wave[t] > wave[r]}]
  /\ Goto(r, "abort")
  /\ UNCHANGED <<managerVars, dbVars, queueVars, callVars, executing,
                 startWave, wave, waiting, failed, happened>>

(* The database fails under execute_phase: the active wave's tasks are to  *)
(* be marked failed, whatever they have reached.                           *)
PhaseErrs(r) ==
  /\ Happens("phase_error")
  /\ pc[r] \in {"drain", "poll", "verdict"}
  /\ todo' = [todo EXCEPT ![r] = InWave(r)]
  /\ waiting' = [waiting EXCEPT ![r] = {}]
  /\ seenC' = [seenC EXCEPT ![r] = {}]
  /\ seenF' = [seenF EXCEPT ![r] = {}]
  /\ Goto(r, "abort")
  /\ UNCHANGED <<managerVars, dbVars, callVars, executing, startWave, wave,
                 failed>>

(* One _mark_task_failed of either loop; each has its own transaction. *)
AbortTask(r, t) ==
  /\ pc[r] = "abort" /\ t \in todo[r]
  /\ \A s \in todo[r] : Wave[t] <= Wave[s]
  /\ MarkTaskFailed(t)
  /\ todo' = [todo EXCEPT ![r] = @ \ {t}]
  /\ UNCHANGED <<managerVars, callVars, executing, pc, startWave, wave,
                 waiting, failed, happened>>

FinalizePhase(r) ==
  /\ \/ pc[r] = "ready" /\ Ahead(r) = {} /\ phaseStatus' = "complete"
     \/ pc[r] = "abort" /\ todo[r] = {} /\ phaseStatus' = "failed"
  /\ Goto(r, "leaving")
  /\ todo' = [todo EXCEPT ![r] = {}]
  /\ failed' = [failed EXCEPT ![r] = {}]
  /\ UNCHANGED <<managerVars, status, curWave, sessions, queueVars, callVars,
                 executing, startWave, wave, waiting, happened>>

(* The finally of execute_phase, after the WAL checkpoint and the review. *)
LeavePhase(r) ==
  /\ pc[r] = "leaving"
  /\ Goto(r, "idle")
  /\ executing' = FALSE
  /\ wave' = [wave EXCEPT ![r] = 0]
  /\ startWave' = [startWave EXCEPT ![r] = 0]
  /\ UNCHANGED <<managerVars, dbVars, queueVars, callVars, todo, waiting,
                 failed, happened>>
-----------------------------------------------------------------------------
(* What each coroutine does next by itself. *)
RunnerStep(r) ==
  \/ EnterPhase(r) \/ LoadPhase(r) \/ StartWave(r) \/ Subscribe(r)
  \/ DrainQueues(r) \/ PollRows(r) \/ CheckpointWave(r) \/ AbortWaves(r)
  \/ FinalizePhase(r) \/ LeavePhase(r)
  \/ \E t \in Task : AbortTask(r, t)

CallStep(t, o) ==
  \/ LoadTask(t, o) \/ MarkRunning(t, o)
  \/ LaunchRefused(t, o) \/ CallFails(t, o)
  \/ \E i \in Proc : LaunchTask(i, t, o)

ProcessStep(i) ==
  \/ WaiterStarts(i) \/ StreamStarts(i) \/ RunExits(i) \/ RunRecorded(i)
  \/ RunPublished(i)

Mishap ==
  \/ \E r \in Runner : WaitTimesOut(r) \/ PhaseErrs(r)
  \/ \E i \in Proc : WaiterRejected(i) \/ ToolCheckpoint(i)
  \/ \E t \in Task : CallFaults(t)

SchedulerNext ==
  \/ \E r \in Runner : RunPhase(r) \/ RunnerStep(r)
  \/ \E t \in Task, o \in Origin : CallStep(t, o)
  \/ \E i \in Proc : ProcessStep(i)
  \/ Mishap

SchedulerSpec == SchedulerInit /\ [][SchedulerNext]_schedulerVars

(* The event loop runs every ready coroutine, and an SDK run that is not   *)
(* waiting for a permission ends by itself.  Nobody is obliged to run a    *)
(* phase, to answer a permission request, or to fail.                      *)
SchedulerFairness ==
  /\ \A r \in Runner : WF_schedulerVars(RunnerStep(r))
  /\ \A t \in Task, o \in Origin : WF_schedulerVars(CallStep(t, o))
  /\ \A i \in Proc : WF_schedulerVars(ProcessStep(i) /\ ~ asking[i])

SchedulerLiveSpec == SchedulerSpec /\ SchedulerFairness

(* The same, and the four hours of phase_timeout do pass: a runner that    *)
(* comes to the top of its loop again and again finds them passed one day. *)
SchedulerTimedSpec ==
  SchedulerLiveSpec /\ \A r \in Runner : SF_schedulerVars(WaitTimesOut(r))
-----------------------------------------------------------------------------
(* Types of the scheduler's variables. *)
SchedulerTypeOK ==
  /\ ManagerTypeOK
  /\ status \in [Task -> Statuses]
  /\ phaseStatus \in PhaseStatuses
  /\ curWave \in Nat
  /\ sessions \subseteq Task
  /\ executing \in BOOLEAN
  /\ pc \in [Runner -> RunnerStates]
  /\ startWave \in [Runner -> Nat]
  /\ wave \in [Runner -> Nat]
  /\ todo \in [Runner -> SUBSET Task]
  /\ waiting \in [Runner -> SUBSET Task]
  /\ failed \in [Runner -> SUBSET Task]
  /\ seenC \in [Runner -> SUBSET Task]
  /\ seenF \in [Runner -> SUBSET Task]
  /\ call \in [Task -> [Origin -> CallStates]]
  /\ carrier \in [Proc -> Origin]
  /\ asking \in [Proc -> BOOLEAN]
  /\ happened \subseteq UNION Together

(* Where _executing_phase_ids says the phase is, and nowhere else, is a    *)
(* runner past the guard: two overlapping run_phase, run_project or        *)
(* resume_phase calls never interleave their waves.                        *)
OneRunner ==
  /\ \A r, q \in Runner :
       {pc[r], pc[q]} \cap {"idle", "spawned"} = {} => r = q
  /\ executing <=> \E r \in Runner : pc[r] \notin {"idle", "spawned"}

(* The live processes the phase itself has started. *)
PhaseRuns == {i \in Proc : alive[i] /\ carrier[i] = "phase"}

(* Nobody has given up on a task whose process goes on, or still waits for *)
(* its permit (timeout, error of the database, watchdog), and no user has  *)
(* taken a task out of its runner's hands.  A stop is no obstacle, unless  *)
(* a resume or a restart falls into its middle.                            *)
Orderly ==
  /\ Never({"timeout", "phase_error", "watchdog", "start", "continue",
             "stop_all"})
  /\ Never({"stop"}) \/ Never({"resume", "crash"})

(* "Waves execute sequentially": in an orderly history in which no process *)
(* asks for a permission, a task the phase started in one wave is not      *)
(* still running when the phase runs a task of another wave.               *)
WaveBarrier ==
  Orderly /\ Never({"permission"}) =>
    \A i, j \in PhaseRuns : Wave[owner[i]] = Wave[owner[j]]

(* Everybody who holds a permit waits for its user, and a call of the      *)
(* phase waits for a permit, which no timeout ends.                        *)
UsersKeepPermits ==
  /\ permits = 0 /\ \A i \in Holders : asking[i]
  /\ \E t \in Task : call[t]["phase"] = "waiting"

(* A phase that is run ends: no wave waits for an event that was published *)
(* before the runner subscribed, or for a call that waits for a slot.  Not *)
(* so if in the end all permits stay with processes whose permission       *)
(* requests no user ever answers, while a sibling waits for one.           *)
PhaseEnds ==
  \A r \in Runner : pc[r] = "spawned" ~> (pc[r] = "idle" \/ []UsersKeepPermits)

(* A retryable error has put t back to pending while a runner awaits it.   *)
Requeued(t) == status[t] = "pending" /\ \E r \in Runner : t \in waiting[r]

(* A task requeued after a retryable error is executed again: on_complete  *)
(* only rewrites its row, so somebody has to look for it.                  *)
RetriedRuns == \A t \in Task : Requeued(t) ~> status[t] = "running"
=============================================================================
