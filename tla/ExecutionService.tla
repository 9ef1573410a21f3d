-------------------------- MODULE ExecutionService --------------------------
(***************************************************************************)
(* taktis/core/execution_service.py on top of the WaveScheduler: what a    *)
(* user can do to a phase and its tasks while the scheduler runs them, and *)
(* the recovery a restarted server performs (core/crash_recovery.py), and  *)
(* the watchdog that fails tasks that look dead.                           *)
(*                                                                         *)
(* Each operation is a coroutine of its own.  Those that stop a process    *)
(* first suspend in ProcessManager.stop_task and write the row afterwards; *)
(* `request` says which one a task is undergoing.                          *)
(***************************************************************************)
EXTENDS WaveScheduler

VARIABLES
  request,      \* the operation in flight on a task (bound: one per task)
  stoppingAll,  \* a stop_all is in flight
  listed,       \* the running rows it has listed
  resume,       \* what a resume_phase in flight has read (bound: one)
  overwritten   \* history: tasks that were over when a resume reset them

jobVars == <<stoppingAll, listed, resume, overwritten>>
serviceVars == <<request, jobVars>>
vars == <<schedulerVars, serviceVars>>

(* none                                                                    *)
(* stop        stop_task, row not yet written                              *)
(* start       start_task, row not yet written                             *)
(* continue    continue_task, row not yet written                          *)
(* halt        one of stop_all's stop_task calls, not run yet              *)
(* halting     the same, suspended                                         *)
(* approve     approve_checkpoint, tool released, row not yet written      *)
(* suspect     the watchdog has found the running row idle                 *)
(* expire      it has failed the row, and will stop the task               *)
(* expired     it has called stop_task and will publish the end            *)
Requests == {"none", "stop", "start", "continue", "halt", "halting", "approve",
             "suspect", "expire", "expired"}

(* A resume_phase reads the phase, then its tasks, then writes: the wave   *)
(* it goes on from and the rows it will reset are those of its reads.      *)
NoResume == [stage |-> "none", wave |-> 0, rows |-> {}]

Stuck == {"running", "failed"}

Init ==
  /\ SchedulerInit
  /\ request = [t \in Task |-> "none"]
  /\ stoppingAll = FALSE
  /\ listed = {}
  /\ resume = NoResume
  /\ overwritten = {}

Idle(t) == request[t] = "none" /\ stopping[t] = None

Running(t) == processes[t] # None /\ alive[processes[t]]

(* A handler that has nothing to stop, or only a dead entry to clear, goes *)
(* on; otherwise it suspends in stop_task.                                 *)
ClearOldProcess(t) ==
  \/ Running(t) /\ StopTask(t)
  \/ ~ Running(t) /\ processes[t] # None /\ RemoveDeadProcess(t)
  \/ processes[t] = None /\ UNCHANGED managerVars

UnchangedButManager == UNCHANGED <<dbVars, queueVars, runnerVars, callVars>>
-----------------------------------------------------------------------------
(* ProcessManager.stop_task returns, for whichever handler called it. *)
StopReturns(t) ==
  /\ StopFinishes(t)
  /\ IF stopping[t].monitored THEN PublishFailed(t) ELSE UNCHANGED queueVars
  /\ request' = [request EXCEPT ![t] = IF @ = "halting" THEN "none" ELSE @]
  /\ asking' = [asking EXCEPT ![stopping[t].proc] = FALSE]
  /\ UNCHANGED <<dbVars, runnerVars, call, carrier, jobVars, happened>>

(* A monitor that a stop has cancelled runs its finally block. *)
MonitorDropped(i) ==
  /\ MonitorCancelled(i)
  /\ UnchangedButManager /\ UNCHANGED <<serviceVars, happened>>

(* stop_task: refused unless the process runs; the row follows the stop. *)
UserStops(t) ==
  /\ Happens("stop") /\ Idle(t) /\ Running(t)
  /\ StopTask(t)
  /\ request' = [request EXCEPT ![t] = "stop"]
  /\ UnchangedButManager /\ UNCHANGED jobVars

StopRecorded(t) ==
  /\ request[t] = "stop" /\ stopping[t] = None
  /\ request' = [request EXCEPT ![t] = "none"]
  /\ status' = [status EXCEPT ![t] = "cancelled"]
  /\ UNCHANGED <<managerVars, phaseStatus, curWave, sessions, queueVars,
                 runnerVars, callVars, jobVars, happened>>

(* start_task: a fresh run of a pending, failed or completed task. *)
UserStarts(t) ==
  /\ Happens("start") /\ Idle(t)
  /\ call[t]["user"] = "none"
  /\ status[t] \in {"pending", "failed", "completed"}
  /\ ClearOldProcess(t)
  /\ request' = [request EXCEPT ![t] = "start"]
  /\ UnchangedButManager /\ UNCHANGED jobVars

(* continue_task: a follow-up turn of a task that has a session. *)
UserContinues(t) ==
  /\ Happens("continue") /\ Idle(t)
  /\ call[t]["continue"] = "none"
  /\ status[t] \in {"completed", "failed", "awaiting_input"}
  /\ t \in sessions
  /\ ClearOldProcess(t)
  /\ request' = [request EXCEPT ![t] = "continue"]
  /\ UnchangedButManager /\ UNCHANGED jobVars

(* The row says running, and a background coroutine takes over: all of     *)
(* execute_task, or the launch of the continuation.                        *)
RunRequested(t) ==
  /\ request[t] \in {"start", "continue"} /\ stopping[t] = None
  /\ request' = [request EXCEPT ![t] = "none"]
  /\ status' = [status EXCEPT ![t] = "running"]
  /\ \/ /\ request[t] = "start"
        /\ call' = [call EXCEPT ![t]["user"] = "spawned"]
        /\ sessions' = sessions \ {t}
     \/ /\ request[t] = "continue"
        /\ call' = [call EXCEPT ![t]["continue"] = "ready"]
        /\ UNCHANGED sessions
  /\ UNCHANGED <<managerVars, phaseStatus, curWave, queueVars, runnerVars,
                 carrier, asking, jobVars, happened>>

(* ProcessManager.continue_task takes over the task id unchecked. *)
LaunchContinuation(i, t) ==
  /\ call[t]["continue"] = "ready"
  /\ ContinueTask(i, t)
  /\ carrier' = [carrier EXCEPT ![i] = "continue"]
  /\ call' = [call EXCEPT ![t]["continue"] =
                IF SlotFree THEN "none" ELSE "waiting"]
  /\ UNCHANGED <<dbVars, queueVars, runnerVars, asking, serviceVars,
                 happened>>

(* Its setup fails, or process.start_continuation() raises with a slot at  *)
(* hand; the except branches mark the task failed.                         *)
ContinuationRefused(t) ==
  /\ Happens("start_raises")
  /\ call[t]["continue"] = "ready"
  /\ \/ SlotFree /\ StartTaskRefused(t)
     \/ UNCHANGED managerVars
  /\ call' = [call EXCEPT ![t]["continue"] = "rejected"]
  /\ UNCHANGED <<dbVars, queueVars, runnerVars, carrier, asking, serviceVars>>

(* _on_complete of a continuation: the row, and never the phase.  An       *)
(* interactive task may ask for more input.                                *)
ContinuationRecorded(i) ==
  /\ RunOnComplete(i)
  /\ LET t == owner[i]
         j == callbacks[t]
     IN /\ j # None /\ carrier[j] = "continue"
        /\ \E final \in {"completed", "failed", "awaiting_input"} :
             /\ final = "failed" <=> exitCode[i] = "error"
             /\ final = "awaiting_input" => t \in Interactive
             /\ status' = [status EXCEPT ![t] = final]
  /\ UNCHANGED <<phaseStatus, curWave, sessions, queueVars, runnerVars,
                 callVars, serviceVars, happened>>

(* approve_checkpoint, deny_tool: the tool call is released... *)
UserApproves(t) ==
  /\ Idle(t) /\ processes[t] # None /\ asking[processes[t]]
  /\ asking' = [asking EXCEPT ![processes[t]] = FALSE]
  /\ request' = [request EXCEPT ![t] = "approve"]
  /\ UNCHANGED <<managerVars, dbVars, queueVars, runnerVars, call, carrier,
                 jobVars, happened>>

(* ...and the row goes back to running if it is still awaiting input. *)
ApprovalRecorded(t) ==
  /\ request[t] = "approve"
  /\ request' = [request EXCEPT ![t] = "none"]
  /\ status' = IF status[t] = "awaiting_input"
               THEN [status EXCEPT ![t] = "running"] ELSE status
  /\ UNCHANGED <<managerVars, phaseStatus, curWave, sessions, queueVars,
                 runnerVars, callVars, jobVars, happened>>
-----------------------------------------------------------------------------
(* resume_phase reads the phase and refuses one that is complete... *)
ResumePhase ==
  /\ Happens("resume") /\ resume.stage = "none"
  /\ phaseStatus # "complete"
  /\ resume' = [stage |-> "phase", wave |-> curWave + 1, rows |-> {}]
  /\ UNCHANGED <<managerVars, dbVars, queueVars, runnerVars, callVars, request,
                 stoppingAll, listed, overwritten>>

(* ...then its tasks, where without a checkpoint one must be stuck...      *)
ResumeLoads ==
  /\ resume.stage = "phase"
  /\ LET stuck == {t \in Task : status[t] \in Stuck}
     IN resume' = IF resume.wave = 1 /\ stuck = {} THEN NoResume
                  ELSE [resume EXCEPT
                          !.stage = "tasks",
                          !.rows = {t \in stuck : Wave[t] >= resume.wave}]
  /\ UNCHANGED <<managerVars, dbVars, queueVars, runnerVars, callVars, request,
                 stoppingAll, listed, overwritten, happened>>

(* Seeded bug: the runner skips the wave after the checkpoint. *)
ResumeSkipsWave(r) ==
  /\ resume.stage = "tasks" /\ pc[r] = "idle"
  /\ status' = [t \in Task |-> IF t \in resume.rows THEN "pending"
                              ELSE status[t]]
  /\ phaseStatus' = "in_progress"
  /\ Goto(r, "spawned")
  /\ startWave' = [startWave EXCEPT ![r] = resume.wave + 1]
  /\ resume' = NoResume
  /\ UNCHANGED <<managerVars, curWave, sessions, queueVars, callVars,
                 executing, wave, todo, waiting, failed, request, stoppingAll,
                 listed, overwritten, happened>>

(* ...and in one transaction puts back to pending the stuck ones of the    *)
(* waves after the checkpoint, whatever has become of them and whoever is  *)
(* working on them.  A runner starts behind it.                            *)
ResumeResets(r) ==
  /\ resume.stage = "tasks" /\ pc[r] = "idle"
  /\ status' = [t \in Task |-> IF t \in resume.rows THEN "pending"
                              ELSE status[t]]
  /\ phaseStatus' = "in_progress"
  /\ Goto(r, "spawned")
  /\ startWave' = [startWave EXCEPT ![r] = resume.wave]
  /\ resume' = NoResume
  /\ overwritten' = overwritten \cup
                      {t \in resume.rows : status[t] \in Done \ {"failed"}}
  /\ UNCHANGED <<managerVars, curWave, sessions, queueVars, callVars,
                 executing, wave, todo, waiting, failed, request, stoppingAll,
                 listed, happened>>

ResumeStep == ResumePhase \/ ResumeLoads \/ \E r \in Runner : ResumeResets(r)
-----------------------------------------------------------------------------
(* stop_all: every registered process gets a stop_task of its own...       *)
(* Bound: one stop_all in a history.                                       *)
StopAll ==
  /\ Never({"stop_all"}) /\ Happens("stop_all")
  /\ \A t \in Task : Idle(t)
  /\ stoppingAll' = TRUE
  /\ request' = [t \in Task |-> IF processes[t] # None THEN "halt" ELSE "none"]
  /\ UNCHANGED <<managerVars, dbVars, queueVars, runnerVars, callVars, listed,
                 resume, overwritten>>

Halt(t) ==
  /\ request[t] = "halt"
  /\ \/ StopTask(t) /\ request' = [request EXCEPT ![t] = "halting"]
     \/ /\ processes[t] = None
        /\ request' = [request EXCEPT ![t] = "none"]
        /\ UNCHANGED managerVars
  /\ UnchangedButManager /\ UNCHANGED <<jobVars, happened>>

(* ...and when all have returned, the running rows are listed...           *)
StopAllLists ==
  /\ stoppingAll /\ listed = {}
  /\ \A t \in Task : request[t] \notin {"halt", "halting"}
  /\ listed' = {t \in Task : status[t] = "running"}
  /\ stoppingAll' = (listed' # {})
  /\ UNCHANGED <<managerVars, dbVars, queueVars, runnerVars, callVars, request,
                 resume, overwritten, happened>>

(* ...and those without a process are cancelled, whatever they say now.    *)
StopAllRecorded ==
  /\ listed # {}
  /\ stoppingAll' = FALSE
  /\ listed' = {}
  /\ status' = [t \in Task |-> IF t \in listed /\ ~ Running(t)
                              THEN "cancelled" ELSE status[t]]
  /\ UNCHANGED <<managerVars, phaseStatus, curWave, sessions, queueVars,
                 runnerVars, callVars, request, resume, overwritten, happened>>
-----------------------------------------------------------------------------
(* The watchdog (core/stale_task_watchdog.py) takes for dead what has said *)
(* running for five minutes without output and has no live process: a task *)
(* nobody minds any more, or one that waits for its permit.  What takes    *)
(* moments, a start or the record of an exit, is over by then.             *)
Stale(t) ==
  /\ status[t] = "running"
  /\ \A o \in Origin : call[t][o] \in {"none", "waiting"}
  /\ \A i \in Proc : owner[i] = t => stage[i] \in {"queued", "leaked"}

(* The rows are read... *)
WatchdogReads(t) ==
  /\ Happens("watchdog") /\ Idle(t)
  /\ Stale(t)
  /\ request' = [request EXCEPT ![t] = "suspect"]
  /\ UNCHANGED <<managerVars, dbVars, queueVars, runnerVars, callVars, jobVars>>

(* ...and one is failed, whatever it says by now, unless a process lives.. *)
WatchdogFails(t) ==
  /\ request[t] = "suspect"
  /\ \/ /\ Running(t)
        /\ request' = [request EXCEPT ![t] = "none"]
        /\ UNCHANGED status
     \/ /\ ~ Running(t)
        /\ request' = [request EXCEPT ![t] = "expire"]
        /\ status' = [status EXCEPT ![t] = "failed"]
  /\ UNCHANGED <<managerVars, phaseStatus, curWave, sessions, queueVars,
                 runnerVars, callVars, jobVars, happened>>

(* ...and when the rows are committed, whatever is registered by then is   *)
(* stopped...                                                              *)
WatchdogStops(t) ==
  /\ request[t] = "expire"
  /\ request' = [request EXCEPT ![t] = "expired"]
  /\ StopTask(t) \/ (processes[t] = None /\ UNCHANGED managerVars)
  /\ UnchangedButManager /\ UNCHANGED <<jobVars, happened>>

(* ...and the failure is published. *)
WatchdogTells(t) ==
  /\ request[t] = "expired" /\ stopping[t] = None
  /\ request' = [request EXCEPT ![t] = "none"]
  /\ PublishFailed(t)
  /\ UNCHANGED <<managerVars, dbVars, runnerVars, callVars, jobVars, happened>>

WatchdogStep(t) ==
  WatchdogReads(t) \/ WatchdogFails(t) \/ WatchdogStops(t) \/ WatchdogTells(t)
-----------------------------------------------------------------------------
(* Seeded bug: only a phase with a checkpoint is looked at. *)
RecoveredCheckpointed(t) ==
  IF status[t] \in {"running", "awaiting_input"} /\ curWave # 0
  THEN "pending" ELSE status[t]

(* recover_stale_tasks: the row of t as a restarted server leaves it. *)
Recovered(t) ==
  IF status[t] \notin {"running", "awaiting_input"} THEN status[t]
  ELSE IF curWave # 0 THEN "pending" ELSE "failed"

(* The server dies and comes up again.  Only the rows survive; before      *)
(* anything else runs, recover_stale_tasks rewrites those that were being  *)
(* worked on.                                                              *)
CrashAndRecover ==
  /\ Happens("crash")
  /\ ManagerRestart
  /\ status' = [t \in Task |-> Recovered(t)]
  /\ executing' = FALSE
  /\ pc' = [r \in Runner |-> "idle"]
  /\ startWave' = [r \in Runner |-> 0]
  /\ wave' = [r \in Runner |-> 0]
  /\ todo' = [r \in Runner |-> {}]
  /\ waiting' = [r \in Runner |-> {}]
  /\ failed' = [r \in Runner |-> {}]
  /\ seenC' = [r \in Runner |-> {}]
  /\ seenF' = [r \in Runner |-> {}]
  /\ call' = [t \in Task |-> [o \in Origin |-> "none"]]
  /\ carrier' = [i \in Proc |-> "phase"]
  /\ asking' = [i \in Proc |-> FALSE]
  /\ request' = [t \in Task |-> "none"]
  /\ stoppingAll' = FALSE
  /\ listed' = {}
  /\ resume' = NoResume
  /\ UNCHANGED <<phaseStatus, curWave, sessions, overwritten>>
-----------------------------------------------------------------------------
(* What the handlers of operations on one task do. *)
UserStep(t) ==
  \/ UserStops(t) \/ StopReturns(t) \/ StopRecorded(t)
  \/ UserStarts(t) \/ UserContinues(t) \/ RunRequested(t)
  \/ UserApproves(t) \/ ApprovalRecorded(t) \/ Halt(t)
  \/ ContinuationRefused(t)
  \/ \E i \in Proc : LaunchContinuation(i, t)

Next ==
  \/ SchedulerNext /\ UNCHANGED serviceVars
  \/ \E t \in Task : UserStep(t) \/ WatchdogStep(t)
  \/ \E i \in Proc : ContinuationRecorded(i) \/ MonitorDropped(i)
  \/ ResumeStep
  \/ StopAll \/ StopAllLists \/ StopAllRecorded
  \/ CrashAndRecover

Spec == Init /\ [][Next]_vars

(* Types of the variables of this module. *)
TypeOK ==
  /\ SchedulerTypeOK
  /\ request \in [Task -> Requests]
  /\ stoppingAll \in BOOLEAN
  /\ listed \subseteq Task
  /\ resume \in [stage : {"none", "phase", "tasks"}, wave : Nat,
                  rows : SUBSET Task]
  /\ overwritten \subseteq Task

(* The tasks whose row changes after it has said that they are over: those *)
(* that wait for their user, where an answer or a restart rewrites them,   *)
(* and those a resume has reset that were over when it came to write.      *)
Reopened ==
  (IF Never({"permission", "crash"}) THEN {} ELSE Interactive) \cup overwritten

(* current_wave = N says the waves up to N are over: in an orderly history *)
(* none of their tasks is left pending, running or failed, to be passed    *)
(* over by a resume.                                                       *)
CheckpointSound ==
  Orderly =>
    \A t \in Task \ Reopened : Wave[t] <= curWave =>
      status[t] \in Done \ {"failed"} \/ request[t] # "none"

(* In an orderly history a phase is complete only once all its tasks are   *)
(* over, or the handler that ends the last one is about to write so.       *)
CompleteMeansDone ==
  Orderly /\ phaseStatus = "complete" =>
    \A t \in Task \ Reopened : status[t] \in Done \/ request[t] # "none"

(* Somebody is there to rewrite the row of t: an operation on it, the call *)
(* that is starting it, a process whose exit is still to be recorded.      *)
Attended(t) ==
  \/ request[t] # "none" \/ stoppingAll
  \/ \E o \in Origin : call[t][o] # "none"
  \/ \E i \in Proc : /\ owner[i] = t
                    /\ stage[i] \in {"queued", "fresh", "streaming"}

(* The row of a task says running only while somebody is there to rewrite  *)
(* it, or the task would look busy for ever and its phase would wait.  Not *)
(* so if an answer to a permission request overtakes the exit, if a user   *)
(* runs a task again before the monitor of its last run has left, or if a  *)
(* row the watchdog has failed is run again before it gets to its stop.    *)
NobodyForgotten ==
  Never({"permission", "start", "continue", "watchdog"}) =>
    \A t \in Task : status[t] = "running" => Attended(t)

(* No two processes work on one task, in one directory, unless the older   *)
(* one is being stopped; as long as the tasks of a phase are left to its   *)
(* runners, or are run by hand only: then nobody but the user touches a    *)
(* row (no answer to a permission request, no watchdog) that start_task    *)
(* would take for finished while the process goes on.                      *)
SingleProcess ==
  \/ Never({"start", "continue"})
  \/ Never({"phase", "resume", "permission", "watchdog"})
  => \A i, j \in Proc :
       alive[i] /\ alive[j] /\ owner[i] = owner[j] /\ i # j
       => BeingStopped(i) \/ BeingStopped(j)

(* No process of a cancelled task runs or waits to run.                    *)
CancelledDown ==
  \A i \in Proc :
    owner[i] \in Task /\ status[owner[i]] = "cancelled" /\ ~ BeingStopped(i)
    => ~ alive[i] /\ stage[i] # "queued"

(* A task the user has stopped stays down: in an orderly history of the    *)
(* phase, and when tasks are run and stopped by hand, and nothing else     *)
(* rewrites their rows.                                                    *)
CancelledStaysDown ==
  Orderly \/ Never({"phase", "resume", "stop_all", "watchdog", "permission"})
  => CancelledDown

(* "Never re-execute a task that already completed": execute_task reads    *)
(* the row, and writes running over one that has not completed since.      *)
CompletedNotRerun ==
  [][\A t \in Task : call[t]["phase"] = "loaded" /\ call'[t]["phase"] = "ready"
                     => status[t] # "completed"]_vars
=============================================================================
