----------------------- MODULE ExecutionService_proofs -----------------------
(***************************************************************************)
(* Proofs about the whole service that hold in every history: it uses the  *)
(* ProcessManager only through its operations, so what is proved of the    *)
(* manager holds of the service; the guard of execute_phase keeps runners  *)
(* of one phase apart; the types of the variables; and what every pending  *)
(* operation, call and row has left in happened.                           *)
(***************************************************************************)
EXTENDS ExecutionService, ProcessManager_proofs

(* What the coroutine of a task's call does to the manager. *)
LEMMA CallStepManages ==
  ASSUME NEW t \in Task, NEW o \in Origin, CallStep(t, o)
  PROVE  [ManagerNext]_managerVars
<1>1. CASE LoadTask(t, o) \/ MarkRunning(t, o) \/ CallFails(t, o)
  BY <1>1 DEF LoadTask, MarkRunning, CallFails
<1>2. CASE LaunchRefused(t, o)
  BY <1>2 DEF LaunchRefused, ManagerNext
<1>3. ASSUME NEW i \in Proc, LaunchTask(i, t, o)
      PROVE  ManagerNext
  BY <1>3 DEF LaunchTask, ManagerNext
<1> QED
  BY <1>1, <1>2, <1>3 DEF CallStep

(* What a process and its monitor do to it. *)
LEMMA ProcessStepManages ==
  ASSUME NEW i \in Proc, ProcessStep(i)
  PROVE  ManagerNext
BY DEF ProcessStep, WaiterStarts, StreamStarts, RunExits, RunRecorded,
       RunPublished, ManagerNext

(* Runners never touch it. *)
LEMMA RunnerStepManages ==
  ASSUME NEW r \in Runner, RunPhase(r) \/ RunnerStep(r)
  PROVE  UNCHANGED managerVars
<1>1. CASE RunPhase(r)
  BY <1>1 DEF RunPhase
<1>2. CASE EnterPhase(r) \/ LoadPhase(r) \/ StartWave(r) \/ Subscribe(r)
  BY <1>2 DEF EnterPhase, LoadPhase, StartWave, Subscribe
<1>3. CASE DrainQueues(r) \/ PollRows(r) \/ CheckpointWave(r) \/ AbortWaves(r)
  BY <1>3 DEF DrainQueues, PollRows, CheckpointWave, AbortWaves
<1>4. CASE FinalizePhase(r) \/ LeavePhase(r)
  BY <1>4 DEF FinalizePhase, LeavePhase
<1>5. CASE \E t \in Task : AbortTask(r, t)
  BY <1>5 DEF AbortTask
<1> QED
  BY <1>1, <1>2, <1>3, <1>4, <1>5 DEF RunnerStep

(* Nor do mishaps, except that a waiter's start may raise. *)
LEMMA MishapManages == Mishap => [ManagerNext]_managerVars
<1>1. ASSUME NEW r \in Runner, WaitTimesOut(r) \/ PhaseErrs(r)
      PROVE  UNCHANGED managerVars
  BY <1>1 DEF WaitTimesOut, PhaseErrs
<1>2. ASSUME NEW i \in Proc, WaiterRejected(i)
      PROVE  ManagerNext
  BY <1>2 DEF WaiterRejected, ManagerNext
<1>3. ASSUME NEW i \in Proc, ToolCheckpoint(i)
      PROVE  UNCHANGED managerVars
  BY <1>3 DEF ToolCheckpoint
<1>4. ASSUME NEW t \in Task, CallFaults(t)
      PROVE  UNCHANGED managerVars
  BY <1>4 DEF CallFaults
<1> QED
  BY <1>1, <1>2, <1>3, <1>4 DEF Mishap

(* Users reach it through stop_task, start_task, continue_task and         *)
(* remove_dead_process.                                                    *)
LEMMA UserStepManages ==
  ASSUME NEW t \in Task, UserStep(t)
  PROVE  [ManagerNext]_managerVars
<1>1. CASE UserStops(t) \/ StopReturns(t) \/ Halt(t)
  BY <1>1 DEF UserStops, StopReturns, Halt, ManagerNext
<1>2. CASE UserStarts(t) \/ UserContinues(t)
  BY <1>2 DEF UserStarts, UserContinues, ClearOldProcess, ManagerNext
<1>3. CASE StopRecorded(t) \/ RunRequested(t)
  BY <1>3 DEF StopRecorded, RunRequested
<1>4. CASE UserApproves(t) \/ ApprovalRecorded(t)
  BY <1>4 DEF UserApproves, ApprovalRecorded
<1>5. ASSUME NEW i \in Proc, LaunchContinuation(i, t)
      PROVE  ManagerNext
  BY <1>5 DEF LaunchContinuation, ManagerNext
<1>6. CASE ContinuationRefused(t)
  BY <1>6 DEF ContinuationRefused, ManagerNext
<1> QED
  BY <1>1, <1>2, <1>3, <1>4, <1>5, <1>6 DEF UserStep

(* So does the watchdog. *)
LEMMA WatchdogManages ==
  ASSUME NEW t \in Task, WatchdogStep(t)
  PROVE  [ManagerNext]_managerVars
<1>1. CASE WatchdogReads(t) \/ WatchdogFails(t) \/ WatchdogTells(t)
  BY <1>1 DEF WatchdogReads, WatchdogFails, WatchdogTells
<1>2. CASE WatchdogStops(t)
  BY <1>2 DEF WatchdogStops, ManagerNext
<1> QED
  BY <1>1, <1>2 DEF WatchdogStep

(* Every step of the service is a step of the manager or leaves it alone. *)
LEMMA NextManages == [Next]_vars => [ManagerNext]_managerVars
<1> SUFFICES ASSUME [Next]_vars PROVE [ManagerNext]_managerVars
  OBVIOUS
<1>1. CASE SchedulerNext
  BY <1>1, CallStepManages, ProcessStepManages, RunnerStepManages, MishapManages
     DEF SchedulerNext
<1>2. ASSUME NEW t \in Task, UserStep(t) \/ WatchdogStep(t)
      PROVE  [ManagerNext]_managerVars
  BY <1>2, UserStepManages, WatchdogManages
<1>3. ASSUME NEW i \in Proc, ContinuationRecorded(i) \/ MonitorDropped(i)
      PROVE  ManagerNext
  BY <1>3 DEF ContinuationRecorded, MonitorDropped, ManagerNext
<1>4. CASE ResumeStep
  BY <1>4 DEF ResumeStep, ResumePhase, ResumeLoads, ResumeResets
<1>5. CASE StopAll \/ StopAllLists \/ StopAllRecorded
  BY <1>5 DEF StopAll, StopAllLists, StopAllRecorded
<1>6. CASE CrashAndRecover
  BY <1>6 DEF CrashAndRecover, ManagerNext
<1>7. CASE UNCHANGED vars
  BY <1>7 DEF vars, schedulerVars
<1> QED
  BY <1>1, <1>2, <1>3, <1>4, <1>5, <1>6, <1>7 DEF Next

(* The scheduler, the handlers and the recovery drive the ProcessManager   *)
(* of manager.py as its own specification allows.                          *)
THEOREM ServiceUsesManager == Spec => ManagerSpec
<1>1. Init => ManagerInit
  BY DEF Init, SchedulerInit
<1> QED
  BY <1>1, NextManages, PTL DEF Spec, ManagerSpec

(* Hence semaphore and monitors stay balanced, and registries agree, under *)
(* whatever the scheduler and the users do.                                *)
THEOREM ServiceKeepsManager == Spec => [](SlotsConserved /\ RegistryAgrees)
BY ServiceUsesManager, PermitsConserved, RegistriesAgree, PTL
-----------------------------------------------------------------------------
(* The guard.  OneRunner needs no more than the type of pc to be inductive *)
(* because test and insertion are one step, and so are the removal and the *)
(* coroutine's end.                                                        *)
GuardInv == pc \in [Runner -> RunnerStates] /\ OneRunner

(* A runner that moves on and stays on its side of the guard changes       *)
(* nothing for the others.                                                 *)
LEMMA SameSide ==
  ASSUME GuardInv, NEW r \in Runner, NEW s \in RunnerStates,
         pc' = [pc EXCEPT ![r] = s], executing' = executing,
         s \in {"idle", "spawned"} <=> pc[r] \in {"idle", "spawned"}
  PROVE  GuardInv'
BY DEF GuardInv, OneRunner

(* Steps of the coroutines in front of and behind the guard. *)
LEMMA RunnerStepGuarded ==
  ASSUME GuardInv, NEW r \in Runner, RunPhase(r) \/ RunnerStep(r)
  PROVE  GuardInv'
<1> USE DEF Goto, RunnerStates
<1>1. CASE RunPhase(r)
  BY <1>1, SameSide DEF RunPhase
<1>2. CASE EnterPhase(r)
  <2>1. CASE executing
    BY <1>2, <2>1, SameSide DEF EnterPhase
  <2>2. CASE ~ executing
    BY <1>2, <2>2 DEF EnterPhase, GuardInv, OneRunner
  <2> QED
    BY <2>1, <2>2
<1>3. CASE LoadPhase(r)
  BY <1>3, SameSide DEF LoadPhase
<1>4. CASE StartWave(r)
  BY <1>4, SameSide DEF StartWave
<1>5. CASE Subscribe(r)
  <2>1. PICK s \in {"verdict", "drain"} : pc' = [pc EXCEPT ![r] = s]
    BY <1>5 DEF Subscribe
  <2> QED
    BY <1>5, <2>1, SameSide DEF Subscribe
<1>6. CASE DrainQueues(r)
  <2>1. PICK s \in {"verdict", "poll"} : pc' = [pc EXCEPT ![r] = s]
    BY <1>6 DEF DrainQueues
  <2> QED
    BY <1>6, <2>1, SameSide DEF DrainQueues
<1>7. CASE PollRows(r)
  <2>1. PICK s \in {"verdict", "drain"} : pc' = [pc EXCEPT ![r] = s]
    BY <1>7 DEF PollRows
  <2> QED
    BY <1>7, <2>1, SameSide DEF PollRows
<1>8. CASE CheckpointWave(r)
  BY <1>8, SameSide DEF CheckpointWave
<1>9. CASE AbortWaves(r)
  BY <1>9, SameSide DEF AbortWaves
<1>10. CASE FinalizePhase(r)
  BY <1>10, SameSide DEF FinalizePhase
<1>11. CASE LeavePhase(r)
  BY <1>11 DEF LeavePhase, GuardInv, OneRunner
<1>12. CASE \E t \in Task : AbortTask(r, t)
  BY <1>12 DEF AbortTask, GuardInv, OneRunner
<1> QED
  BY <1>1, <1>2, <1>3, <1>4, <1>5, <1>6, <1>7, <1>8, <1>9, <1>10, <1>11, <1>12
     DEF RunnerStep

(* A runner that times out or meets a database error keeps the guard. *)
LEMMA MishapGuarded ==
  ASSUME GuardInv, Mishap
  PROVE  GuardInv'
<1> USE DEF Goto, RunnerStates
<1>1. ASSUME NEW r \in Runner, WaitTimesOut(r)
      PROVE  GuardInv'
  BY <1>1, SameSide DEF WaitTimesOut
<1>2. ASSUME NEW r \in Runner, PhaseErrs(r)
      PROVE  GuardInv'
  BY <1>2, SameSide DEF PhaseErrs
<1>3. CASE \/ \E i \in Proc : WaiterRejected(i) \/ ToolCheckpoint(i)
           \/ \E t \in Task : CallFaults(t)
  <2>1. UNCHANGED runnerVars
    BY <1>3 DEF WaiterRejected, ToolCheckpoint, CallFaults
  <2> QED
    BY <2>1 DEF runnerVars, GuardInv, OneRunner
<1> QED
  BY <1>1, <1>2, <1>3 DEF Mishap

(* Calls, processes and single-task operations do not touch the runners. *)
LEMMA OthersGuarded ==
  ASSUME GuardInv,
         \/ \E t \in Task, o \in Origin : CallStep(t, o)
         \/ \E i \in Proc : \/ ProcessStep(i) \/ ContinuationRecorded(i)
                             \/ MonitorDropped(i)
         \/ \E t \in Task : UserStep(t) \/ WatchdogStep(t)
         \/ StopAll \/ StopAllLists \/ StopAllRecorded
  PROVE  GuardInv'
<1>1. CASE \E t \in Task, o \in Origin : CallStep(t, o)
  <2>1. UNCHANGED runnerVars
    BY <1>1 DEF CallStep, LoadTask, MarkRunning, LaunchTask, LaunchRefused,
       CallFails
  <2> QED
    BY <2>1 DEF runnerVars, GuardInv, OneRunner
<1>2. ASSUME NEW i \in Proc,
             ProcessStep(i) \/ ContinuationRecorded(i) \/ MonitorDropped(i)
      PROVE  GuardInv'
  <2>1. UNCHANGED runnerVars
    BY <1>2 DEF ProcessStep, WaiterStarts, StreamStarts, RunExits, RunRecorded,
       RunPublished, MonitorDropped, UnchangedButManager, ContinuationRecorded
  <2> QED
    BY <2>1 DEF runnerVars, GuardInv, OneRunner
<1>3. ASSUME NEW t \in Task, UserStep(t)
      PROVE  GuardInv'
  <2>1. UNCHANGED runnerVars
    BY <1>3 DEF UserStep, UserStops, StopReturns, StopRecorded, UserStarts,
       UserContinues, RunRequested, UserApproves, ApprovalRecorded, Halt,
       LaunchContinuation, ContinuationRefused, UnchangedButManager
  <2> QED
    BY <2>1 DEF runnerVars, GuardInv, OneRunner
<1>4. CASE StopAll \/ StopAllLists \/ StopAllRecorded
  <2>1. UNCHANGED runnerVars
    BY <1>4 DEF StopAll, StopAllLists, StopAllRecorded
  <2> QED
    BY <2>1 DEF runnerVars, GuardInv, OneRunner
<1>5. ASSUME NEW t \in Task, WatchdogStep(t)
      PROVE  GuardInv'
  <2>1. UNCHANGED runnerVars
    BY <1>5 DEF WatchdogStep, WatchdogReads, WatchdogFails, WatchdogStops, WatchdogTells,
       UnchangedButManager
  <2> QED
    BY <2>1 DEF runnerVars, GuardInv, OneRunner
<1> QED
  BY <1>1, <1>2, <1>3, <1>4, <1>5

(* Every step of the service keeps the guard. *)
LEMMA NextGuarded == GuardInv /\ [Next]_vars => GuardInv'
<1> SUFFICES ASSUME GuardInv, [Next]_vars PROVE GuardInv'
  OBVIOUS
<1>1. CASE SchedulerNext
  BY <1>1, RunnerStepGuarded, MishapGuarded, OthersGuarded DEF SchedulerNext
<1>2. CASE ResumeStep
  <2>1. ASSUME NEW r \in Runner, ResumeResets(r)
        PROVE  GuardInv'
    BY <2>1, SameSide DEF ResumeResets, Goto, RunnerStates
  <2>2. CASE ResumePhase \/ ResumeLoads
    BY <2>2 DEF ResumePhase, ResumeLoads, runnerVars, GuardInv, OneRunner
  <2> QED
    BY <1>2, <2>1, <2>2 DEF ResumeStep
<1>3. CASE CrashAndRecover
  BY <1>3 DEF CrashAndRecover, GuardInv, OneRunner, RunnerStates
<1>4. CASE UNCHANGED vars
  BY <1>4 DEF vars, schedulerVars, runnerVars, GuardInv, OneRunner
<1> QED
  BY <1>1, <1>2, <1>3, <1>4, OthersGuarded DEF Next

(* However many run_phase, run_project and resume_phase calls overlap, one *)
(* execute_phase at most is past the guard of scheduler.py, and the set of *)
(* executing phases says so exactly; a crash frees the guard.              *)
THEOREM PhaseGuarded == Spec => []OneRunner
<1>1. Init => GuardInv
  <2> SUFFICES ASSUME Init PROVE GuardInv
    OBVIOUS
  <2>1. pc = [r \in Runner |-> "idle"] /\ ~ executing
    BY DEF Init, SchedulerInit
  <2>2. pc \in [Runner -> RunnerStates] /\ \A r \in Runner : pc[r] = "idle"
    BY <2>1 DEF RunnerStates
  <2> QED
    BY <2>1, <2>2 DEF GuardInv, OneRunner
<1>2. GuardInv => OneRunner
  BY DEF GuardInv
<1> QED
  BY <1>1, <1>2, NextGuarded, PTL DEF Spec
-----------------------------------------------------------------------------
(* Types.  The manager's variables are typed by its own invariant, which   *)
(* also tells that a process that is queued, holds a permit or lives has   *)
(* an owner; RowsTyped are the others.                                     *)
RowsTyped ==
  /\ status \in [Task -> Statuses]
  /\ phaseStatus \in PhaseStatuses
  /\ curWave \in Nat
  /\ sessions \subseteq Task
  /\ executing \in BOOLEAN
  /\ pc \in [Runner -> RunnerStates]
  /\ startWave \in [Runner -> Nat]
  /\ wave \in [Runner -> Nat]
  /\ todo \in [Runner -> SUBSET Task]
  /\ waiting \in [Runner -> SUBSET Task]
  /\ failed \in [Runner -> SUBSET Task]
  /\ seenC \in [Runner -> SUBSET Task]
  /\ seenF \in [Runner -> SUBSET Task]
  /\ call \in [Task -> [Origin -> CallStates]]
  /\ carrier \in [Proc -> Origin]
  /\ asking \in [Proc -> BOOLEAN]
  /\ happened \subseteq UNION Together
  /\ request \in [Task -> Requests]
  /\ stoppingAll \in BOOLEAN
  /\ listed \subseteq Task
  /\ resume \in [stage : {"none", "phase", "tasks"}, wave : Nat, rows : SUBSET Task]
  /\ overwritten \subseteq Task

TypeInv == ManagerInv /\ RowsTyped

LEMMA TypeInvIsTypeOK == TypeInv => TypeOK
BY DEF TypeInv, ManagerInv, RowsTyped, TypeOK, SchedulerTypeOK

(* A nonempty set of naturals has a least element, which Min chooses. *)
LEMMA LeastNatural ==
  ASSUME NEW S, S \subseteq Nat, S # {}
  PROVE  Min(S) \in S /\ \A n \in S : Min(S) <= n
<1> DEFINE R == OpToRel(<, Nat)
<1>1. IsWellFoundedOn(R, Nat)
  BY NatLessThanWellFounded
<1>2. \A m, n \in Nat : <<n, m>> \notin R => m <= n
  BY DEF OpToRel
<1> HIDE DEF R
<1>3. PICK m \in S : \A n \in S : <<n, m>> \notin R
  BY <1>1, WFMin, Zenon
<1>4. ASSUME NEW n \in S PROVE m <= n
  <2>1. m \in Nat /\ n \in Nat
    OBVIOUS
  <2> QED
    BY <2>1, <1>2, <1>3
<1> QED
  BY <1>4 DEF Min

(* A process that may end, be started or be recorded has an owner. *)
LEMMA OwnerKnown ==
  ASSUME ManagerInv, NEW i \in Proc, stage[i] # "none" \/ alive[i]
  PROVE  owner[i] \in Task
BY DEF ManagerInv, LifeSound, CutOff, Holding

(* What is kept of the histories. *)
LEMMA HappensTyped ==
  ASSUME happened \subseteq UNION Together, NEW kind, Happens(kind)
  PROVE  happened' \subseteq UNION Together
BY DEF Happens

LEMMA PublishedTyped ==
  ASSUME RowsTyped, NEW t \in Task, PublishFailed(t) \/ PublishCompleted(t)
  PROVE  seenC' \in [Runner -> SUBSET Task] /\ seenF' \in [Runner -> SUBSET Task]
<1>1. ASSUME NEW queue, queue \in [Runner -> SUBSET Task]
      PROVE  Published(queue, t) \in [Runner -> SUBSET Task]
  BY <1>1 DEF Published
<1>2. seenC \in [Runner -> SUBSET Task] /\ seenF \in [Runner -> SUBSET Task]
  BY DEF RowsTyped
<1> QED
  BY <1>1, <1>2 DEF PublishFailed, PublishCompleted

LEMMA CallStepTyped ==
  ASSUME TypeInv, NEW t \in Task, NEW o \in Origin, CallStep(t, o),
         UNCHANGED serviceVars
  PROVE  RowsTyped'
<1> USE DEF TypeInv, RowsTyped, serviceVars, jobVars, Statuses, Done, Terminal, CallStates, PhaseStatuses
<1>1. CASE LoadTask(t, o)
  BY <1>1 DEF LoadTask, managerVars, dbVars, queueVars, runnerVars
<1>2. CASE MarkRunning(t, o)
  BY <1>2 DEF MarkRunning, queueVars, runnerVars
<1>3. ASSUME NEW i \in Proc, LaunchTask(i, t, o)
      PROVE  RowsTyped'
  BY <1>3 DEF LaunchTask, dbVars, queueVars, runnerVars
<1>4. CASE LaunchRefused(t, o)
  BY <1>4, HappensTyped DEF LaunchRefused, dbVars, queueVars, runnerVars
<1>5. CASE CallFails(t, o)
  BY <1>5, PublishedTyped DEF CallFails, MarkTaskFailed, runnerVars
<1> QED
  BY <1>1, <1>2, <1>3, <1>4, <1>5 DEF CallStep


(* Processes and their monitors. *)
LEMMA ProcessStepTyped ==
  ASSUME TypeInv, NEW i \in Proc,
         ProcessStep(i) \/ ContinuationRecorded(i) \/ MonitorDropped(i),
         UNCHANGED serviceVars
  PROVE  RowsTyped'
<1> USE DEF TypeInv, RowsTyped, serviceVars, jobVars
<1>1. CASE WaiterStarts(i)
  BY <1>1, OwnerKnown
     DEF WaiterStarts, SlotGranted, CallStates, dbVars, queueVars, runnerVars
<1>2. CASE StreamStarts(i)
  BY <1>2 DEF StreamStarts, dbVars, queueVars, runnerVars, callVars
<1>3. CASE RunExits(i)
  BY <1>3, OwnerKnown
     DEF RunExits, ProcessExits, queueVars, runnerVars
<1>4. CASE RunRecorded(i)
  <2>1. /\ status' \in [Task -> Statuses]
        /\ phaseStatus' \in PhaseStatuses
        /\ UNCHANGED <<curWave, sessions>>
    <3>1. stage[i] = "streaming" /\ owner[i] \in Task
      BY <1>4, OwnerKnown DEF RunRecorded, RunOnComplete
    <3>2. CASE UNCHANGED dbVars
      BY <3>2 DEF dbVars
    <3>3. CASE RecordExit(i, owner[i])
      BY <3>1, <3>3 DEF RecordExit, RecordFinal, Statuses, Done, Terminal,
         PhaseStatuses
    <3> QED
      BY <1>4, <3>2, <3>3 DEF RunRecorded
  <2> QED
    BY <1>4, <2>1 DEF RunRecorded, queueVars, runnerVars, callVars
<1>5. CASE RunPublished(i)
  <2>1. owner[i] \in Task
    BY <1>5, OwnerKnown DEF RunPublished, MonitorFinishes
  <2> QED
    BY <1>5, <2>1, PublishedTyped DEF RunPublished, dbVars, runnerVars, callVars
<1>6. CASE ContinuationRecorded(i)
  <2>1. stage[i] = "streaming" /\ owner[i] \in Task
    BY <1>6, OwnerKnown DEF ContinuationRecorded, RunOnComplete
  <2>2. status' \in [Task -> Statuses]
    BY <1>6, <2>1 DEF ContinuationRecorded, Statuses, Done, Terminal
  <2> QED
    BY <1>6, <2>2 DEF ContinuationRecorded, queueVars, runnerVars, callVars
<1>7. CASE MonitorDropped(i)
  BY <1>7 DEF MonitorDropped, UnchangedButManager, dbVars, queueVars,
     runnerVars, callVars
<1> QED
  BY <1>1, <1>2, <1>3, <1>4, <1>5, <1>6, <1>7 DEF ProcessStep

(* Runners. *)
LEMMA RunnerStepTyped ==
  ASSUME TypeInv, NEW r \in Runner, RunPhase(r) \/ RunnerStep(r),
         UNCHANGED serviceVars
  PROVE  RowsTyped'
<1> USE DEF TypeInv, RowsTyped, serviceVars, jobVars, Goto, RunnerStates
<1>1. CASE RunPhase(r)
  BY <1>1, HappensTyped DEF RunPhase, dbVars, queueVars, callVars
<1>2. CASE EnterPhase(r)
  <2>1. \E s \in {"idle", "entered"} : pc' = [pc EXCEPT ![r] = s]
    BY <1>2 DEF EnterPhase
  <2>2. executing' \in BOOLEAN
    BY <1>2 DEF EnterPhase
  <2>3. startWave' \in [Runner -> Nat]
    BY <1>2 DEF EnterPhase
  <2> QED
    BY <1>2, <2>1, <2>2, <2>3 DEF EnterPhase, dbVars, queueVars, callVars
<1>3. CASE LoadPhase(r)
  BY <1>3 DEF LoadPhase, queueVars, callVars, PhaseStatuses
<1>4. CASE StartWave(r)
  <2> DEFINE W == {Wave[t] : t \in Ahead(r)}
             w == Min(W)
  <2>1. Ahead(r) \subseteq Task
    BY DEF Ahead
  <2>2. w \in Nat
    <3>1. W \subseteq Nat /\ W # {}
      BY <1>4, <2>1, SchedulerAssumption DEF StartWave
    <3> QED
      BY <3>1, LeastNatural
  <2>3. /\ wave' = [wave EXCEPT ![r] = w]
        /\ call' = [t \in Task |-> IF t \in Ahead(r) /\ Wave[t] = w
                                   THEN [call[t] EXCEPT !["phase"] = "spawned"]
                                   ELSE call[t]]
        /\ todo' = [todo EXCEPT ![r] = Ahead(r)]
    BY <1>4 DEF StartWave
  <2> HIDE DEF w
  <2>4. call' \in [Task -> [Origin -> CallStates]]
    BY <2>3 DEF CallStates
  <2>5. /\ pc' = [pc EXCEPT ![r] = "gather"]
        /\ UNCHANGED <<dbVars, queueVars, carrier, asking, executing,
                       startWave, waiting, failed, happened>>
    BY <1>4 DEF StartWave
  <2> QED
    BY <2>1, <2>2, <2>3, <2>4, <2>5 DEF dbVars, queueVars
<1>5. CASE Subscribe(r)
  <2>1. InWave(r) \subseteq Task
    BY DEF InWave
  <2> QED
    BY <1>5, <2>1 DEF Subscribe, dbVars, callVars
<1>6. CASE DrainQueues(r)
  BY <1>6 DEF DrainQueues, dbVars, callVars
<1>7. CASE PollRows(r)
  BY <1>7 DEF PollRows, dbVars, callVars
<1>8. CASE CheckpointWave(r)
  BY <1>8 DEF CheckpointWave, queueVars, callVars
<1>9. CASE AbortWaves(r)
  BY <1>9 DEF AbortWaves, dbVars, queueVars, callVars
<1>10. CASE FinalizePhase(r)
  BY <1>10 DEF FinalizePhase, queueVars, callVars, PhaseStatuses
<1>11. CASE LeavePhase(r)
  BY <1>11 DEF LeavePhase, dbVars, queueVars, callVars
<1>12. ASSUME NEW t \in Task, AbortTask(r, t)
       PROVE  RowsTyped'
  BY <1>12, PublishedTyped
     DEF AbortTask, MarkTaskFailed, callVars, Statuses, Done, Terminal
<1> QED
  BY <1>1, <1>2, <1>3, <1>4, <1>5, <1>6, <1>7, <1>8, <1>9, <1>10, <1>11, <1>12
     DEF RunnerStep

(* Mishaps. *)
LEMMA MishapTyped ==
  ASSUME TypeInv, Mishap, UNCHANGED serviceVars
  PROVE  RowsTyped'
<1> USE DEF TypeInv, RowsTyped, serviceVars, jobVars
<1>1. ASSUME NEW r \in Runner, WaitTimesOut(r)
      PROVE  RowsTyped'
  <2>1. status' \in [Task -> Statuses]
    BY <1>1 DEF WaitTimesOut, Statuses, Done, Terminal
  <2> QED
    BY <1>1, <2>1, HappensTyped DEF WaitTimesOut, callVars, Goto, RunnerStates
<1>2. ASSUME NEW r \in Runner, PhaseErrs(r)
      PROVE  RowsTyped'
  <2>1. InWave(r) \subseteq Task
    BY DEF InWave
  <2> QED
    BY <1>2, <2>1, HappensTyped
       DEF PhaseErrs, dbVars, callVars, Goto, RunnerStates
<1>3. ASSUME NEW i \in Proc, WaiterRejected(i)
      PROVE  RowsTyped'
  BY <1>3, OwnerKnown, HappensTyped
     DEF WaiterRejected, SlotGrantedStartRaises, CallStates, dbVars, queueVars,
         runnerVars
<1>4. ASSUME NEW i \in Proc, ToolCheckpoint(i)
      PROVE  RowsTyped'
  BY <1>4, OwnerKnown, HappensTyped
     DEF ToolCheckpoint, queueVars, runnerVars, Statuses, Done
<1>5. ASSUME NEW t \in Task, CallFaults(t)
      PROVE  RowsTyped'
  BY <1>5, HappensTyped
     DEF CallFaults, CallStates, Origin, dbVars, queueVars, runnerVars
<1> QED
  BY <1>1, <1>2, <1>3, <1>4, <1>5 DEF Mishap

(* The operations of users and of the watchdog. *)
LEMMA UserStepTyped ==
  ASSUME TypeInv, NEW t \in Task, UserStep(t) \/ WatchdogStep(t)
  PROVE  RowsTyped'
<1> USE HappensTyped, PublishedTyped
    DEF TypeInv, RowsTyped, UnchangedButManager, dbVars, queueVars, runnerVars,
        callVars, jobVars
<1>1. CASE UserStops(t)
  BY <1>1 DEF UserStops, Requests
<1>2. CASE StopReturns(t)
  BY <1>2 DEF StopReturns, Requests
<1>3. CASE StopRecorded(t)
  BY <1>3 DEF StopRecorded, Requests, Statuses, Done, Terminal
<1>4. CASE UserStarts(t)
  BY <1>4 DEF UserStarts, Requests
<1>5. CASE UserContinues(t)
  BY <1>5 DEF UserContinues, Requests
<1>6. CASE RunRequested(t)
  <2>1. \E o \in Origin, s \in CallStates : call' = [call EXCEPT ![t][o] = s]
    BY <1>6 DEF RunRequested, CallStates, Origin
  <2>2. sessions' \subseteq sessions
    BY <1>6 DEF RunRequested
  <2> QED
    BY <1>6, <2>1, <2>2 DEF RunRequested, Requests, Statuses
<1>7. CASE UserApproves(t)
  <2>1. processes[t] \in Proc
    BY <1>7 DEF UserApproves, ManagerInv, ManagerTypeOK
  <2> QED
    BY <1>7, <2>1 DEF UserApproves, Requests
<1>8. CASE ApprovalRecorded(t)
  BY <1>8 DEF ApprovalRecorded, Requests, Statuses
<1>9. CASE Halt(t)
  <2>1. \E q \in Requests : request' = [request EXCEPT ![t] = q]
    BY <1>9 DEF Halt, Requests
  <2> QED
    BY <1>9, <2>1 DEF Halt
<1>10. CASE ContinuationRefused(t)
  BY <1>10 DEF ContinuationRefused, CallStates, Origin, serviceVars
<1>11. ASSUME NEW i \in Proc, LaunchContinuation(i, t)
       PROVE  RowsTyped'
  BY <1>11 DEF LaunchContinuation, CallStates, Origin, serviceVars
<1>12. CASE WatchdogReads(t) \/ WatchdogFails(t)
  <2>1. request' \in [Task -> Requests]
    BY <1>12 DEF WatchdogReads, WatchdogFails, Requests
  <2>2. status' \in [Task -> Statuses]
    BY <1>12 DEF WatchdogReads, WatchdogFails, Statuses, Done, Terminal
  <2>3. CASE WatchdogReads(t)
    BY <2>1, <2>2, <2>3 DEF WatchdogReads
  <2>4. CASE WatchdogFails(t)
    <3>1. /\ UNCHANGED <<phaseStatus, curWave, sessions, queueVars, runnerVars,
                         callVars, jobVars, happened>>
      BY <2>4 DEF WatchdogFails
    <3> QED
      BY <2>1, <2>2, <3>1
  <2> QED
    BY <1>12, <2>3, <2>4
<1>13. CASE WatchdogStops(t)
  BY <1>13 DEF WatchdogStops, Requests
<1>14. CASE WatchdogTells(t)
  BY <1>14 DEF WatchdogTells, Requests
<1> QED
  BY <1>1, <1>2, <1>3, <1>4, <1>5, <1>6, <1>7, <1>8, <1>9, <1>10, <1>11,
     <1>12, <1>13, <1>14 DEF UserStep, WatchdogStep

(* The operations on all tasks at once. *)
LEMMA ServiceStepTyped ==
  ASSUME TypeInv,
         \/ ResumeStep
         \/ StopAll \/ StopAllLists \/ StopAllRecorded \/ CrashAndRecover
  PROVE  RowsTyped'
<1> USE HappensTyped
    DEF TypeInv, RowsTyped, dbVars, queueVars, runnerVars, callVars
<1>1. ASSUME NEW r \in Runner, ResumeResets(r)
      PROVE  RowsTyped'
  <2>1. status' \in [Task -> Statuses]
    BY <1>1 DEF ResumeResets, Statuses
  <2>2. resume.wave \in Nat /\ NoResume \in
          [stage : {"none", "phase", "tasks"}, wave : Nat, rows : SUBSET Task]
    BY DEF NoResume
  <2> QED
    BY <1>1, <2>1, <2>2 DEF ResumeResets, PhaseStatuses, Goto, RunnerStates
<1>5. CASE ResumePhase
  BY <1>5 DEF ResumePhase
<1>6. CASE ResumeLoads
  BY <1>6 DEF ResumeLoads, NoResume
<1>2. CASE StopAll
  BY <1>2 DEF StopAll, Requests
<1>3. CASE StopAllLists \/ StopAllRecorded
  BY <1>3 DEF StopAllLists, StopAllRecorded, Statuses, Done, Terminal
<1>4. CASE CrashAndRecover
  <2>1. status' \in [Task -> Statuses]
    BY <1>4 DEF CrashAndRecover, Recovered, Statuses, Done, Terminal
  <2> QED
    BY <1>4, <2>1 DEF CrashAndRecover, RunnerStates, CallStates, Origin, Requests,
       NoResume
<1> QED
  BY <1>1, <1>2, <1>3, <1>4, <1>5, <1>6 DEF ResumeStep

LEMMA NextTyped == TypeInv /\ [Next]_vars => TypeInv'
<1> SUFFICES ASSUME TypeInv, [Next]_vars PROVE TypeInv'
  OBVIOUS
<1>1. ManagerInv'
  BY NextManages, NextInv DEF TypeInv
<1>2. CASE SchedulerNext /\ UNCHANGED serviceVars
  BY <1>2, CallStepTyped, ProcessStepTyped, RunnerStepTyped, MishapTyped, <1>1
     DEF SchedulerNext, TypeInv
<1>3. ASSUME NEW t \in Task, UserStep(t) \/ WatchdogStep(t)
      PROVE  RowsTyped'
  BY <1>3, UserStepTyped
<1>4. ASSUME NEW i \in Proc, ContinuationRecorded(i) \/ MonitorDropped(i)
      PROVE  RowsTyped'
  <2>1. UNCHANGED serviceVars
    BY <1>4 DEF ContinuationRecorded, MonitorDropped
  <2> QED
    BY <1>4, <2>1, ProcessStepTyped
<1>5. CASE UNCHANGED vars
  BY <1>1, <1>5 DEF vars, schedulerVars, dbVars, queueVars, runnerVars,
     callVars, serviceVars, jobVars, TypeInv, RowsTyped
<1> QED
  BY <1>1, <1>2, <1>3, <1>4, <1>5, ServiceStepTyped DEF Next, TypeInv

LEMMA InitTyped == Init => TypeInv
<1> SUFFICES ASSUME Init PROVE TypeInv
  OBVIOUS
<1>1. ManagerInv
  BY InitInv DEF Init, SchedulerInit
<1>2. RowsTyped
  BY DEF Init, SchedulerInit, RowsTyped, Statuses, PhaseStatuses, RunnerStates,
     CallStates, Origin, Requests, NoResume
<1> QED
  BY <1>1, <1>2 DEF TypeInv

(* Every variable of the service keeps its type: in particular the words   *)
(* for statuses that tasks and phases, runners and calls go by.            *)
THEOREM ServiceTyped == Spec => []TypeOK
BY InitTyped, NextTyped, TypeInvIsTypeOK, PTL DEF Spec

-----------------------------------------------------------------------------
(* Histories.  Whoever is at work on a task has left a trace in happened,  *)
(* which only grows; so a property that begins with Never speaks of states *)
(* in which the work it excludes is not to be found.                       *)
RequestsTraced ==
  /\ \A t \in Task :
       /\ request[t] = "stop" => "stop" \in happened
       /\ request[t] = "start" => "start" \in happened
       /\ request[t] = "continue" => "continue" \in happened
       /\ request[t] \in {"suspect", "expire", "expired"} => "watchdog" \in happened
       /\ request[t] = "approve" => "permission" \in happened /\ t \in Interactive
       /\ request[t] \in {"halt", "halting"} => stoppingAll
  /\ stoppingAll => "stop_all" \in happened
  /\ listed # {} => /\ stoppingAll
                    /\ \A t \in Task : request[t] \notin {"halt", "halting"}
  /\ resume.stage # "none" => "resume" \in happened

CallsTraced ==
  /\ \A t \in Task :
       /\ call[t]["user"] # "none" => "start" \in happened
       /\ call[t]["continue"] # "none" => "continue" \in happened
  /\ \A i \in Proc :
       /\ carrier[i] = "user" => "start" \in happened
       /\ carrier[i] = "continue" => "continue" \in happened
  /\ \A r \in Runner : pc[r] # "idle" => happened \cap {"phase", "resume"} # {}

Cancels == happened \cap {"stop", "stop_all"} # {}

RowsTraced ==
  \A t \in Task : /\ status[t] = "cancelled" => Cancels
                  /\ status[t] = "awaiting_input" => t \in Interactive

AskingTraced ==
  \A i \in Proc : asking[i] => /\ "permission" \in happened
                               /\ owner[i] \in Interactive /\ alive[i]

(* A task whose process is being stopped is undergoing an operation that   *)
(* stops processes, and a process whose monitor leaked is being stopped or *)
(* dead.                                                                   *)
StopsAsked ==
  /\ \A t \in Task : stopping[t] # None =>
       request[t] \in {"stop", "start", "continue", "halting", "expired"}
  /\ \A i \in Proc : stage[i] = "leaked" /\ alive[i] => BeingStopped(i)

Traced == /\ RequestsTraced /\ CallsTraced /\ RowsTraced /\ AskingTraced
          /\ StopsAsked

ServiceInv == TypeInv /\ Traced

(* Nothing that has happened is forgotten. *)
LEMMA HistoryGrows ==
  ASSUME [Next]_vars
  PROVE  happened \subseteq happened'
<1>1. ASSUME NEW t \in Task, NEW o \in Origin, CallStep(t, o)
      PROVE  happened \subseteq happened'
  BY <1>1 DEF CallStep, LoadTask, MarkRunning, LaunchTask, LaunchRefused,
     CallFails, Happens
<1>2. ASSUME NEW i \in Proc,
             ProcessStep(i) \/ ContinuationRecorded(i) \/ MonitorDropped(i)
      PROVE  happened \subseteq happened'
  BY <1>2 DEF ProcessStep, WaiterStarts, StreamStarts, RunExits, RunRecorded,
     RunPublished, ContinuationRecorded, MonitorDropped
<1>3. ASSUME NEW r \in Runner, RunPhase(r) \/ RunnerStep(r)
      PROVE  happened \subseteq happened'
  BY <1>3 DEF RunPhase, RunnerStep, EnterPhase, LoadPhase, StartWave,
     Subscribe, DrainQueues, PollRows, CheckpointWave, AbortWaves,
     FinalizePhase, LeavePhase, AbortTask, Happens
<1>4. CASE Mishap
  BY <1>4 DEF Mishap, WaitTimesOut, PhaseErrs, WaiterRejected, ToolCheckpoint,
     CallFaults, Happens
<1>5. ASSUME NEW t \in Task, UserStep(t) \/ WatchdogStep(t)
      PROVE  happened \subseteq happened'
  BY <1>5 DEF UserStep, UserStops, StopReturns, StopRecorded, UserStarts,
     UserContinues, RunRequested, UserApproves, ApprovalRecorded, Halt,
     ContinuationRefused, LaunchContinuation, WatchdogStep, WatchdogReads,
     WatchdogFails, WatchdogStops, WatchdogTells, Happens
<1>6. CASE \/ ResumeStep
           \/ StopAll \/ StopAllLists \/ StopAllRecorded \/ CrashAndRecover
  BY <1>6 DEF ResumeStep, ResumePhase, ResumeLoads, ResumeResets, StopAll, StopAllLists, StopAllRecorded, CrashAndRecover, Happens
<1>7. CASE UNCHANGED vars
  BY <1>7 DEF vars, schedulerVars
<1> QED
  BY <1>1, <1>2, <1>3, <1>4, <1>5, <1>6, <1>7 DEF Next, SchedulerNext


(* The scheduler leaves requests alone.                                    *)
LEMMA RequestsTracedNext ==
  ASSUME ServiceInv, [Next]_vars
  PROVE  RequestsTraced'
<1> USE HistoryGrows DEF ServiceInv, Traced, RequestsTraced, TypeInv, RowsTyped, jobVars
<1>1. CASE UNCHANGED serviceVars
  BY <1>1 DEF serviceVars
<1>2. ASSUME NEW t \in Task, UserStep(t)
      PROVE  RequestsTraced'
  <2>1. CASE UserStops(t)
    BY <2>1 DEF UserStops, Happens
  <2>2. CASE StopReturns(t)
    BY <2>2 DEF StopReturns
  <2>3. CASE StopRecorded(t) \/ RunRequested(t) \/ ApprovalRecorded(t)
    BY <2>3 DEF StopRecorded, RunRequested, ApprovalRecorded
  <2>4. CASE UserStarts(t)
    BY <2>4 DEF UserStarts, Happens
  <2>5. CASE UserContinues(t)
    BY <2>5 DEF UserContinues, Happens
  <2>6. CASE UserApproves(t)
    <3>1. processes[t] \in Proc /\ owner[processes[t]] = t
      BY <2>6 DEF UserApproves, ManagerInv, ManagerTypeOK, RegistrySound
    <3>2. "permission" \in happened /\ t \in Interactive
      BY <2>6, <3>1 DEF UserApproves, AskingTraced
    <3> QED
      BY <2>6, <3>2 DEF UserApproves
  <2>7. CASE Halt(t)
    BY <2>7 DEF Halt
  <2>8. CASE ContinuationRefused(t) \/ \E i \in Proc : LaunchContinuation(i, t)
    BY <2>8 DEF ContinuationRefused, LaunchContinuation, serviceVars
  <2> QED
    BY <1>2, <2>1, <2>2, <2>3, <2>4, <2>5, <2>6, <2>7, <2>8 DEF UserStep
<1>3. ASSUME NEW t \in Task, WatchdogStep(t)
      PROVE  RequestsTraced'
  BY <1>3 DEF WatchdogStep, WatchdogReads, WatchdogFails, WatchdogStops, WatchdogTells, Happens
<1>4. ASSUME NEW i \in Proc, ContinuationRecorded(i) \/ MonitorDropped(i)
      PROVE  UNCHANGED serviceVars
  BY <1>4 DEF ContinuationRecorded, MonitorDropped
<1>5. CASE ResumeStep
  BY <1>5 DEF ResumeStep, ResumePhase, ResumeLoads, ResumeResets, NoResume, Happens
<1>6. CASE StopAll
  BY <1>6 DEF StopAll, Happens, Never
<1>7. CASE StopAllLists
  BY <1>7 DEF StopAllLists
<1>10. CASE StopAllRecorded
  <2>1. /\ stoppingAll' = FALSE /\ listed' = {} /\ UNCHANGED <<request, resume, happened>>
    BY <1>10 DEF StopAllRecorded
  <2>2. \A t \in Task : request[t] \notin {"halt", "halting"}
    BY <1>10 DEF StopAllRecorded
  <2> QED
    BY <2>1, <2>2
<1>8. CASE CrashAndRecover
  BY <1>8 DEF CrashAndRecover, NoResume
<1>9. CASE UNCHANGED vars
  BY <1>1, <1>9 DEF vars
<1> QED
  BY <1>1, <1>2, <1>3, <1>4, <1>5, <1>6, <1>7, <1>8, <1>9, <1>10 DEF Next

(* Calls are spawned by a runner, by start_task and by continue_task.      *)
LEMMA CallsTracedNext ==
  ASSUME ServiceInv, [Next]_vars
  PROVE  CallsTraced'
<1> USE HistoryGrows
    DEF ServiceInv, Traced, CallsTraced, TypeInv, RowsTyped, Origin
<1>1. CASE UNCHANGED <<call, carrier, pc>>
  BY <1>1
<1>2. ASSUME NEW t \in Task, NEW o \in Origin, CallStep(t, o)
      PROVE  CallsTraced'
  <2>1. CASE LoadTask(t, o)
    BY <2>1 DEF LoadTask, runnerVars
  <2>2. CASE MarkRunning(t, o)
    BY <2>2 DEF MarkRunning, runnerVars
  <2>3. ASSUME NEW i \in Proc, LaunchTask(i, t, o)
        PROVE  CallsTraced'
    BY <2>3 DEF LaunchTask, runnerVars
  <2>4. CASE LaunchRefused(t, o)
    BY <2>4 DEF LaunchRefused, runnerVars
  <2>5. CASE CallFails(t, o)
    BY <2>5 DEF CallFails, runnerVars
  <2> QED
    BY <1>2, <2>1, <2>2, <2>3, <2>4, <2>5 DEF CallStep
<1>3. ASSUME NEW i \in Proc,
             ProcessStep(i) \/ ContinuationRecorded(i) \/ MonitorDropped(i)
      PROVE  CallsTraced'
  <2>1. CASE WaiterStarts(i)
    BY <2>1, OwnerKnown DEF WaiterStarts, SlotGranted, runnerVars
  <2> QED
    BY <1>1, <1>3, <2>1
       DEF ProcessStep, StreamStarts, RunExits, RunRecorded, RunPublished,
           ContinuationRecorded, MonitorDropped, UnchangedButManager,
           runnerVars, callVars
<1>4. ASSUME NEW r \in Runner, RunPhase(r) \/ ResumeResets(r)
      PROVE  CallsTraced'
  BY <1>4 DEF RunPhase, ResumeResets, RequestsTraced, Goto, callVars, Happens
<1>12. CASE ResumePhase \/ ResumeLoads
  BY <1>1, <1>12 DEF ResumePhase, ResumeLoads, callVars, runnerVars
<1>5. ASSUME NEW r \in Runner, RunnerStep(r)
      PROVE  CallsTraced'
  <2>1. CASE StartWave(r)
    <3>1. /\ pc[r] = "ready" /\ pc' = [pc EXCEPT ![r] = "gather"]
          /\ UNCHANGED <<carrier, happened>>
          /\ \A t \in Task : \/ call'[t] = call[t]
                             \/ call'[t] = [call[t] EXCEPT !["phase"] = "spawned"]
      BY <2>1 DEF StartWave, Goto
    <3>2. happened' \cap {"phase", "resume"} # {}
      BY <3>1
    <3>4. ASSUME NEW t \in Task
          PROVE  /\ call'[t]["user"] = call[t]["user"]
                 /\ call'[t]["continue"] = call[t]["continue"]
      <4>1. CASE call'[t] = call[t]
        BY <4>1
      <4>2. CASE call'[t] = [call[t] EXCEPT !["phase"] = "spawned"]
        BY <4>2
      <4> QED
        BY <3>1, <4>1, <4>2
    <3> QED
      BY <3>1, <3>2, <3>4
  <2>2. CASE \E t \in Task : AbortTask(r, t)
    BY <2>2, <1>1 DEF AbortTask, callVars
  <2>3. CASE ~ StartWave(r) /\ ~ \E t \in Task : AbortTask(r, t)
    <3>1. /\ UNCHANGED <<call, carrier, happened>>
          /\ pc[r] # "idle" /\ \E s : pc' = [pc EXCEPT ![r] = s]
      BY <1>5, <2>3
         DEF RunnerStep, EnterPhase, LoadPhase, Subscribe, DrainQueues,
             PollRows, CheckpointWave, AbortWaves, FinalizePhase, LeavePhase,
             Goto, callVars
    <3> QED
      BY <3>1
  <2> QED
    BY <2>1, <2>2, <2>3
<1>6. CASE Mishap
  <2>1. ASSUME NEW r \in Runner, WaitTimesOut(r) \/ PhaseErrs(r)
        PROVE  CallsTraced'
    <3>1. UNCHANGED <<call, carrier>> /\ pc[r] # "idle"
      BY <2>1 DEF WaitTimesOut, PhaseErrs, callVars
    <3>2. happened' \cap {"phase", "resume"} # {}
      BY <3>1
    <3>3. happened \subseteq happened'
      OBVIOUS
    <3> QED
      BY <3>1, <3>2, <3>3
  <2>2. ASSUME NEW i \in Proc, WaiterRejected(i)
        PROVE  CallsTraced'
    BY <2>2, OwnerKnown DEF WaiterRejected, SlotGrantedStartRaises, runnerVars
  <2>3. ASSUME NEW i \in Proc, ToolCheckpoint(i)
        PROVE  CallsTraced'
    BY <1>1, <2>3 DEF ToolCheckpoint, runnerVars
  <2>4. ASSUME NEW t \in Task, CallFaults(t)
        PROVE  CallsTraced'
    BY <2>4 DEF CallFaults, runnerVars
  <2> QED
    BY <1>6, <2>1, <2>2, <2>3, <2>4 DEF Mishap
<1>7. ASSUME NEW t \in Task, UserStep(t)
      PROVE  CallsTraced'
  <2>1. CASE RunRequested(t)
    <3>1. UNCHANGED <<carrier, pc, happened>>
      BY <2>1 DEF RunRequested, runnerVars
    <3>2. CASE request[t] = "start"
      <4>1. call' = [call EXCEPT ![t]["user"] = "spawned"]
        BY <2>1, <3>2 DEF RunRequested
      <4> QED
        BY <3>1, <3>2, <4>1 DEF RequestsTraced
    <3>3. CASE request[t] = "continue"
      <4>1. call' = [call EXCEPT ![t]["continue"] = "ready"]
        BY <2>1, <3>3 DEF RunRequested
      <4> QED
        BY <3>1, <3>3, <4>1 DEF RequestsTraced
    <3> QED
      BY <2>1, <3>2, <3>3 DEF RunRequested
  <2>2. ASSUME NEW i \in Proc, LaunchContinuation(i, t)
        PROVE  CallsTraced'
    BY <2>2 DEF LaunchContinuation, runnerVars
  <2>3. CASE ContinuationRefused(t)
    BY <2>3 DEF ContinuationRefused, runnerVars
  <2> QED
    BY <1>1, <1>7, <2>1, <2>2, <2>3
       DEF UserStep, UserStops, StopReturns, StopRecorded, UserStarts,
           UserContinues, UserApproves, ApprovalRecorded, Halt,
           UnchangedButManager, runnerVars, callVars
<1>8. ASSUME NEW t \in Task, WatchdogStep(t)
      PROVE  CallsTraced'
  BY <1>1, <1>8 DEF WatchdogStep, WatchdogReads, WatchdogFails, WatchdogStops, WatchdogTells,
     UnchangedButManager, runnerVars, callVars
<1>9. CASE StopAll \/ StopAllLists \/ StopAllRecorded
  BY <1>1, <1>9 DEF StopAll, StopAllLists, StopAllRecorded, runnerVars, callVars
<1>10. CASE CrashAndRecover
  BY <1>10 DEF CrashAndRecover
<1>11. CASE UNCHANGED vars
  BY <1>1, <1>11 DEF vars, schedulerVars, runnerVars, callVars
<1> QED
  BY <1>2, <1>3, <1>4, <1>5, <1>6, <1>7, <1>8, <1>9, <1>10, <1>11, <1>12
     DEF Next, SchedulerNext, ResumeStep


(* Only a stop writes cancelled, and only interactive tasks await input.   *)
LEMMA RowsTracedNext ==
  ASSUME ServiceInv, [Next]_vars
  PROVE  RowsTraced'
<1> DEFINE New(t, s) ==
             \/ s \in {"pending", "running", "failed", "completed"}
             \/ s = "awaiting_input" /\ t \in Interactive
             \/ s = "cancelled" /\ Cancels
<1>1. Cancels => Cancels'
  BY HistoryGrows DEF Cancels
<1>2. ASSUME \A t \in Task : status'[t] = status[t] \/ New(t, status'[t])
      PROVE  RowsTraced'
  BY <1>1, <1>2 DEF ServiceInv, Traced, RowsTraced
<1>3. CASE UNCHANGED status
  BY <1>2, <1>3
<1> USE DEF ServiceInv, TypeInv, RowsTyped
<1>4. ASSUME NEW t \in Task, NEW o \in Origin, CallStep(t, o)
      PROVE  RowsTraced'
  <2>1. \A s \in Task : status'[s] = status[s] \/ New(s, status'[s])
    BY <1>4 DEF CallStep, LoadTask, MarkRunning, LaunchTask, LaunchRefused,
       CallFails, MarkTaskFailed, dbVars
  <2> QED
    BY <2>1, <1>2
<1>5. ASSUME NEW i \in Proc, ProcessStep(i)
      PROVE  RowsTraced'
  <2>1. CASE RunRecorded(i)
    <3>1. stage[i] = "streaming" /\ owner[i] \in Task
      BY <2>1, OwnerKnown DEF RunRecorded, RunOnComplete
    <3>2. \A s \in Task : status'[s] = status[s] \/ New(s, status'[s])
      BY <2>1, <3>1 DEF RunRecorded, RecordExit, RecordFinal, dbVars
    <3> QED
      BY <3>2, <1>2
  <2> QED
    BY <1>3, <1>5, <2>1
       DEF ProcessStep, WaiterStarts, StreamStarts, RunExits, RunPublished,
           dbVars
<1>6. ASSUME NEW i \in Proc, ContinuationRecorded(i) \/ MonitorDropped(i)
      PROVE  RowsTraced'
  <2>1. CASE ContinuationRecorded(i)
    <3>1. stage[i] = "streaming" /\ owner[i] \in Task
      BY <2>1, OwnerKnown DEF ContinuationRecorded, RunOnComplete
    <3>2. \A s \in Task : status'[s] = status[s] \/ New(s, status'[s])
      BY <2>1, <3>1 DEF ContinuationRecorded
    <3> QED
      BY <3>2, <1>2
  <2> QED
    BY <1>3, <1>6, <2>1 DEF MonitorDropped, UnchangedButManager, dbVars
<1>7. ASSUME NEW r \in Runner, RunPhase(r) \/ RunnerStep(r)
      PROVE  RowsTraced'
  <2>1. \A s \in Task : status'[s] = status[s] \/ New(s, status'[s])
    BY <1>7 DEF RunPhase, RunnerStep, EnterPhase, LoadPhase, StartWave,
       Subscribe, DrainQueues, PollRows, CheckpointWave, AbortWaves,
       FinalizePhase, LeavePhase, AbortTask, MarkTaskFailed, dbVars
  <2> QED
    BY <2>1, <1>2
<1>8. CASE Mishap
  <2>1. \A s \in Task : status'[s] = status[s] \/ New(s, status'[s])
    BY <1>8, OwnerKnown DEF Mishap, WaitTimesOut, PhaseErrs, WaiterRejected,
       ToolCheckpoint, CallFaults, dbVars
  <2> QED
    BY <2>1, <1>2
<1>9. ASSUME NEW t \in Task, UserStep(t)
      PROVE  RowsTraced'
  <2>1. CASE StopRecorded(t) \/ RunRequested(t) \/ ApprovalRecorded(t)
    <3>1. request[t] = "stop" => Cancels
      BY DEF Traced, RequestsTraced, Cancels
    <3>2. \A s \in Task : status'[s] = status[s] \/ New(s, status'[s])
      BY <2>1, <3>1 DEF StopRecorded, RunRequested, ApprovalRecorded
    <3> QED
      BY <3>2, <1>2
  <2> QED
    BY <1>3, <1>9, <2>1
       DEF UserStep, UserStops, StopReturns, UserStarts, UserContinues,
           UserApproves, Halt, ContinuationRefused, LaunchContinuation,
           UnchangedButManager, dbVars
<1>10. ASSUME NEW t \in Task, WatchdogStep(t)
       PROVE  RowsTraced'
  <2>1. \A s \in Task : status'[s] = status[s] \/ New(s, status'[s])
    BY <1>10 DEF WatchdogStep, WatchdogReads, WatchdogFails, WatchdogStops, WatchdogTells,
       UnchangedButManager, dbVars
  <2> QED
    BY <2>1, <1>2
<1>11. CASE StopAll \/ StopAllLists \/ StopAllRecorded
  <2>1. listed # {} => Cancels
    BY DEF Traced, RequestsTraced, Cancels
  <2>2. \A s \in Task : status'[s] = status[s] \/ New(s, status'[s])
    <3>1. CASE StopAllRecorded
      BY <2>1, <3>1 DEF StopAllRecorded
    <3>2. CASE StopAll \/ StopAllLists
      BY <3>2 DEF StopAll, StopAllLists, dbVars
    <3> QED
      BY <1>11, <3>1, <3>2
  <2> QED
    BY <2>2, <1>2
<1>12. CASE CrashAndRecover \/ ResumeStep
  <2>1. \A s \in Task : status'[s] = status[s] \/ New(s, status'[s])
    BY <1>12 DEF CrashAndRecover, Recovered, ResumeStep, ResumePhase, ResumeLoads,
       ResumeResets, dbVars
  <2> QED
    BY <2>1, <1>2
<1>13. CASE UNCHANGED vars
  BY <1>3, <1>13 DEF vars, schedulerVars, dbVars
<1> QED
  BY <1>4, <1>5, <1>6, <1>7, <1>8, <1>9, <1>10, <1>11, <1>12, <1>13
     DEF Next, SchedulerNext

(* A process keeps its owner while it lives.                               *)
LEMMA LivesOwned ==
  ASSUME ManagerInv, [ManagerNext]_managerVars, NEW i \in Proc,
         alive[i], alive'[i]
  PROVE  owner'[i] = owner[i]
<1> USE DEF ManagerInv, ManagerTypeOK
<1>1. ASSUME NEW j \in Proc, NEW t \in Task, StartTask(j, t) \/ ContinueTask(j, t)
      PROVE  owner'[i] = owner[i]
  BY <1>1 DEF StartTask, ContinueTask, Enter, Unused
<1>2. ASSUME NEW j \in Proc, SlotGrantedStartRaises(j)
      PROVE  owner'[i] = owner[i]
  BY <1>2 DEF SlotGrantedStartRaises, LifeSound, CutOff, StopSound, Holding
<1>3. CASE UNCHANGED owner
  BY <1>3
<1>4. CASE ManagerRestart
  BY <1>4 DEF ManagerRestart
<1> QED
  BY <1>1, <1>2, <1>3, <1>4
     DEF ManagerNext, StartTaskRefused, StopTask, StopFinishes,
         RemoveDeadProcess, SlotGranted, MonitorStarts, ProcessExits,
         RunOnComplete, MonitorFinishes, MonitorCancelled, managerVars

(* No other operation of the manager ends a life.                          *)
LEMMA LivesOn ==
  ASSUME ManagerTypeOK, NEW i \in Proc, alive[i],
         \/ \E j \in Proc, t \in Task : StartTask(j, t) \/ ContinueTask(j, t)
         \/ \E t \in Task : \/ StartTaskRefused(t) \/ StopTask(t)
                            \/ RemoveDeadProcess(t)
         \/ \E j \in Proc : \/ SlotGranted(j) \/ SlotGrantedStartRaises(j)
                            \/ MonitorStarts(j) \/ RunOnComplete(j)
                            \/ MonitorFinishes(j) \/ MonitorCancelled(j)
         \/ UNCHANGED managerVars
  PROVE  alive'[i]
<1> USE DEF ManagerTypeOK
<1>1. ASSUME NEW j \in Proc, NEW t \in Task, StartTask(j, t) \/ ContinueTask(j, t)
      PROVE  alive'[i]
  BY <1>1 DEF StartTask, ContinueTask, Enter, Attach
<1>2. ASSUME NEW j \in Proc, SlotGranted(j)
      PROVE  alive'[i]
  BY <1>2 DEF SlotGranted, Attach
<1>3. CASE UNCHANGED alive
  BY <1>3
<1> QED
  BY <1>1, <1>2, <1>3
     DEF StartTaskRefused, StopTask, RemoveDeadProcess, SlotGrantedStartRaises,
         MonitorStarts, RunOnComplete, MonitorFinishes, MonitorCancelled,
         managerVars

(* Only interactive tasks ask, and asking ends with the process.           *)
LEMMA AskingTracedNext ==
  ASSUME ServiceInv, [Next]_vars
  PROVE  AskingTraced'
<1> USE DEF ServiceInv, Traced, TypeInv, RowsTyped
<1>1. [ManagerNext]_managerVars /\ ManagerTypeOK
  BY NextManages DEF ManagerInv
<1>2. ASSUME \A i \in Proc : asking'[i] => asking[i] /\ alive'[i]
      PROVE  AskingTraced'
  BY <1>1, <1>2, HistoryGrows, LivesOwned DEF AskingTraced
<1>3. ASSUME UNCHANGED asking, \A i \in Proc : alive[i] => alive'[i]
      PROVE  AskingTraced'
  BY <1>2, <1>3 DEF AskingTraced
<1>4. ASSUME NEW t \in Task, NEW o \in Origin, CallStep(t, o)
      PROVE  AskingTraced'
  <2>1. UNCHANGED asking
    BY <1>4 DEF CallStep, LoadTask, MarkRunning, LaunchTask, LaunchRefused,
       CallFails
  <2>2. \/ UNCHANGED managerVars \/ StartTaskRefused(t)
        \/ \E i \in Proc : StartTask(i, t)
    BY <1>4 DEF CallStep, LoadTask, MarkRunning, LaunchTask, LaunchRefused,
       CallFails
  <2> QED
    BY <1>1, <1>3, <2>1, <2>2, LivesOn
<1>5. ASSUME NEW i \in Proc,
             ProcessStep(i) \/ ContinuationRecorded(i) \/ MonitorDropped(i)
      PROVE  AskingTraced'
  <2>1. CASE RunExits(i)
    <3>1. \A j \in Proc : asking'[j] => asking[j] /\ alive'[j]
      BY <1>1, <2>1 DEF RunExits, ProcessExits, ManagerTypeOK, AskingTraced
    <3> QED
      BY <1>2, <3>1
  <2>2. CASE \/ WaiterStarts(i) \/ StreamStarts(i) \/ RunRecorded(i)
             \/ RunPublished(i) \/ ContinuationRecorded(i) \/ MonitorDropped(i)
    <3>1. /\ UNCHANGED asking
          /\ \/ SlotGranted(i) \/ MonitorStarts(i) \/ RunOnComplete(i)
             \/ MonitorFinishes(i) \/ MonitorCancelled(i)
      BY <2>2 DEF WaiterStarts, StreamStarts, RunRecorded, RunPublished,
         ContinuationRecorded, MonitorDropped, UnchangedButManager, callVars
    <3> QED
      BY <1>1, <1>3, <3>1, LivesOn
  <2> QED
    BY <1>5, <2>1, <2>2 DEF ProcessStep
<1>6. ASSUME NEW r \in Runner,
             RunPhase(r) \/ RunnerStep(r)
      PROVE  AskingTraced'
  <2>1. UNCHANGED asking
    BY <1>6 DEF RunPhase, RunnerStep, EnterPhase, LoadPhase, StartWave, Subscribe,
       DrainQueues, PollRows, CheckpointWave, AbortWaves, FinalizePhase,
       LeavePhase, AbortTask, callVars
  <2>2. UNCHANGED alive
    BY <1>6, RunnerStepManages DEF managerVars
  <2> QED
    BY <1>3, <2>1, <2>2
<1>12. CASE ResumeStep
  BY <1>3, <1>12 DEF ResumeStep, ResumePhase, ResumeLoads, ResumeResets, callVars,
     managerVars
<1>7. CASE Mishap
  <2>1. ASSUME NEW r \in Runner, WaitTimesOut(r) \/ PhaseErrs(r)
        PROVE  AskingTraced'
    BY <1>3, <2>1 DEF WaitTimesOut, PhaseErrs, callVars, managerVars
  <2>2. ASSUME NEW i \in Proc, WaiterRejected(i)
        PROVE  AskingTraced'
    BY <1>1, <1>3, <2>2, LivesOn DEF WaiterRejected
  <2>3. ASSUME NEW i \in Proc, ToolCheckpoint(i)
        PROVE  AskingTraced'
    BY <2>3, HistoryGrows
       DEF ToolCheckpoint, AskingTraced, Happens, managerVars
  <2>4. ASSUME NEW t \in Task, CallFaults(t)
        PROVE  AskingTraced'
    BY <1>3, <2>4 DEF CallFaults, managerVars
  <2> QED
    BY <1>7, <2>1, <2>2, <2>3, <2>4 DEF Mishap
<1>8. ASSUME NEW t \in Task, UserStep(t) \/ WatchdogStep(t)
      PROVE  AskingTraced'
  <2>1. CASE StopReturns(t)
    <3>1. stopping[t].proc \in Proc
      BY <1>1, <2>1 DEF StopReturns, StopFinishes, ManagerTypeOK, StopCall
    <3>2. \A j \in Proc : asking'[j] => asking[j] /\ alive'[j]
      BY <1>1, <2>1, <3>1
         DEF StopReturns, StopFinishes, ManagerTypeOK, AskingTraced
    <3> QED
      BY <1>2, <3>2
  <2>2. CASE UserApproves(t)
    <3>1. \A j \in Proc : asking'[j] => asking[j] /\ alive'[j]
      BY <1>1, <2>2 DEF UserApproves, ManagerTypeOK, AskingTraced, managerVars
    <3> QED
      BY <1>2, <3>1
  <2>3. CASE ~ StopReturns(t) /\ ~ UserApproves(t)
    <3>1. UNCHANGED asking
      BY <1>8, <2>3
         DEF UserStep, UserStops, StopRecorded, UserStarts, UserContinues,
             RunRequested, ApprovalRecorded, Halt, ContinuationRefused,
             LaunchContinuation, UnchangedButManager, callVars, WatchdogStep,
             WatchdogReads, WatchdogFails, WatchdogStops, WatchdogTells
    <3>2. \/ UNCHANGED managerVars \/ StopTask(t) \/ RemoveDeadProcess(t)
          \/ StartTaskRefused(t) \/ \E i \in Proc : ContinueTask(i, t)
      BY <1>8, <2>3
         DEF UserStep, UserStops, StopRecorded, UserStarts, UserContinues,
             ClearOldProcess, RunRequested, ApprovalRecorded, Halt,
             ContinuationRefused, LaunchContinuation, WatchdogStep,
             WatchdogReads, WatchdogFails, WatchdogStops, WatchdogTells
    <3> QED
      BY <1>1, <1>3, <3>1, <3>2, LivesOn
  <2> QED
    BY <2>1, <2>2, <2>3
<1>9. CASE StopAll \/ StopAllLists \/ StopAllRecorded
  BY <1>3, <1>9 DEF StopAll, StopAllLists, StopAllRecorded, callVars, managerVars
<1>10. CASE CrashAndRecover
  BY <1>10 DEF CrashAndRecover, AskingTraced
<1>11. CASE UNCHANGED vars
  BY <1>3, <1>11 DEF vars, schedulerVars, callVars, managerVars
<1> QED
  BY <1>4, <1>5, <1>6, <1>7, <1>8, <1>9, <1>10, <1>11, <1>12
     DEF Next, SchedulerNext


(* A monitor leaks when a stop cancels it, and that stop kills the process *)
(* before it is over.                                                      *)
LeaksStopped == \A i \in Proc : stage[i] = "leaked" /\ alive[i] => BeingStopped(i)

LEMMA LeaksStoppedNext ==
  ASSUME ManagerInv, LeaksStopped, [ManagerNext]_managerVars
  PROVE  LeaksStopped'
<1> USE DEF LeaksStopped, BeingStopped, ManagerInv, ManagerTypeOK
<1>1. ASSUME NEW i \in Proc, NEW t \in Task, StartTask(i, t) \/ ContinueTask(i, t)
      PROVE  LeaksStopped'
  BY <1>1 DEF StartTask, ContinueTask, Enter, Attach
<1>2. ASSUME NEW t \in Task, StopTask(t)
      PROVE  LeaksStopped'
  <2> DEFINE call1 == [proc |-> processes[t], monitored |-> outputTasks[t] # None]
  <2>1. /\ stopping' = [stopping EXCEPT ![t] = call1]
        /\ stopping[t] = None
        /\ processes[t] \in Proc
        /\ UNCHANGED alive
    BY <1>2 DEF StopTask
  <2>2. stopping'[t] # None /\ stopping'[t].proc = processes[t]
    <3>1. stopping'[t] = call1
      BY <2>1
    <3>2. call1 \in [proc : Proc, monitored : BOOLEAN]
      BY <2>1
    <3>3. call1 # None
      BY <3>2, ManagerAssumption
    <3> QED
      BY <3>1, <3>3
  <2>3. ASSUME NEW i \in Proc, stage'[i] = "leaked", i # processes[t]
        PROVE  stage[i] = "leaked"
    <3>1. outputTasks[t] # None => outputTasks[t] = processes[t]
      BY DEF RegistrySound
    <3> QED
      BY <1>2, <2>3, <3>1 DEF StopTask
  <2>4. ASSUME NEW i \in Proc, BeingStopped(i)
        PROVE  BeingStopped(i)'
    BY <2>1, <2>4
  <2> QED
    BY <2>1, <2>2, <2>3, <2>4
<1>3. ASSUME NEW t \in Task, StopFinishes(t)
      PROVE  LeaksStopped'
  <2>1. stopping[t].proc \in Proc
    BY <1>3 DEF StopFinishes, StopCall
  <2> QED
    BY <1>3, <2>1 DEF StopFinishes
<1>4. ASSUME NEW t \in Task, StartTaskRefused(t) \/ RemoveDeadProcess(t)
      PROVE  LeaksStopped'
  BY <1>4 DEF StartTaskRefused, RemoveDeadProcess
<1>5. ASSUME NEW i \in Proc,
             \/ SlotGranted(i) \/ SlotGrantedStartRaises(i) \/ MonitorStarts(i)
             \/ ProcessExits(i) \/ RunOnComplete(i) \/ MonitorFinishes(i)
             \/ MonitorCancelled(i)
      PROVE  LeaksStopped'
  BY <1>5 DEF SlotGranted, Attach, SlotGrantedStartRaises, MonitorStarts,
     ProcessExits, RunOnComplete, MonitorFinishes, MonitorCancelled,
     MonitorFinally
<1>6. CASE ManagerRestart
  BY <1>6 DEF ManagerRestart
<1>7. CASE UNCHANGED managerVars
  BY <1>7 DEF managerVars
<1> QED
  BY <1>1, <1>2, <1>3, <1>4, <1>5, <1>6, <1>7 DEF ManagerNext

(* The operations that stop a process say so in request until the stop has *)
(* returned.                                                               *)
LEMMA StopsAskedNext ==
  ASSUME ServiceInv, [Next]_vars
  PROVE  StopsAsked'
<1>1. LeaksStopped'
  <2>1. ManagerInv /\ LeaksStopped
    BY DEF ServiceInv, Traced, TypeInv, StopsAsked, LeaksStopped
  <2> QED
    BY <2>1, NextManages, LeaksStoppedNext
<1> DEFINE Asked == \A t \in Task : stopping[t] # None =>
             request[t] \in {"stop", "start", "continue", "halting", "expired"}
<1>2. /\ Asked
      /\ request \in [Task -> Requests]
      /\ stopping \in [Task -> StopCall \cup {None}]
  BY DEF ServiceInv, Traced, TypeInv, RowsTyped, StopsAsked, ManagerInv,
     ManagerTypeOK
<1> SUFFICES Asked'
  BY <1>1 DEF LeaksStopped, StopsAsked
<1>3. ASSUME UNCHANGED <<stopping, request>>
      PROVE  Asked'
  BY <1>2, <1>3
<1>4. ASSUME NEW t \in Task, UserStep(t)
      PROVE  Asked'
  <2>1. CASE UserStops(t)
    BY <1>2, <2>1 DEF UserStops, StopTask
  <2>2. CASE StopReturns(t)
    BY <1>2, <2>2 DEF StopReturns, StopFinishes
  <2>3. CASE StopRecorded(t) \/ RunRequested(t)
    BY <1>2, <2>3 DEF StopRecorded, RunRequested, managerVars
  <2>4. CASE UserStarts(t)
    BY <1>2, <2>4 DEF UserStarts, ClearOldProcess, StopTask, RemoveDeadProcess,
       managerVars
  <2>5. CASE UserContinues(t)
    BY <1>2, <2>5 DEF UserContinues, ClearOldProcess, StopTask,
       RemoveDeadProcess, managerVars
  <2>6. CASE UserApproves(t) \/ ApprovalRecorded(t)
    BY <1>2, <2>6 DEF UserApproves, ApprovalRecorded, Idle, managerVars
  <2>7. CASE Halt(t)
    BY <1>2, <2>7 DEF Halt, StopTask, managerVars
  <2>8. CASE ContinuationRefused(t)
    BY <1>2, <2>8 DEF ContinuationRefused, serviceVars, StartTaskRefused,
       managerVars
  <2>9. ASSUME NEW i \in Proc, LaunchContinuation(i, t)
        PROVE  Asked'
    BY <1>2, <2>9 DEF LaunchContinuation, serviceVars, ContinueTask
  <2> QED
    BY <1>4, <2>1, <2>2, <2>3, <2>4, <2>5, <2>6, <2>7, <2>8, <2>9 DEF UserStep
<1>5. ASSUME NEW t \in Task, WatchdogStep(t)
      PROVE  Asked'
  BY <1>2, <1>5 DEF WatchdogStep, WatchdogReads, WatchdogFails, WatchdogStops, WatchdogTells,
     StopTask, Idle, managerVars
<1>6. ASSUME NEW i \in Proc, ContinuationRecorded(i) \/ MonitorDropped(i)
      PROVE  Asked'
  BY <1>3, <1>6 DEF ContinuationRecorded, MonitorDropped, RunOnComplete,
     MonitorCancelled, serviceVars
<1>7. CASE StopAll
  BY <1>2, <1>7 DEF StopAll, Idle, managerVars
<1>8. CASE StopAllLists \/ StopAllRecorded \/ ResumeStep
  BY <1>3, <1>8 DEF StopAllLists, StopAllRecorded, ResumeStep, ResumePhase, ResumeLoads,
     ResumeResets, managerVars
<1>9. CASE CrashAndRecover
  BY <1>9 DEF CrashAndRecover, ManagerRestart
<1>10. CASE SchedulerNext /\ UNCHANGED serviceVars
  <2>1. ASSUME NEW t \in Task, NEW o \in Origin, CallStep(t, o)
        PROVE  UNCHANGED stopping
    BY <2>1 DEF CallStep, LoadTask, MarkRunning, LaunchTask, LaunchRefused,
       CallFails, StartTask, StartTaskRefused, managerVars
  <2>2. ASSUME NEW i \in Proc, ProcessStep(i)
        PROVE  UNCHANGED stopping
    BY <2>2 DEF ProcessStep, WaiterStarts, StreamStarts, RunExits, RunRecorded,
       RunPublished, SlotGranted, MonitorStarts, ProcessExits, RunOnComplete,
       MonitorFinishes
  <2>3. ASSUME NEW r \in Runner, RunPhase(r) \/ RunnerStep(r)
        PROVE  UNCHANGED stopping
    BY <2>3, RunnerStepManages DEF managerVars
  <2>4. ASSUME Mishap
        PROVE  UNCHANGED stopping
    BY <2>4 DEF Mishap, WaitTimesOut, PhaseErrs, WaiterRejected, ToolCheckpoint,
       CallFaults, SlotGrantedStartRaises, managerVars
  <2>5. UNCHANGED stopping
    BY <1>10, <2>1, <2>2, <2>3, <2>4 DEF SchedulerNext
  <2> QED
    BY <1>3, <1>10, <2>5 DEF serviceVars
<1>11. CASE UNCHANGED vars
  BY <1>3, <1>11 DEF vars, schedulerVars, serviceVars, managerVars
<1> QED
  BY <1>4, <1>5, <1>6, <1>7, <1>8, <1>9, <1>10, <1>11 DEF Next

LEMMA NextServiceInv == ServiceInv /\ [Next]_vars => ServiceInv'
BY NextTyped, RequestsTracedNext, CallsTracedNext, RowsTracedNext,
   AskingTracedNext, StopsAskedNext DEF ServiceInv, Traced

LEMMA InitServiceInv == Init => ServiceInv
<1> SUFFICES ASSUME Init PROVE ServiceInv
  OBVIOUS
<1>1. TypeInv
  BY InitTyped
<1>2. Traced
  BY DEF Init, SchedulerInit, ManagerInit, Traced, RequestsTraced, CallsTraced,
     RowsTraced, AskingTraced, StopsAsked, Origin, NoResume
<1> QED
  BY <1>1, <1>2 DEF ServiceInv
=============================================================================
