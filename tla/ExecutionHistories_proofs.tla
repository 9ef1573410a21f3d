---------------------- MODULE ExecutionHistories_proofs ----------------------
(***************************************************************************)
(* Proofs of the properties of the service that hold in the histories they *)
(* name.  Each has an invariant of its own, and happened, which only       *)
(* grows, carries the condition from the end of a history to its start:    *)
(*                                                                         *)
(*   PhaseInv    a phase left to its runners: who waits in a call is       *)
(*               gathered, who holds a permit is registered                *)
(*   MindedInv   a row says running: somebody is there to rewrite it       *)
(*   HandInv     tasks run by hand: the row, the calls and the processes   *)
(*               of a task agree                                           *)
(*   OrderlyInv  orderly histories: they agree under a runner, which waits *)
(*               for whoever is at work in its wave                        *)
(*   SettledInv  what the checkpoint, the phase, a runner or an exit says  *)
(*               to be over is over                                        *)
(***************************************************************************)
EXTENDS ExecutionService_proofs

(* The invariants of the service that hold in every history.               *)
BaseInv == ServiceInv /\ OneRunner

LEMMA NextBase == BaseInv /\ [Next]_vars => BaseInv'
BY NextServiceInv, NextGuarded
   DEF BaseInv, GuardInv, ServiceInv, TypeInv, RowsTyped

LEMMA InitBase == Init => BaseInv
<1> SUFFICES ASSUME Init PROVE BaseInv
  OBVIOUS
<1>1. pc = [r \in Runner |-> "idle"] /\ ~ executing
  BY DEF Init, SchedulerInit
<1> QED
  BY <1>1, InitServiceInv DEF BaseInv, OneRunner

(* What is excluded from a history stays excluded from its beginning.      *)
LEMMA NeverBefore ==
  ASSUME [Next]_vars, NEW kinds, Never(kinds)'
  PROVE  Never(kinds)
BY HistoryGrows DEF Never
-----------------------------------------------------------------------------
(* A phase that is left to its runners: no user runs its tasks by hand.    *)
ByPhase == Never({"start", "continue"})

(* Whoever waits inside a call is waited for by the runner of its wave.    *)
CallsGathered ==
  \A t \in Task : call[t]["phase"] # "none" =>
    \E r \in Runner : pc[r] = "gather" /\ t \in InWave(r)

(* A process in the queue will find the entry of its task free, and its    *)
(* own closures registered.                                                *)
QueuedSound ==
  \A i \in Proc : stage[i] = "queued" =>
    /\ call[owner[i]]["phase"] = "waiting"
    /\ processes[owner[i]] = None
    /\ callbacks[owner[i]] = i

(* A process with a permit is the registered one of its task.              *)
HoldersRegistered ==
  \A i \in Proc : stage[i] \in Holding => processes[owner[i]] = i

PhaseSound == CallsGathered /\ QueuedSound /\ HoldersRegistered

PhaseInv == ByPhase => PhaseSound

(* Every call is the phase's, and nobody clears or takes over an entry.    *)
LEMMA ByPhaseOnly ==
  ASSUME BaseInv, ByPhase
  PROVE  /\ \A t \in Task : /\ call[t]["user"] = "none"
                            /\ call[t]["continue"] = "none"
                            /\ request[t] \notin {"start", "continue"}
         /\ \A i \in Proc : carrier[i] = "phase"
BY DEF BaseInv, ServiceInv, TypeInv, RowsTyped, Traced, CallsTraced,
   RequestsTraced, ByPhase, Never, Origin

(* Monitors and stops, under unchanged calls.                              *)
LEMMA MonitorKeepsQueue ==
  ASSUME ManagerInv, QueuedSound, HoldersRegistered, UNCHANGED call,
         \/ \E i \in Proc : \/ MonitorStarts(i) \/ ProcessExits(i)
                            \/ RunOnComplete(i) \/ MonitorFinishes(i)
                            \/ MonitorCancelled(i)
         \/ \E t \in Task : StopTask(t) \/ StopFinishes(t)
         \/ UNCHANGED managerVars
  PROVE  QueuedSound' /\ HoldersRegistered'
<1> USE DEF ManagerInv, ManagerTypeOK, QueuedSound, HoldersRegistered, Holding
<1>1. ASSUME NEW i \in Proc, MonitorStarts(i)
      PROVE  QueuedSound' /\ HoldersRegistered'
  BY <1>1 DEF MonitorStarts
<1>2. ASSUME NEW i \in Proc, ProcessExits(i)
      PROVE  QueuedSound' /\ HoldersRegistered'
  BY <1>2 DEF ProcessExits
<1>3. ASSUME NEW i \in Proc, RunOnComplete(i)
      PROVE  QueuedSound' /\ HoldersRegistered'
  BY <1>3 DEF RunOnComplete
<1>4. ASSUME NEW i \in Proc, MonitorFinishes(i) \/ MonitorCancelled(i)
      PROVE  QueuedSound' /\ HoldersRegistered'
  <2>1. /\ stage[i] \in Holding
        /\ stage' = [stage EXCEPT ![i] = "none"]
        /\ processes' = [processes EXCEPT ![owner[i]] = None]
        /\ callbacks' = [callbacks EXCEPT ![owner[i]] = None]
        /\ UNCHANGED owner
    BY <1>4 DEF MonitorFinishes, MonitorCancelled, MonitorFinally
  <2>2. \A j \in Proc : owner[j] = owner[i] /\ j # i =>
          stage[j] # "queued" /\ stage[j] \notin Holding
    BY <2>1, ManagerAssumption
  <2>3. ASSUME NEW j \in Proc, stage'[j] = "queued" \/ stage'[j] \in Holding
        PROVE  /\ stage'[j] = stage[j] /\ owner'[j] = owner[j]
               /\ processes'[owner[j]] = processes[owner[j]]
               /\ callbacks'[owner[j]] = callbacks[owner[j]]
    <3>1. j # i /\ stage[j] = stage'[j]
      BY <2>1, <2>3
    <3>2. owner[j] \in Task /\ owner[j] # owner[i]
      BY <2>2, <2>3, <3>1 DEF LifeSound
    <3> QED
      BY <2>1, <3>1, <3>2
  <2>4. ASSUME NEW j \in Proc, stage'[j] = "queued"
        PROVE  QueuedSound!(j)'
    BY <2>3, <2>4
  <2>5. ASSUME NEW j \in Proc, stage'[j] \in Holding
        PROVE  HoldersRegistered!(j)'
    BY <2>3, <2>5
  <2> QED
    BY <2>4, <2>5
<1>5. ASSUME NEW t \in Task, StopTask(t)
      PROVE  QueuedSound' /\ HoldersRegistered'
  <2>1. /\ UNCHANGED <<owner, processes, callbacks>>
        /\ \/ UNCHANGED stage
           \/ \E s \in {"leaked", "cancelled"} :
                stage' = [stage EXCEPT ![outputTasks[t]] = s]
    BY <1>5 DEF StopTask
  <2>2. outputTasks[t] # None =>
          stage[outputTasks[t]] \in {"fresh", "streaming", "recorded"}
    BY DEF RegistrySound
  <2>3. outputTasks[t] \in Proc \cup {None}
    OBVIOUS
  <2> QED
    BY <2>1, <2>2, <2>3, ManagerAssumption
<1>6. ASSUME NEW t \in Task, StopFinishes(t)
      PROVE  QueuedSound' /\ HoldersRegistered'
  BY <1>6 DEF StopFinishes
<1>7. CASE UNCHANGED managerVars
  BY <1>7 DEF managerVars
<1> QED
  BY <1>1, <1>2, <1>3, <1>4, <1>5, <1>6, <1>7

(* A runner at gather is the only one there, and calls only exist then.    *)
LEMMA NobodyGathers ==
  ASSUME BaseInv, CallsGathered, NEW r \in Runner,
         pc[r] \notin {"idle", "spawned", "gather"}
  PROVE  /\ \A t \in Task : call[t]["phase"] = "none"
         /\ \A q \in Runner : pc[q] # "gather"
BY DEF BaseInv, OneRunner, CallsGathered

(* The calls and processes of a phase left to its runners.                 *)
LEMMA PhaseSoundNext ==
  ASSUME BaseInv, PhaseSound, [Next]_vars, ByPhase'
  PROVE  PhaseSound'
<1> USE DEF PhaseSound
<1>1. /\ ManagerInv /\ ManagerTypeOK
      /\ call \in [Task -> [Origin -> CallStates]]
      /\ carrier \in [Proc -> Origin]
      /\ pc \in [Runner -> RunnerStates]
      /\ wave \in [Runner -> Nat]
      /\ todo \in [Runner -> SUBSET Task]
  BY DEF BaseInv, ServiceInv, TypeInv, RowsTyped, ManagerInv
<1>2. /\ \A t \in Task : /\ call[t]["user"] = "none"
                         /\ call[t]["continue"] = "none"
                         /\ request[t] \notin {"start", "continue"}
      /\ \A i \in Proc : carrier[i] = "phase"
  BY NeverBefore, ByPhaseOnly DEF ByPhase
<1>3. happened' \cap {"start", "continue"} = {}
  BY DEF ByPhase, Never
<1>4. ASSUME UNCHANGED runnerVars,
             \A t \in Task : call'[t]["phase"] # "none" => call[t]["phase"] # "none"
      PROVE  CallsGathered'
  BY <1>4 DEF CallsGathered, InWave, runnerVars
<1>5. ASSUME UNCHANGED <<call, runnerVars>>,
             \/ \E i \in Proc : \/ MonitorStarts(i) \/ ProcessExits(i)
                                \/ RunOnComplete(i) \/ MonitorFinishes(i)
                                \/ MonitorCancelled(i)
             \/ \E t \in Task : StopTask(t) \/ StopFinishes(t)
             \/ UNCHANGED managerVars
      PROVE  PhaseSound'
  BY <1>1, <1>4, <1>5, MonitorKeepsQueue
<1>6. ASSUME NEW t \in Task, NEW o \in Origin, CallStep(t, o)
      PROVE  PhaseSound'
  <2>1. o = "phase"
    BY <1>2, <1>6 DEF CallStep, LoadTask, MarkRunning, LaunchTask,
       LaunchRefused, CallFails, Origin
  <2>2. \A s \in Task : call'[s]["phase"] # "none" => call[s]["phase"] # "none"
    BY <1>1, <1>6, <2>1 DEF CallStep, LoadTask, MarkRunning, LaunchTask,
       LaunchRefused, CallFails, Origin
  <2>3. UNCHANGED runnerVars
    BY <1>6 DEF CallStep, LoadTask, MarkRunning, LaunchTask, LaunchRefused,
       CallFails
  <2>4. QueuedSound' /\ HoldersRegistered'
    <3>1. CASE LoadTask(t, o) \/ MarkRunning(t, o) \/ CallFails(t, o)
      <4>1. /\ UNCHANGED managerVars /\ call[t]["phase"] # "waiting"
            /\ \E s : call' = [call EXCEPT ![t]["phase"] = s]
        BY <2>1, <3>1 DEF LoadTask, MarkRunning, CallFails
      <4> QED
        BY <1>1, <4>1 DEF QueuedSound, HoldersRegistered, managerVars, Origin
    <3>2. ASSUME NEW i \in Proc, LaunchTask(i, t, o)
          PROVE  QueuedSound' /\ HoldersRegistered'
      <4>1. /\ call[t]["phase"] = "ready" /\ processes[t] = None
            /\ stage[i] = "none"
            /\ owner' = [owner EXCEPT ![i] = t]
            /\ callbacks' = [callbacks EXCEPT ![t] = i]
        BY <2>1, <3>2 DEF LaunchTask, StartTask, Enter, Unused
      <4>2. \A j \in Proc : stage[j] = "queued" \/ stage[j] \in Holding =>
              j # i /\ owner[j] # t /\ owner[j] \in Task
        BY <1>1, <4>1, ManagerAssumption
           DEF QueuedSound, HoldersRegistered, ManagerInv, LifeSound, Holding
      <4>3. CASE SlotFree
        <5>1. /\ stage' = [stage EXCEPT ![i] = "fresh"]
              /\ processes' = [processes EXCEPT ![t] = i]
              /\ call' = [call EXCEPT ![t]["phase"] = "none"]
          BY <2>1, <3>2, <4>3 DEF LaunchTask, StartTask, Enter, Attach
        <5> QED
          BY <1>1, <4>1, <4>2, <5>1
             DEF QueuedSound, HoldersRegistered, ManagerTypeOK, Origin, Holding
      <4>4. CASE ~ SlotFree
        <5>1. /\ stage' = [stage EXCEPT ![i] = "queued"]
              /\ processes' = processes
              /\ call' = [call EXCEPT ![t]["phase"] = "waiting"]
          BY <2>1, <3>2, <4>4 DEF LaunchTask, StartTask, Enter
        <5> QED
          BY <1>1, <4>1, <4>2, <5>1
             DEF QueuedSound, HoldersRegistered, ManagerTypeOK, Origin, Holding
      <4> QED
        BY <4>3, <4>4
    <3>3. CASE LaunchRefused(t, o)
      <4>1. /\ call[t]["phase"] = "ready"
            /\ call' = [call EXCEPT ![t]["phase"] = "rejected"]
            /\ callbacks' = [callbacks EXCEPT ![t] = None]
            /\ UNCHANGED <<stage, owner, processes>>
        BY <2>1, <3>3 DEF LaunchRefused, StartTaskRefused
      <4>2. \A j \in Proc : stage[j] = "queued" => owner[j] \in Task /\ owner[j] # t
        BY <1>1, <4>1 DEF QueuedSound, ManagerInv, LifeSound
      <4> QED
        BY <1>1, <4>1, <4>2
           DEF QueuedSound, HoldersRegistered, ManagerTypeOK, Origin
    <3> QED
      BY <1>6, <3>1, <3>2, <3>3 DEF CallStep
  <2> QED
    BY <1>4, <2>2, <2>3, <2>4
<1>7. ASSUME NEW i \in Proc,
             \/ WaiterStarts(i) \/ WaiterRejected(i)
      PROVE  PhaseSound'
  <2>1. /\ stage[i] = "queued" /\ owner[i] \in Task
        /\ UNCHANGED runnerVars
        /\ \E s \in {"none", "rejected"} :
             call' = [call EXCEPT ![owner[i]]["phase"] = s]
    BY <1>1, <1>2, <1>7
       DEF WaiterStarts, WaiterRejected, SlotGranted, SlotGrantedStartRaises,
           ManagerInv, LifeSound
  <2>2. /\ call[owner[i]]["phase"] = "waiting"
        /\ \A j \in Proc : j # i /\ owner[j] = owner[i] =>
              stage[j] # "queued" /\ stage[j] \notin Holding
    BY <2>1, ManagerAssumption DEF QueuedSound, HoldersRegistered
  <2>3. CallsGathered'
    BY <1>1, <1>4, <2>1, <2>2 DEF Origin
  <2>4. ASSUME NEW j \in Proc, j # i, stage[j] = "queued" \/ stage[j] \in Holding
        PROVE  owner[j] \in Task /\ owner[j] # owner[i]
    BY <1>1, <2>2, <2>4 DEF ManagerInv, LifeSound, Holding
  <2>5. CASE WaiterStarts(i)
    <3>1. /\ stage' = [stage EXCEPT ![i] = "fresh"]
          /\ processes' = [processes EXCEPT ![owner[i]] = i]
          /\ UNCHANGED <<owner, callbacks>>
      BY <2>5 DEF WaiterStarts, SlotGranted, Attach
    <3> QED
      BY <1>1, <2>1, <2>3, <2>4, <3>1
         DEF QueuedSound, HoldersRegistered, ManagerTypeOK, Origin, Holding
  <2>6. CASE WaiterRejected(i)
    <3>1. /\ stage' = [stage EXCEPT ![i] = "none"]
          /\ owner' = [owner EXCEPT ![i] = None]
          /\ callbacks' = [callbacks EXCEPT ![owner[i]] = None]
          /\ UNCHANGED processes
      BY <2>6 DEF WaiterRejected, SlotGrantedStartRaises
    <3> QED
      BY <1>1, <2>1, <2>3, <2>4, <3>1
         DEF QueuedSound, HoldersRegistered, ManagerTypeOK, Origin, Holding
  <2> QED
    BY <1>7, <2>5, <2>6
<1>8. ASSUME NEW i \in Proc,
             ProcessStep(i) \/ ContinuationRecorded(i) \/ MonitorDropped(i)
      PROVE  PhaseSound'
  <2>1. CASE ~ WaiterStarts(i)
    <3>1. /\ UNCHANGED <<call, runnerVars>>
          /\ \/ MonitorStarts(i) \/ ProcessExits(i) \/ RunOnComplete(i)
             \/ MonitorFinishes(i) \/ MonitorCancelled(i)
      BY <1>8, <2>1
         DEF ProcessStep, StreamStarts, RunExits, RunRecorded, RunPublished,
             ContinuationRecorded, MonitorDropped, UnchangedButManager, callVars
    <3> QED
      BY <1>5, <3>1
  <2> QED
    BY <1>7, <2>1
<1>9. ASSUME NEW r \in Runner, RunPhase(r) \/ RunnerStep(r) \/ ResumeResets(r)
      PROVE  PhaseSound'
  <2>1. UNCHANGED managerVars
    BY <1>9, RunnerStepManages DEF ResumeResets
  <2>2. CASE StartWave(r)
    <3>1. /\ pc[r] = "ready" /\ pc' = [pc EXCEPT ![r] = "gather"]
          /\ \E w : /\ wave' = [wave EXCEPT ![r] = w]
                    /\ \A t \in Task : call'[t]["phase"] # call[t]["phase"]
                                       => t \in Ahead(r) /\ Wave[t] = w
          /\ todo' = [todo EXCEPT ![r] = Ahead(r)]
      BY <2>2 DEF StartWave, Goto
    <3>2. \A t \in Task : call[t]["phase"] = "none"
      BY <3>1, NobodyGathers
    <3>3. CallsGathered'
      BY <1>1, <3>1, <3>2 DEF CallsGathered, InWave
    <3>4. \A i \in Proc : stage[i] # "queued"
      BY <1>1, <3>2 DEF QueuedSound, ManagerInv, LifeSound
    <3> QED
      BY <2>1, <3>3, <3>4 DEF QueuedSound, HoldersRegistered, managerVars
  <2>3. CASE Subscribe(r)
    <3>1. /\ pc[r] = "gather" /\ UNCHANGED <<call, wave, todo>>
          /\ \A t \in InWave(r) : call[t]["phase"] = "none"
      BY <2>3 DEF Subscribe, callVars
    <3>2. \A t \in Task : call[t]["phase"] = "none"
      BY <3>1 DEF CallsGathered, BaseInv, OneRunner
    <3> QED
      BY <2>1, <3>1, <3>2
         DEF CallsGathered, QueuedSound, HoldersRegistered, managerVars
  <2>4. CASE ~ StartWave(r) /\ ~ Subscribe(r)
    <3>1. /\ UNCHANGED call /\ pc[r] # "gather"
          /\ \A q \in Runner : q # r =>
               /\ pc'[q] = pc[q] /\ wave'[q] = wave[q] /\ todo'[q] = todo[q]
      <4>1. UNCHANGED call /\ pc[r] # "gather"
        BY <1>9, <2>4
           DEF RunPhase, ResumeResets, RunnerStep, EnterPhase, LoadPhase,
               DrainQueues, PollRows, CheckpointWave, AbortWaves, FinalizePhase,
               LeavePhase, AbortTask, callVars
      <4>2. /\ \/ UNCHANGED pc \/ \E s : pc' = [pc EXCEPT ![r] = s]
            /\ \/ UNCHANGED wave \/ \E w : wave' = [wave EXCEPT ![r] = w]
            /\ \/ UNCHANGED todo \/ \E S : todo' = [todo EXCEPT ![r] = S]
        BY <1>9, <2>4
           DEF RunPhase, ResumeResets, RunnerStep, EnterPhase, LoadPhase,
               DrainQueues, PollRows, CheckpointWave, AbortWaves, FinalizePhase,
               LeavePhase, AbortTask, Goto
      <4> QED
        BY <1>1, <4>1, <4>2
    <3> QED
      BY <2>1, <3>1
         DEF CallsGathered, InWave, QueuedSound, HoldersRegistered, managerVars
  <2> QED
    BY <2>2, <2>3, <2>4
<1>10. CASE Mishap
  <2>1. ASSUME NEW r \in Runner, WaitTimesOut(r) \/ PhaseErrs(r)
        PROVE  PhaseSound'
    <3>1. /\ UNCHANGED <<call, wave, managerVars>> /\ pc[r] # "gather"
          /\ \E s : pc' = [pc EXCEPT ![r] = s]
          /\ \/ UNCHANGED todo \/ \E S : todo' = [todo EXCEPT ![r] = S]
      BY <2>1 DEF WaitTimesOut, PhaseErrs, callVars, Goto
    <3> QED
      BY <1>1, <3>1
         DEF CallsGathered, InWave, QueuedSound, HoldersRegistered, managerVars
  <2>2. ASSUME NEW i \in Proc, ToolCheckpoint(i)
        PROVE  PhaseSound'
    BY <1>5, <2>2 DEF ToolCheckpoint, callVars
  <2>3. ASSUME NEW t \in Task, CallFaults(t)
        PROVE  PhaseSound'
    <3>1. /\ UNCHANGED <<runnerVars, managerVars>>
          /\ call[t]["phase"] \in {"spawned", "loaded"}
          /\ call' = [call EXCEPT ![t]["phase"] = "faulted"]
      BY <2>3 DEF CallFaults
    <3>2. CallsGathered'
      BY <1>1, <1>4, <3>1 DEF Origin
    <3> QED
      BY <1>1, <3>1, <3>2
         DEF QueuedSound, HoldersRegistered, managerVars, Origin
  <2> QED
    BY <1>7, <1>10, <2>1, <2>2, <2>3 DEF Mishap
<1>11. ASSUME NEW t \in Task, UserStep(t) \/ WatchdogStep(t)
       PROVE  PhaseSound'
  <2>1. /\ ~ UserStarts(t) /\ ~ UserContinues(t) /\ ~ RunRequested(t)
        /\ ~ ContinuationRefused(t)
        /\ \A i \in Proc : ~ LaunchContinuation(i, t)
    BY <1>2, <1>3 DEF UserStarts, UserContinues, RunRequested,
       ContinuationRefused, LaunchContinuation, Happens
  <2>2. /\ UNCHANGED <<call, runnerVars>>
        /\ UNCHANGED managerVars \/ StopTask(t) \/ StopFinishes(t)
    BY <1>11, <2>1
       DEF UserStep, UserStops, StopReturns, StopRecorded, UserApproves,
           ApprovalRecorded, Halt, UnchangedButManager, callVars, WatchdogStep,
           WatchdogReads, WatchdogFails, WatchdogStops, WatchdogTells
  <2> QED
    BY <1>5, <2>2
<1>12. CASE \/ StopAll \/ StopAllLists \/ StopAllRecorded
            \/ ResumePhase \/ ResumeLoads
  BY <1>5, <1>12 DEF StopAll, StopAllLists, StopAllRecorded, ResumePhase,
     ResumeLoads, callVars
<1>13. CASE CrashAndRecover
  BY <1>13 DEF CrashAndRecover, ManagerRestart, CallsGathered, QueuedSound,
     HoldersRegistered, Origin, Holding
<1>14. CASE UNCHANGED vars
  BY <1>5, <1>14 DEF vars, schedulerVars, callVars
<1> QED
  BY <1>6, <1>8, <1>9, <1>10, <1>11, <1>12, <1>13, <1>14
     DEF Next, SchedulerNext, ResumeStep

LEMMA NextPhaseInv == BaseInv /\ PhaseInv /\ [Next]_vars => PhaseInv'
BY NeverBefore, PhaseSoundNext DEF PhaseInv, ByPhase

LEMMA InitPhaseInv == Init => PhaseInv
BY DEF Init, SchedulerInit, ManagerInit, PhaseInv, PhaseSound, CallsGathered,
   QueuedSound, HoldersRegistered, Holding, Origin

(* A process that lives and is not being stopped holds its permit.         *)
LEMMA LivesHolding ==
  ASSUME ManagerInv, NEW i \in Proc, alive[i], ~ BeingStopped(i)
  PROVE  stage[i] \in Holding /\ owner[i] \in Task
BY DEF ManagerInv, LifeSound, CutOff, BeingStopped, Holding

(* In a phase run by its runners no task has two processes.                *)
LEMMA PhaseRunsSingle ==
  ASSUME BaseInv, PhaseInv, ByPhase
  PROVE  \A i, j \in Proc :
           alive[i] /\ alive[j] /\ owner[i] = owner[j] /\ i # j
           => BeingStopped(i) \/ BeingStopped(j)
BY LivesHolding
   DEF BaseInv, ServiceInv, TypeInv, PhaseInv, PhaseSound, HoldersRegistered
-----------------------------------------------------------------------------
(* Rows that say running, in a phase that is left to its runners and the   *)
(* watchdog has not touched.  A task that may ask for a permission is left *)
(* out: the answer rewrites its row whatever has become of the process.    *)
Tame(t) == Never({"permission"}) \/ t \notin Interactive

(* The monitor will run the registered on_complete. *)
Working(i) == stage[i] \in {"fresh", "streaming"}

(* A stop_all in flight will list the row, or has listed it.               *)
AllStops(t) == stoppingAll /\ (listed = {} \/ t \in listed)

(* Unless a call is at work on it, the callbacks of a running task are     *)
(* those of its own process; and there is one, or else the task is being   *)
(* stopped, and the handler will write the row.                            *)
RowMinded(t) ==
  status[t] = "running" /\ Tame(t) /\ call[t]["phase"] = "none" =>
    /\ \A i \in Proc : owner[i] = t /\ Working(i) => callbacks[t] = i
    /\ \/ request[t] # "none" \/ AllStops(t)
       \/ \E i \in Proc : owner[i] = t /\ Working(i)

RowsMinded == \A t \in Task : RowMinded(t)

MindedInv == ByPhase /\ Never({"watchdog"}) => RowsMinded

(* What leaves the processes of a task alone, and does not make its row    *)
(* say running with no call at work, keeps the row minded.                 *)
LEMMA RowKept ==
  ASSUME NEW t \in Task, RowMinded(t), [Next]_vars,
         \A i \in Proc :
           owner'[i] = t /\ Working(i)' <=> owner[i] = t /\ Working(i),
         callbacks'[t] = callbacks[t],
         status'[t] = "running" /\ call'[t]["phase"] = "none" =>
           status[t] = "running" /\ call[t]["phase"] = "none",
         request[t] # "none" \/ AllStops(t) => request'[t] # "none" \/ AllStops(t)'
  PROVE  RowMinded(t)'
<1>1. Tame(t)' => Tame(t)
  BY HistoryGrows DEF Tame, Never
<1> QED
  BY <1>1 DEF RowMinded

LEMMA RowsMindedNext ==
  ASSUME BaseInv, PhaseSound, RowsMinded, [Next]_vars, ByPhase',
         Never({"watchdog"})'
  PROVE  RowsMinded'
<1>1. /\ ManagerInv /\ ManagerTypeOK
      /\ call \in [Task -> [Origin -> CallStates]]
      /\ status \in [Task -> Statuses]
      /\ request \in [Task -> Requests]
      /\ carrier \in [Proc -> Origin]
  BY DEF BaseInv, ServiceInv, TypeInv, RowsTyped, ManagerInv
<1>2. /\ \A t \in Task : /\ call[t]["user"] = "none"
                         /\ call[t]["continue"] = "none"
                         /\ request[t] \notin {"start", "continue"}
      /\ \A i \in Proc : carrier[i] = "phase"
  BY NeverBefore, ByPhaseOnly DEF ByPhase
<1>3. happened' \cap {"start", "continue", "watchdog"} = {}
  BY DEF ByPhase, Never
<1>4. \A t \in Task : RowMinded(t)
  BY DEF RowsMinded
<1>5. \A i, j \in Proc :
        stage[i] \in Holding /\ stage[j] \in Holding /\ owner[i] = owner[j] => i = j
  BY DEF PhaseSound, HoldersRegistered
<1>6. ASSUME UNCHANGED <<managerVars, request, stoppingAll, listed>>,
             \A t \in Task : status'[t] = "running" /\ call'[t]["phase"] = "none" =>
               status[t] = "running" /\ call[t]["phase"] = "none"
      PROVE  RowsMinded'
  BY <1>4, <1>6, RowKept DEF RowsMinded, managerVars, AllStops, Working
<1>7. ASSUME NEW t \in Task, NEW o \in Origin, CallStep(t, o),
             UNCHANGED <<request, stoppingAll, listed>>
      PROVE  RowsMinded'
  <2>1. o = "phase"
    BY <1>2, <1>7 DEF CallStep, LoadTask, MarkRunning, LaunchTask,
       LaunchRefused, CallFails, Origin
  <2>2. CASE LoadTask(t, o) \/ MarkRunning(t, o) \/ CallFails(t, o)
    BY <1>1, <1>6, <1>7, <2>1, <2>2
       DEF LoadTask, MarkRunning, CallFails, MarkTaskFailed, Origin, dbVars
  <2>3. ASSUME NEW i \in Proc, LaunchTask(i, t, o)
        PROVE  RowsMinded'
    <3>1. /\ UNCHANGED status /\ processes[t] = None /\ stage[i] = "none"
          /\ owner' = [owner EXCEPT ![i] = t]
          /\ callbacks' = [callbacks EXCEPT ![t] = i]
          /\ \E s \in {"fresh", "queued"}, c \in {"none", "waiting"} :
               /\ stage' = [stage EXCEPT ![i] = s]
               /\ call' = [call EXCEPT ![t]["phase"] = c]
               /\ s = "queued" => c = "waiting"
      BY <2>1, <2>3 DEF LaunchTask, StartTask, Enter, Unused, dbVars
    <3>2. ASSUME NEW u \in Task, u # t
          PROVE  RowMinded(u)'
      BY <1>1, <1>4, <1>7, <3>1, <3>2, RowKept
         DEF AllStops, serviceVars, jobVars, Working, ManagerTypeOK, Origin
    <3>3. \A j \in Proc : owner[j] = t => ~ Working(j)
      BY <3>1, ManagerAssumption DEF PhaseSound, HoldersRegistered, Holding, Working
    <3>4. RowMinded(t)'
      BY <1>1, <3>1, <3>3 DEF RowMinded, Working, ManagerTypeOK, Origin
    <3> QED
      BY <3>2, <3>4 DEF RowsMinded
  <2>4. CASE LaunchRefused(t, o)
    <3>1. /\ UNCHANGED <<stage, owner, status>>
          /\ callbacks' = [callbacks EXCEPT ![t] = None]
          /\ call' = [call EXCEPT ![t]["phase"] = "rejected"]
      BY <2>1, <2>4 DEF LaunchRefused, StartTaskRefused, dbVars
    <3>2. ASSUME NEW u \in Task, u # t
          PROVE  RowMinded(u)'
      BY <1>1, <1>4, <1>7, <3>1, <3>2, RowKept DEF AllStops, serviceVars, jobVars, Working
    <3>3. RowMinded(t)'
      BY <1>1, <3>1 DEF RowMinded, Origin
    <3> QED
      BY <3>2, <3>3 DEF RowsMinded
  <2> QED
    BY <1>7, <2>2, <2>3, <2>4 DEF CallStep
<1>8. ASSUME NEW i \in Proc, UNCHANGED <<request, stoppingAll, listed>>,
             \/ WaiterStarts(i) \/ WaiterRejected(i)
      PROVE  RowsMinded'
  <2>1. PICK t \in Task : t = owner[i]
    BY <1>1, <1>8 DEF WaiterStarts, WaiterRejected, SlotGranted,
       SlotGrantedStartRaises, ManagerInv, LifeSound
  <2>2. /\ stage[i] = "queued" /\ callbacks[t] = i
        /\ UNCHANGED status
        /\ \A j \in Proc : owner[j] = t => stage[j] \notin Holding
    BY <1>8, <2>1, ManagerAssumption
       DEF WaiterStarts, WaiterRejected, SlotGranted, SlotGrantedStartRaises,
           PhaseSound, QueuedSound, HoldersRegistered, dbVars
  <2>3. \/ /\ stage' = [stage EXCEPT ![i] = "fresh"]
           /\ UNCHANGED <<owner, callbacks>>
           /\ call' = [call EXCEPT ![t]["phase"] = "none"]
        \/ /\ stage' = [stage EXCEPT ![i] = "none"]
           /\ owner' = [owner EXCEPT ![i] = None]
           /\ callbacks' = [callbacks EXCEPT ![t] = None]
           /\ call' = [call EXCEPT ![t]["phase"] = "rejected"]
    BY <1>2, <1>8, <2>1
       DEF WaiterStarts, WaiterRejected, SlotGranted, SlotGrantedStartRaises
  <2>4. ASSUME NEW u \in Task, u # t
        PROVE  RowMinded(u)'
    BY <1>1, <1>4, <1>8, <2>1, <2>2, <2>3, <2>4, RowKept, ManagerAssumption
       DEF AllStops, serviceVars, jobVars, Working, ManagerTypeOK, Origin
  <2>5. RowMinded(t)'
    <3>1. CASE call' = [call EXCEPT ![t]["phase"] = "rejected"]
      <4>1. call'[t]["phase"] = "rejected"
        BY <1>1, <3>1 DEF Origin
      <4> QED
        BY <4>1 DEF RowMinded
    <3>2. CASE /\ stage' = [stage EXCEPT ![i] = "fresh"]
               /\ UNCHANGED <<owner, callbacks>>
      <4>1. \A j \in Proc : owner'[j] = t /\ Working(j)' => j = i
        BY <1>1, <2>2, <3>2 DEF Working, Holding, ManagerTypeOK
      <4>2. Working(i)' /\ owner'[i] = t /\ callbacks'[t] = i
        BY <1>1, <2>1, <2>2, <3>2 DEF Working, ManagerTypeOK
      <4> QED
        BY <4>1, <4>2 DEF RowMinded
    <3> QED
      BY <2>3, <3>1, <3>2
  <2> QED
    BY <2>4, <2>5 DEF RowsMinded
<1>9. ASSUME NEW i \in Proc, UNCHANGED <<request, stoppingAll, listed>>,
             \/ MonitorFinishes(i) /\ UNCHANGED <<status, call>>
             \/ MonitorDropped(i)
      PROVE  RowsMinded'
  <2>1. PICK t \in Task : t = owner[i]
    BY <1>1, <1>9 DEF MonitorFinishes, MonitorDropped, MonitorCancelled,
       ManagerInv, LifeSound
  <2>2. /\ stage[i] \in {"recorded", "cancelled"}
        /\ stage' = [stage EXCEPT ![i] = "none"]
        /\ callbacks' = [callbacks EXCEPT ![t] = None]
        /\ UNCHANGED <<owner, status, call>>
    BY <1>9, <2>1 DEF MonitorFinishes, MonitorDropped, MonitorCancelled,
       MonitorFinally, UnchangedButManager, dbVars, callVars
  <2>3. ASSUME NEW u \in Task, u # t
        PROVE  RowMinded(u)'
    BY <1>1, <1>4, <1>9, <2>1, <2>2, <2>3, RowKept
       DEF AllStops, serviceVars, jobVars, Working, ManagerTypeOK
  <2>4. \A j \in Proc : owner[j] = t => ~ Working(j) /\ ~ Working(j)'
    BY <1>1, <1>5, <2>1, <2>2 DEF Working, Holding, ManagerTypeOK
  <2>5. RowMinded(t)'
    <3>1. Tame(t)' => Tame(t)
      BY HistoryGrows DEF Tame, Never
    <3> QED
      BY <1>4, <1>9, <2>2, <2>4, <3>1 DEF RowMinded, AllStops, serviceVars, jobVars
  <2> QED
    BY <2>3, <2>5 DEF RowsMinded
<1>10. ASSUME NEW i \in Proc, UNCHANGED <<request, stoppingAll, listed>>,
              ProcessStep(i) \/ ContinuationRecorded(i) \/ MonitorDropped(i)
       PROVE  RowsMinded'
  <2>1. CASE StreamStarts(i) \/ RunExits(i)
    <3>1. /\ UNCHANGED <<owner, callbacks, status, call>>
          /\ \A j \in Proc : Working(j)' <=> Working(j)
      BY <1>1, <2>1 DEF StreamStarts, RunExits, MonitorStarts, ProcessExits,
         Working, ManagerTypeOK, dbVars, callVars
    <3> QED
      BY <1>4, <1>10, <3>1, RowKept DEF RowsMinded, AllStops, serviceVars, jobVars
  <2>2. CASE RunRecorded(i) \/ ContinuationRecorded(i)
    <3>1. PICK t \in Task : t = owner[i]
      BY <1>1, <2>2 DEF RunRecorded, ContinuationRecorded, RunOnComplete,
         ManagerInv, LifeSound
    <3>2. /\ stage[i] = "streaming" /\ stage' = [stage EXCEPT ![i] = "recorded"]
          /\ UNCHANGED <<owner, callbacks, call>>
      BY <2>2 DEF RunRecorded, ContinuationRecorded, RunOnComplete, callVars
    <3>3. ASSUME NEW u \in Task, u # t
          PROVE  status'[u] = status[u]
      BY <1>1, <2>2, <3>1, <3>3
         DEF RunRecorded, RecordExit, RecordFinal, ContinuationRecorded, dbVars
    <3>4. ASSUME NEW u \in Task, u # t
          PROVE  RowMinded(u)'
      BY <1>1, <1>4, <1>10, <3>1, <3>2, <3>3, <3>4, RowKept
         DEF AllStops, serviceVars, jobVars, Working, ManagerTypeOK
    <3>5. RowMinded(t)'
      <4>1. \A j \in Proc : owner[j] = t => ~ Working(j)'
        BY <1>1, <1>5, <3>1, <3>2 DEF Working, Holding, ManagerTypeOK
      <4>2. Tame(t)' => Tame(t)
        BY HistoryGrows DEF Tame, Never
      <4>3. callbacks[t] = i => status'[t] # "running"
        <5>1. callbacks[t] = i =>
                ~ ContinuationRecorded(i) /\ RunRecorded(i) /\ RecordExit(i, t)
          BY <1>2, <2>2, <3>1, <3>2, ManagerAssumption
             DEF RunRecorded, ContinuationRecorded
        <5> QED
          BY <1>1, <5>1 DEF RecordExit, RecordFinal
      <4>4. status'[t] = "running" => status[t] = "running"
        BY <1>1, <2>2, <3>1
           DEF RunRecorded, RecordExit, RecordFinal, ContinuationRecorded, dbVars
      <4> QED
        BY <1>4, <1>10, <3>1, <3>2, <4>1, <4>2, <4>3, <4>4
           DEF RowMinded, AllStops, serviceVars, jobVars, Working
    <3> QED
      BY <3>4, <3>5 DEF RowsMinded
  <2>3. CASE RunPublished(i)
    BY <1>9, <1>10, <2>3 DEF RunPublished, dbVars, callVars
  <2> QED
    BY <1>8, <1>9, <1>10, <2>1, <2>2, <2>3 DEF ProcessStep
<1>11. ASSUME NEW r \in Runner, RunPhase(r) \/ RunnerStep(r) \/ ResumeResets(r),
              UNCHANGED <<request, stoppingAll, listed>>
       PROVE  RowsMinded'
  <2>1. UNCHANGED managerVars
    BY <1>11, RunnerStepManages DEF ResumeResets
  <2>2. \A t \in Task : status'[t] = "running" => status[t] = "running"
    BY <1>1, <1>11 DEF RunPhase, ResumeResets, RunnerStep, EnterPhase, LoadPhase,
       StartWave, Subscribe, DrainQueues, PollRows, CheckpointWave, AbortWaves,
       FinalizePhase, LeavePhase, AbortTask, MarkTaskFailed, dbVars
  <2>3. \A t \in Task : call'[t]["phase"] = "none" => call[t]["phase"] = "none"
    <3>1. CASE StartWave(r)
      <4>1. call' = [t \in Task |-> IF t \in Ahead(r) /\ Wave[t] = Min({Wave[u] : u \in Ahead(r)})
                                   THEN [call[t] EXCEPT !["phase"] = "spawned"]
                                   ELSE call[t]]
        BY <3>1 DEF StartWave
      <4> QED
        BY <1>1, <4>1 DEF Origin
    <3>2. CASE UNCHANGED call
      BY <3>2
    <3> QED
      BY <1>11, <3>1, <3>2 DEF RunPhase, ResumeResets, RunnerStep, EnterPhase,
         LoadPhase, Subscribe, DrainQueues, PollRows, CheckpointWave,
         AbortWaves, FinalizePhase, LeavePhase, AbortTask, callVars
  <2> QED
    BY <1>6, <1>11, <2>1, <2>2, <2>3
<1>12. ASSUME Mishap, UNCHANGED <<request, stoppingAll, listed>>
       PROVE  RowsMinded'
  <2>1. CASE \/ \E r \in Runner : WaitTimesOut(r) \/ PhaseErrs(r)
             \/ \E t \in Task : CallFaults(t)
    <3>1. UNCHANGED managerVars
      BY <2>1 DEF WaitTimesOut, PhaseErrs, CallFaults
    <3>2. \A t \in Task : status'[t] = "running" => status[t] = "running"
      BY <1>1, <2>1 DEF WaitTimesOut, PhaseErrs, CallFaults, dbVars
    <3>3. \A t \in Task : call'[t]["phase"] = "none" => call[t]["phase"] = "none"
      BY <1>1, <2>1 DEF WaitTimesOut, PhaseErrs, CallFaults, callVars, Origin
    <3> QED
      BY <1>6, <1>12, <3>1, <3>2, <3>3
  <2>2. ASSUME NEW i \in Proc, ToolCheckpoint(i)
        PROVE  RowsMinded'
    <3>1. UNCHANGED <<managerVars, call>>
      BY <2>2 DEF ToolCheckpoint
    <3>2. \A t \in Task : status'[t] = "running" => status[t] = "running"
      BY <1>1, <2>2 DEF ToolCheckpoint
    <3> QED
      BY <1>6, <1>12, <3>1, <3>2
  <2> QED
    BY <1>8, <1>12, <2>1, <2>2 DEF Mishap
<1>13. ASSUME NEW t \in Task, UserStep(t)
       PROVE  RowsMinded'
  <2>1. /\ ~ UserStarts(t) /\ ~ UserContinues(t) /\ ~ RunRequested(t)
        /\ ~ ContinuationRefused(t)
        /\ \A i \in Proc : ~ LaunchContinuation(i, t)
    BY <1>2, <1>3 DEF UserStarts, UserContinues, RunRequested,
       ContinuationRefused, LaunchContinuation, Happens
  <2>2. CASE UserStops(t) \/ Halt(t)
    <3>1. /\ UNCHANGED <<owner, callbacks, status, call, stoppingAll, listed>>
          /\ \/ StopTask(t) /\ request'[t] # "none"
             \/ UNCHANGED stage /\ stoppingAll /\ listed = {}
          /\ \E s : request' = [request EXCEPT ![t] = s]
      <4>1. request[t] = "halt" => stoppingAll /\ listed = {}
        BY DEF BaseInv, ServiceInv, Traced, RequestsTraced
      <4> QED
        BY <1>1, <2>2, <4>1 DEF UserStops, Halt, StopTask, UnchangedButManager,
           dbVars, callVars, managerVars, jobVars
    <3>2. ASSUME NEW j \in Proc, owner[j] # t
          PROVE  stage'[j] = stage[j]
      <4>1. outputTasks[t] # None => owner[outputTasks[t]] = t
        BY <1>1 DEF ManagerInv, RegistrySound
      <4> QED
        BY <1>1, <3>1, <3>2, <4>1 DEF StopTask, ManagerTypeOK
    <3>3. ASSUME NEW u \in Task, u # t
          PROVE  RowMinded(u)'
      BY <1>1, <1>4, <3>1, <3>2, <3>3, RowKept DEF Working, AllStops
    <3>4. RowMinded(t)'
      <4>1. \A j \in Proc : Working(j)' => Working(j)
        BY <1>1, <3>1 DEF Working, StopTask, ManagerTypeOK
      <4>2. Tame(t)' => Tame(t)
        BY HistoryGrows DEF Tame, Never
      <4> QED
        BY <1>4, <3>1, <4>1, <4>2 DEF RowMinded, AllStops
    <3> QED
      BY <3>3, <3>4 DEF RowsMinded
  <2>3. CASE StopReturns(t)
    <3>1. /\ UNCHANGED <<stage, owner, callbacks, status, call, stoppingAll, listed>>
          /\ stopping[t] # None
          /\ request' = [request EXCEPT ![t] = IF @ = "halting" THEN "none" ELSE @]
      BY <2>3 DEF StopReturns, StopFinishes, dbVars, jobVars
    <3>2. request[t] = "halting" => stoppingAll /\ listed = {}
      BY DEF BaseInv, ServiceInv, Traced, RequestsTraced
    <3> QED
      BY <1>1, <1>4, <3>1, <3>2, RowKept DEF RowsMinded, Working, AllStops
  <2>4. CASE StopRecorded(t) \/ ApprovalRecorded(t)
    <3>1. /\ UNCHANGED <<managerVars, call, stoppingAll, listed, happened>>
          /\ request' = [request EXCEPT ![t] = "none"]
          /\ \A u \in Task : u # t => status'[u] = status[u]
      BY <1>1, <2>4 DEF StopRecorded, ApprovalRecorded, callVars, jobVars
    <3>2. ASSUME NEW u \in Task, u # t
          PROVE  RowMinded(u)'
      BY <1>1, <1>4, <3>1, <3>2, RowKept DEF managerVars, Working, AllStops
    <3>3. status'[t] = "cancelled" \/ ~ Tame(t)'
      BY <1>1, <2>4, <3>1
         DEF StopRecorded, ApprovalRecorded, Tame, Never, BaseInv, ServiceInv,
             Traced, RequestsTraced
    <3> QED
      BY <3>2, <3>3 DEF RowsMinded, RowMinded
  <2>5. CASE UserApproves(t)
    <3>1. /\ UNCHANGED <<managerVars, status, call, stoppingAll, listed>>
          /\ request' = [request EXCEPT ![t] = "approve"]
      BY <2>5 DEF UserApproves, dbVars, jobVars
    <3> QED
      BY <1>1, <1>4, <3>1, RowKept DEF RowsMinded, managerVars, Working, AllStops
  <2> QED
    BY <1>13, <2>1, <2>2, <2>3, <2>4, <2>5 DEF UserStep
<1>14. ASSUME NEW t \in Task, WatchdogStep(t)
       PROVE  FALSE
  <2>1. request[t] \notin {"suspect", "expire", "expired"}
    BY <1>3, HistoryGrows DEF BaseInv, ServiceInv, Traced, RequestsTraced
  <2> QED
    BY <1>3, <1>14, <2>1 DEF WatchdogStep, WatchdogReads, WatchdogFails, WatchdogStops,
       WatchdogTells, Happens
<1>15. CASE StopAll
  <2>1. stoppingAll' /\ listed' = listed /\ ~ stoppingAll /\ listed = {}
    BY <1>15, HistoryGrows DEF StopAll, Never, BaseInv, ServiceInv, Traced, RequestsTraced
  <2> QED
    BY <1>1, <1>4, <1>15, <2>1, RowKept
       DEF StopAll, RowsMinded, managerVars, dbVars, callVars, Working, AllStops
<1>16. CASE StopAllRecorded
  <2>1. /\ UNCHANGED <<managerVars, call, request>>
        /\ listed # {}
        /\ \A t \in Task : status'[t] = "running" =>
              status[t] = "running" /\ (t \notin listed \/ Running(t))
    BY <1>1, <1>16 DEF StopAllRecorded, callVars
  <2>2. ASSUME NEW t \in Task, Running(t), request[t] = "none"
        PROVE  \E i \in Proc : owner[i] = t /\ Working(i)
    <3>1. PICK i \in Proc : i = processes[t] /\ alive[i] /\ owner[i] = t
      BY <1>1, <2>2 DEF Running, ManagerInv, ManagerTypeOK, RegistrySound
    <3>2. stopping[t] = None
      BY <2>2 DEF BaseInv, ServiceInv, Traced, StopsAsked
    <3>3. ~ BeingStopped(i)
      BY <1>1, <3>1, <3>2 DEF BeingStopped, ManagerInv, StopSound
    <3>4. stage[i] \notin {"leaked", "cancelled", "recorded", "none", "queued"}
      BY <1>1, <3>1, <3>2, <3>3
         DEF BaseInv, ServiceInv, Traced, StopsAsked, ManagerInv, LifeSound,
             CutOff, Holding
    <3>5. stage[i] \in Stages
      BY <1>1 DEF ManagerTypeOK
    <3> QED
      BY <3>1, <3>4, <3>5 DEF Stages, Working
  <2>3. \A t \in Task : Tame(t)' => Tame(t)
    BY HistoryGrows DEF Tame, Never
  <2>4. ASSUME NEW t \in Task
        PROVE  RowMinded(t)'
    BY <1>4, <2>1, <2>2, <2>3 DEF RowMinded, managerVars, Working, AllStops
  <2> QED
    BY <2>4 DEF RowsMinded
<1>17. CASE CrashAndRecover
  BY <1>17 DEF CrashAndRecover, Recovered, RowsMinded, RowMinded
<1>18. CASE UNCHANGED vars
  BY <1>6, <1>18 DEF vars, schedulerVars, serviceVars, jobVars, dbVars, callVars
<1>19. ASSUME NEW i \in Proc, ContinuationRecorded(i) \/ MonitorDropped(i)
       PROVE  UNCHANGED <<request, stoppingAll, listed>>
  BY <1>19 DEF ContinuationRecorded, MonitorDropped, serviceVars, jobVars
<1>20. ASSUME NEW r \in Runner, ResumeResets(r)
       PROVE  UNCHANGED <<request, stoppingAll, listed>>
  BY <1>20 DEF ResumeResets
<1>21. CASE ResumePhase \/ ResumeLoads
  BY <1>6, <1>21 DEF ResumePhase, ResumeLoads, dbVars, callVars
<1>22. CASE StopAllLists
  <2>1. UNCHANGED <<managerVars, status, call, request>>
    BY <1>22 DEF StopAllLists, dbVars, callVars
  <2>2. \A t \in Task : status[t] = "running" => AllStops(t)'
    BY <1>22 DEF StopAllLists, AllStops
  <2>3. \A t \in Task : Tame(t)' => Tame(t)
    BY HistoryGrows DEF Tame, Never
  <2> QED
    BY <1>4, <2>1, <2>2, <2>3 DEF RowsMinded, RowMinded, managerVars, Working
<1>23. UNCHANGED serviceVars => UNCHANGED <<request, stoppingAll, listed>>
  BY DEF serviceVars, jobVars
<1> QED
  BY <1>7, <1>10, <1>11, <1>12, <1>13, <1>14, <1>15, <1>16, <1>17, <1>18,
     <1>19, <1>20, <1>21, <1>22, <1>23 DEF Next, SchedulerNext, ResumeStep

LEMMA NextMindedInv ==
  BaseInv /\ PhaseInv /\ MindedInv /\ [Next]_vars => MindedInv'
<1> SUFFICES ASSUME BaseInv, PhaseInv, MindedInv, [Next]_vars, ByPhase',
                    Never({"watchdog"})'
             PROVE  RowsMinded'
  BY DEF MindedInv
<1>1. ByPhase /\ Never({"watchdog"})
  BY NeverBefore DEF ByPhase
<1> QED
  BY <1>1, RowsMindedNext DEF PhaseInv, MindedInv

LEMMA InitMindedInv == Init => MindedInv
BY DEF Init, SchedulerInit, MindedInv, RowsMinded, RowMinded

(* No row says running for ever: some coroutine of the phase, a handler or *)
(* a monitor is still there to rewrite it, unless users run tasks by hand, *)
(* answer permission requests, or the watchdog steps in.                   *)
THEOREM RunningAttended == Spec => []NobodyForgotten
<1>1. BaseInv /\ MindedInv => NobodyForgotten
  <2> SUFFICES ASSUME BaseInv, MindedInv,
                      Never({"permission", "start", "continue", "watchdog"}),
                      NEW t \in Task, status[t] = "running"
               PROVE  Attended(t)
    BY DEF NobodyForgotten
  <2>1. ByPhase /\ Never({"watchdog"}) /\ Tame(t)
    BY DEF ByPhase, Never, Tame
  <2>2. RowMinded(t)
    BY <2>1 DEF MindedInv, RowsMinded
  <2> QED
    BY <2>1, <2>2 DEF RowMinded, AllStops, Attended, Working, Origin
<1> QED
  BY <1>1, InitBase, NextBase, InitPhaseInv, NextPhaseInv, InitMindedInv,
     NextMindedInv, PTL DEF Spec
-----------------------------------------------------------------------------
(* Tasks that are run by hand only.  The row alone decides whether         *)
(* start_task and continue_task go ahead, so it must not say that a task   *)
(* is over while a call or a process is at work on it.                     *)
ByHand == Never({"phase", "resume", "permission", "watchdog"})

(* Waiting for a slot or at work. *)
Engaged(i) == stage[i] \in {"queued", "fresh", "streaming"}

(* Nobody is at work on a task. *)
Free(t) == /\ \A o \in Origin : call[t][o] = "none"
           /\ \A i \in Proc : owner[i] = t => ~ Engaged(i)

HandSound(t) ==
  /\ call[t]["phase"] = "none"
  /\ call[t]["user"] # "none" => call[t]["continue"] = "none"
  /\ request[t] \in {"start", "continue", "stop"} => Free(t)
  /\ status[t] \notin {"running", "cancelled"} => Free(t)
  /\ status[t] = "cancelled" /\ Never({"stop_all"}) => Free(t)
  /\ \A i \in Proc : owner[i] = t /\ Engaged(i) =>
       \A o \in Origin : call[t][o] = IF stage[i] = "queued" /\ o = carrier[i]
                                      THEN "waiting" ELSE "none"
  /\ \A i, j \in Proc : /\ owner[i] = t /\ Engaged(i)
                        /\ owner[j] = t /\ Engaged(j)
                        => i = j

HandInv == ByHand => \A t \in Task : HandSound(t)

LEMMA HandKept ==
  ASSUME NEW t \in Task, HandSound(t), [Next]_vars,
         call'[t] = call[t],
         \A i \in Proc : owner'[i] = t /\ Engaged(i)' =>
           /\ owner[i] = t /\ Engaged(i) /\ carrier'[i] = carrier[i]
           /\ stage'[i] = "queued" <=> stage[i] = "queued",
         status'[t] \in {status[t], "running"} \/ Free(t)',
         \/ request'[t] \in {request[t], "none", "halt", "halting"}
         \/ Free(t)'
  PROVE  HandSound(t)'
<1>1. Never({"stop_all"})' => Never({"stop_all"})
  BY NeverBefore
<1>2. Free(t) => Free(t)'
  BY DEF Free
<1> QED
  BY <1>1, <1>2 DEF HandSound

(* A process that lives, and that nobody is stopping, is at work.          *)
LEMMA LivesWorking ==
  ASSUME ServiceInv, NEW i \in Proc, alive[i], ~ BeingStopped(i)
  PROVE  Working(i) /\ owner[i] \in Task
<1>1. stage[i] \in Holding /\ owner[i] \in Task
  BY LivesHolding DEF ServiceInv, TypeInv
<1>2. stage[i] # "leaked"
  BY DEF ServiceInv, Traced, StopsAsked
<1>3. stage[i] \notin {"recorded", "cancelled"}
  BY DEF ServiceInv, TypeInv, ManagerInv, LifeSound, CutOff, BeingStopped
<1> QED
  BY <1>1, <1>2, <1>3 DEF Holding, Working

(* So does the registered process of a task that is idle and runs.         *)
LEMMA RunningWorks ==
  ASSUME ServiceInv, NEW t \in Task, Running(t), stopping[t] = None
  PROVE  /\ processes[t] \in Proc /\ owner[processes[t]] = t
         /\ Working(processes[t])
<1>1. processes[t] \in Proc /\ owner[processes[t]] = t /\ alive[processes[t]]
  BY DEF ServiceInv, TypeInv, ManagerInv, ManagerTypeOK, RegistrySound, Running
<1>2. ~ BeingStopped(processes[t])
  BY <1>1 DEF ServiceInv, TypeInv, ManagerInv, StopSound, BeingStopped
<1> QED
  BY <1>1, <1>2, LivesWorking

(* What StopTask does to the processes of a task.                          *)
LEMMA StopDisengages ==
  ASSUME ManagerInv, NEW t \in Task, StopTask(t)
  PROVE  /\ UNCHANGED <<owner, processes, callbacks, alive>>
         /\ processes[t] \in Proc /\ ~ Engaged(processes[t])'
         /\ \A i \in Proc : i # processes[t] => stage'[i] = stage[i]
<1>1. /\ UNCHANGED <<owner, processes, callbacks, alive>>
      /\ processes[t] \in Proc
  BY DEF StopTask, ManagerInv, ManagerTypeOK
<1>2. CASE outputTasks[t] = None
  BY <1>1, <1>2 DEF StopTask, ManagerInv, RegistrySound, Engaged
<1>3. CASE outputTasks[t] # None
  <2>1. outputTasks[t] = processes[t]
    BY <1>3 DEF ManagerInv, RegistrySound
  <2>2. \E s \in {"leaked", "cancelled"} :
          stage' = [stage EXCEPT ![processes[t]] = s]
    BY <1>3, <2>1 DEF StopTask
  <2> QED
    BY <1>1, <2>2 DEF ManagerInv, ManagerTypeOK, Engaged
<1> QED
  BY <1>2, <1>3

(* What a step at one task leaves alone: the others.                       *)
LEMMA OthersHandSound ==
  ASSUME [Next]_vars, NEW t \in Task,
         \A u \in Task \ {t} : /\ HandSound(u)
                               /\ call'[u] = call[u]
                               /\ status'[u] = status[u]
                               /\ request'[u] = request[u],
         \A i \in Proc : \/ stage'[i] = "none"
                         \/ owner'[i] = t
                         \/ /\ owner'[i] = owner[i]
                            /\ stage'[i] = stage[i]
                            /\ carrier'[i] = carrier[i]
  PROVE  \A u \in Task \ {t} : HandSound(u)'
<1> SUFFICES ASSUME NEW u \in Task \ {t} PROVE HandSound(u)'
  OBVIOUS
<1>1. \A i \in Proc : owner'[i] = u /\ Engaged(i)' =>
         /\ owner[i] = u /\ Engaged(i) /\ carrier'[i] = carrier[i]
         /\ stage'[i] = "queued" <=> stage[i] = "queued"
  BY DEF Engaged
<1> QED
  BY <1>1, HandKept

(* A launch hands the task over from the call to the process.              *)
LEMMA HandLaunched ==
  ASSUME BaseInv, \A u \in Task : HandSound(u), [Next]_vars,
         NEW i \in Proc, NEW t \in Task, NEW o \in Origin \ {"phase"},
         NEW s \in {"fresh", "queued"},
         call[t][o] = "ready", stage[i] = "none",
         owner' = [owner EXCEPT ![i] = t],
         stage' = [stage EXCEPT ![i] = s],
         carrier' = [carrier EXCEPT ![i] = o],
         call' = [call EXCEPT ![t][o] = IF s = "queued" THEN "waiting" ELSE "none"],
         UNCHANGED <<status, request>>
  PROVE  \A u \in Task : HandSound(u)'
<1>1. /\ ManagerTypeOK
      /\ call \in [Task -> [Origin -> CallStates]]
      /\ carrier \in [Proc -> Origin]
  BY DEF BaseInv, ServiceInv, TypeInv, RowsTyped, ManagerInv
<1>2. \A u \in Task \ {t} : HandSound(u)'
  BY <1>1, OthersHandSound DEF ManagerTypeOK
<1>3. \A j \in Proc : owner[j] = t => ~ Engaged(j)
  BY DEF HandSound
<1>4. \A j \in Proc : owner'[j] = t /\ Engaged(j)' => j = i
  BY <1>1, <1>3 DEF Engaged, ManagerTypeOK
<1>5. stage'[i] = s /\ carrier'[i] = o /\ call'[t][o] = IF s = "queued" THEN "waiting" ELSE "none"
  BY <1>1 DEF ManagerTypeOK
<1>6. /\ \A p \in Origin \ {o} : call'[t][p] = "none"
  BY <1>1 DEF HandSound, Origin
<1>7. /\ status[t] \in {"running", "cancelled"}
      /\ request[t] \notin {"start", "continue", "stop"}
      /\ status[t] = "cancelled" => ~ Never({"stop_all"})
  BY DEF HandSound, Free
<1>8. Never({"stop_all"})' => Never({"stop_all"})
  BY NeverBefore
<1>9. HandSound(t)'
  BY <1>4, <1>5, <1>6, <1>7, <1>8 DEF HandSound, Origin
<1> QED
  BY <1>2, <1>9

LEMMA HandSoundNext ==
  ASSUME BaseInv, \A t \in Task : HandSound(t), [Next]_vars, ByHand'
  PROVE  \A t \in Task : HandSound(t)'
<1>1. /\ ServiceInv /\ ManagerInv /\ ManagerTypeOK
      /\ call \in [Task -> [Origin -> CallStates]]
      /\ status \in [Task -> Statuses]
      /\ request \in [Task -> Requests]
      /\ carrier \in [Proc -> Origin]
      /\ pc \in [Runner -> RunnerStates]
  BY DEF BaseInv, ServiceInv, TypeInv, RowsTyped, ManagerInv
<1>2. /\ happened' \cap {"phase", "resume", "permission", "watchdog"} = {}
      /\ happened \cap {"phase", "resume", "permission", "watchdog"} = {}
  BY HistoryGrows DEF ByHand, Never
<1>3. /\ \A r \in Runner : pc[r] = "idle"
      /\ \A t \in Task : request[t] \notin {"approve", "suspect", "expire", "expired"}
      /\ \A i \in Proc : ~ asking[i]
      /\ resume.stage = "none"
  BY <1>1, <1>2 DEF ServiceInv, Traced, CallsTraced, RequestsTraced, AskingTraced
<1>4. \A t \in Task : HandSound(t)
  OBVIOUS
<1>5. ASSUME UNCHANGED <<stage, owner, carrier, call>>,
             \A t \in Task : /\ status'[t] = status[t] \/ Free(t)
                             /\ request'[t] \in {request[t], "none", "halt", "halting"}
      PROVE  \A t \in Task : HandSound(t)'
  <2> SUFFICES ASSUME NEW t \in Task PROVE HandSound(t)'
    OBVIOUS
  <2>1. Free(t) => Free(t)'
    BY <1>5 DEF Free, Engaged
  <2>2. \A i \in Proc : owner'[i] = t /\ Engaged(i)' =>
           /\ owner[i] = t /\ Engaged(i) /\ carrier'[i] = carrier[i]
           /\ stage'[i] = "queued" <=> stage[i] = "queued"
    BY <1>5 DEF Engaged
  <2> QED
    BY <1>5, <2>1, <2>2, HandKept
<1>6. ASSUME NEW t \in Task,
             \A u \in Task \ {t} : /\ call'[u] = call[u]
                                   /\ status'[u] = status[u]
                                   /\ request'[u] = request[u],
             \A i \in Proc : \/ stage'[i] = "none"
                             \/ owner'[i] = t
                             \/ /\ owner'[i] = owner[i]
                                /\ stage'[i] = stage[i]
                                /\ carrier'[i] = carrier[i]
      PROVE  \A u \in Task \ {t} : HandSound(u)'
  BY <1>6, OthersHandSound
<1>7. ASSUME NEW t \in Task, NEW o \in Origin, CallStep(t, o),
             UNCHANGED <<request, stoppingAll, listed>>
      PROVE  \A u \in Task : HandSound(u)'
  <2>1. call[t][o] # "none" /\ o # "phase"
    BY <1>7 DEF CallStep, LoadTask, MarkRunning, LaunchTask, LaunchRefused,
       CallFails, HandSound
  <2>2. CASE LaunchRefused(t, o)
    <3>1. /\ UNCHANGED <<stage, owner, carrier, status, request>>
          /\ call[t][o] = "ready" /\ call' = [call EXCEPT ![t][o] = "rejected"]
      BY <1>7, <2>2 DEF LaunchRefused, StartTaskRefused, serviceVars, jobVars, dbVars
    <3>2. \A p \in Origin : p # o => call[t][p] = "none"
      BY <1>1, <1>4, <2>1, <3>1 DEF HandSound, Origin
    <3>3. Never({"stop_all"})' => Never({"stop_all"})
      BY NeverBefore
    <3> QED
      BY <1>1, <1>4, <2>1, <3>1, <3>2, <3>3 DEF HandSound, Free, Engaged, Origin
  <2>3. CASE LoadTask(t, o) \/ MarkRunning(t, o) \/ CallFails(t, o)
    <3>1. /\ UNCHANGED <<stage, owner, carrier, request>>
          /\ call[t][o] # "waiting"
          /\ \E s : call' = [call EXCEPT ![t][o] = s]
          /\ \A u \in Task \ {t} : status'[u] = status[u]
      BY <1>1, <1>7, <2>3 DEF LoadTask, MarkRunning, CallFails, MarkTaskFailed,
         managerVars, serviceVars, jobVars, dbVars
    <3>2. \A u \in Task \ {t} : HandSound(u)'
      <4>1. \A u \in Task \ {t} : call'[u] = call[u]
        BY <1>1, <3>1
      <4> QED
        BY <1>6, <3>1, <4>1
    <3>3. \A i \in Proc : owner[i] = t => ~ Engaged(i)
      BY <2>1, <3>1 DEF HandSound
    <3>4. \A p \in Origin \ {o} : call[t][p] = "none"
      BY <1>1, <2>1 DEF HandSound, Origin
    <3>5. CASE CallFails(t, o)
      <4>1. Free(t)'
        BY <1>1, <3>1, <3>3, <3>4, <3>5 DEF CallFails, Free, Engaged
      <4> QED
        BY <3>2, <4>1 DEF HandSound, Free, Origin
    <3>6. CASE LoadTask(t, o) \/ MarkRunning(t, o)
      <4>1. /\ status[t] \in {"running", "cancelled"}
            /\ request[t] \notin {"start", "continue", "stop"}
            /\ status[t] = "cancelled" => ~ Never({"stop_all"})
        BY <2>1 DEF HandSound, Free
      <4>2. /\ status'[t] = status[t] \/ status'[t] = "running"
        BY <1>1, <3>6 DEF LoadTask, MarkRunning, dbVars
      <4>3. Never({"stop_all"})' => Never({"stop_all"})
        BY NeverBefore
      <4>4. \A p \in Origin \ {o} : call'[t][p] = "none"
        BY <1>1, <3>1, <3>4
      <4>5. \A i \in Proc : owner'[i] = t => ~ Engaged(i)'
        BY <3>1, <3>3 DEF Engaged
      <4> QED
        BY <2>1, <3>1, <3>2, <4>1, <4>2, <4>3, <4>4, <4>5 DEF HandSound, Origin
    <3> QED
      BY <2>3, <3>5, <3>6
  <2>4. ASSUME NEW i \in Proc, LaunchTask(i, t, o)
        PROVE  \A u \in Task : HandSound(u)'
    <3>1. PICK s \in {"fresh", "queued"} :
            /\ call[t][o] = "ready" /\ stage[i] = "none"
            /\ owner' = [owner EXCEPT ![i] = t]
            /\ stage' = [stage EXCEPT ![i] = s]
            /\ carrier' = [carrier EXCEPT ![i] = o]
            /\ call' = [call EXCEPT ![t][o] = IF s = "queued" THEN "waiting" ELSE "none"]
            /\ UNCHANGED <<status, request>>
      <4>1. CASE SlotFree
        BY <1>7, <2>4, <4>1
           DEF LaunchTask, StartTask, Enter, Unused, dbVars, serviceVars, jobVars
      <4>2. CASE ~ SlotFree
        BY <1>7, <2>4, <4>2
           DEF LaunchTask, StartTask, Enter, Unused, dbVars, serviceVars, jobVars
      <4> QED
        BY <4>1, <4>2
    <3> QED
      BY <1>4, <2>1, <3>1, HandLaunched
  <2> QED
    BY <1>7, <2>2, <2>3, <2>4 DEF CallStep
(* The step of a process that is or was at work on t. *)
<1>8. ASSUME NEW i \in Proc, UNCHANGED <<request, stoppingAll, listed>>,
             WaiterStarts(i) \/ WaiterRejected(i)
      PROVE  \A u \in Task : HandSound(u)'
  <2>1. PICK t \in Task, o \in Origin \ {"phase"} :
          /\ t = owner[i] /\ o = carrier[i] /\ stage[i] = "queued"
          /\ call[t][o] = "waiting"
    <3>1. owner[i] \in Task /\ stage[i] = "queued" /\ carrier[i] \in Origin
      BY <1>1, <1>8 DEF WaiterStarts, WaiterRejected, SlotGranted,
         SlotGrantedStartRaises, ManagerInv, LifeSound
    <3>2. call[owner[i]][carrier[i]] = "waiting"
      BY <3>1 DEF HandSound, Engaged
    <3>3. carrier[i] # "phase"
      BY <3>1, <3>2 DEF HandSound
    <3> QED
      BY <3>1, <3>2, <3>3
  <2>2. \/ /\ stage' = [stage EXCEPT ![i] = "fresh"]
           /\ owner' = owner
           /\ call' = [call EXCEPT ![t][o] = "none"]
        \/ /\ stage' = [stage EXCEPT ![i] = "none"]
           /\ owner' = [owner EXCEPT ![i] = None]
           /\ call' = [call EXCEPT ![t][o] = "rejected"]
    BY <1>8, <2>1
       DEF WaiterStarts, WaiterRejected, SlotGranted, SlotGrantedStartRaises
  <2>3. UNCHANGED <<status, request, carrier>>
    BY <1>8 DEF WaiterStarts, WaiterRejected, serviceVars, jobVars, dbVars
  <2>4. \A u \in Task \ {t} : HandSound(u)'
    <3>1. \A u \in Task \ {t} : call'[u] = call[u]
      BY <1>1, <2>2
    <3>2. \A j \in Proc : \/ stage'[j] = "none"
                          \/ owner'[j] = t
                          \/ /\ owner'[j] = owner[j]
                             /\ stage'[j] = stage[j]
      BY <1>1, <2>1, <2>2 DEF ManagerTypeOK
    <3> QED
      BY <1>4, <2>3, <3>1, <3>2, OthersHandSound
  <2>5. \A j \in Proc : owner[j] = t /\ Engaged(j) => j = i
    BY <1>4, <2>1 DEF HandSound, Engaged
  <2>6. /\ status[t] \in {"running", "cancelled"}
        /\ request[t] \notin {"start", "continue", "stop"}
        /\ status[t] = "cancelled" => ~ Never({"stop_all"})
    BY <1>4, <2>1 DEF HandSound, Free
  <2>7. Never({"stop_all"})' => Never({"stop_all"})
    BY NeverBefore
  <2>8. \A p \in Origin \ {o} : call'[t][p] = "none"
    <3>1. \A p \in Origin \ {o} : call[t][p] = "none"
      BY <1>4, <2>1 DEF HandSound, Engaged
    <3> QED
      BY <1>1, <2>2, <3>1
  <2>9. HandSound(t)'
    <3>1. CASE /\ stage' = [stage EXCEPT ![i] = "fresh"]
               /\ owner' = owner
               /\ call' = [call EXCEPT ![t][o] = "none"]
      <4>1. \A p \in Origin : call'[t][p] = "none"
        BY <1>1, <2>8, <3>1
      <4>2. \A j \in Proc : owner'[j] = t /\ Engaged(j)' => j = i
        BY <1>1, <2>1, <2>5, <3>1 DEF Engaged, ManagerTypeOK
      <4>3. stage'[i] = "fresh"
        BY <1>1, <3>1 DEF ManagerTypeOK
      <4> QED
        BY <2>3, <2>6, <2>7, <4>1, <4>2, <4>3 DEF HandSound, Origin
    <3>2. CASE /\ stage' = [stage EXCEPT ![i] = "none"]
               /\ owner' = [owner EXCEPT ![i] = None]
      <4>1. \A j \in Proc : owner'[j] = t => ~ Engaged(j)'
        BY <1>1, <2>1, <2>5, <3>2, ManagerAssumption DEF Engaged, ManagerTypeOK
      <4> QED
        BY <2>1, <2>3, <2>6, <2>7, <2>8, <4>1 DEF HandSound, Origin
    <3> QED
      BY <2>2, <3>1, <3>2
  <2> QED
    BY <2>4, <2>9
<1>9. ASSUME NEW i \in Proc, UNCHANGED <<request, stoppingAll, listed>>,
             ProcessStep(i) \/ ContinuationRecorded(i) \/ MonitorDropped(i)
      PROVE  \A u \in Task : HandSound(u)'
  <2>1. CASE WaiterStarts(i)
    BY <1>8, <1>9, <2>1
  <2>2. CASE StreamStarts(i) \/ RunExits(i)
    <3>1. /\ UNCHANGED <<owner, status, call, carrier>>
          /\ \A j \in Proc : /\ Engaged(j)' <=> Engaged(j)
                             /\ stage'[j] = "queued" <=> stage[j] = "queued"
      BY <1>1, <2>2 DEF StreamStarts, RunExits, MonitorStarts, ProcessExits,
         Engaged, ManagerTypeOK, dbVars, callVars
    <3> QED
      BY <1>4, <1>9, <3>1, HandKept DEF serviceVars, jobVars
  <2>3. CASE \/ RunRecorded(i) \/ ContinuationRecorded(i)
             \/ RunPublished(i) \/ MonitorDropped(i)
    <3>1. PICK t \in Task : t = owner[i]
      BY <1>1, <2>3 DEF RunRecorded, ContinuationRecorded, RunPublished,
         MonitorDropped, RunOnComplete, MonitorFinishes, MonitorCancelled,
         ManagerInv, LifeSound
    <3>2. /\ \/ stage[i] = "streaming"
             \/ stage[i] \in {"recorded", "cancelled"} /\ UNCHANGED status
          /\ \E s \in {"recorded", "none"} : stage' = [stage EXCEPT ![i] = s]
          /\ UNCHANGED <<owner, call, carrier>>
      BY <2>3 DEF RunRecorded, ContinuationRecorded, RunPublished,
         MonitorDropped, RunOnComplete, MonitorFinishes, MonitorCancelled,
         MonitorFinally, UnchangedButManager, callVars, dbVars
    <3>3. \A u \in Task \ {t} : status'[u] = status[u]
      BY <1>1, <2>3, <3>1 DEF RunRecorded, ContinuationRecorded, RunPublished,
         MonitorDropped, RecordExit, RecordFinal, UnchangedButManager, dbVars
    <3>4. ASSUME NEW u \in Task, NEW j \in Proc, owner'[j] = u, Engaged(j)'
          PROVE  /\ owner[j] = u /\ Engaged(j) /\ j # i
                 /\ stage'[j] = "queued" <=> stage[j] = "queued"
      BY <1>1, <3>2, <3>4 DEF Engaged, ManagerTypeOK
    <3>5. \/ status'[t] = status[t] \/ Free(t)'
      <4>1. CASE stage[i] = "streaming"
        <5>1. \A o \in Origin : call[t][o] = "none"
          BY <1>4, <3>1, <4>1 DEF HandSound, Engaged
        <5>2. \A j \in Proc : owner'[j] = t => ~ Engaged(j)'
          BY <1>4, <3>1, <3>4, <4>1 DEF HandSound, Engaged
        <5> QED
          BY <3>2, <5>1, <5>2 DEF Free
      <4> QED
        BY <3>2, <4>1
    <3>6. ASSUME NEW u \in Task
          PROVE  HandSound(u)'
      <4>1. status'[u] = status[u] \/ Free(u)'
        BY <3>3, <3>5
      <4> QED
        BY <1>4, <1>9, <3>2, <3>4, <4>1, HandKept DEF serviceVars, jobVars
    <3> QED
      BY <3>6
  <2> QED
    BY <1>9, <2>1, <2>2, <2>3 DEF ProcessStep
(* No runner runs. *)
<1>10. ASSUME NEW r \in Runner, RunPhase(r) \/ RunnerStep(r) \/ ResumeResets(r)
       PROVE  FALSE
  BY <1>2, <1>3, <1>10 DEF RunPhase, ResumeResets, RunnerStep, EnterPhase,
     LoadPhase, StartWave, Subscribe, DrainQueues, PollRows, CheckpointWave,
     AbortWaves, FinalizePhase, LeavePhase, AbortTask, Happens
<1>11. ASSUME Mishap, UNCHANGED <<request, stoppingAll, listed>>
       PROVE  \A u \in Task : HandSound(u)'
  <2>1. ~ \E r \in Runner : WaitTimesOut(r) \/ PhaseErrs(r)
    BY <1>3 DEF WaitTimesOut, PhaseErrs
  <2>2. ~ \E i \in Proc : ToolCheckpoint(i)
    BY <1>2 DEF ToolCheckpoint, Happens
  <2>3. ~ \E t \in Task : CallFaults(t)
    BY <1>4 DEF CallFaults, HandSound
  <2> QED
    BY <1>8, <1>11, <2>1, <2>2, <2>3 DEF Mishap
(* The user. *)
<1>12. ASSUME NEW t \in Task, UserStep(t)
       PROVE  \A u \in Task : HandSound(u)'
  <2>1. CASE UserStops(t) \/ UserStarts(t) \/ UserContinues(t)
    <3>1. /\ UNCHANGED <<owner, carrier, call, status>>
          /\ request[t] = "none" /\ stopping[t] = None
          /\ \E s : request' = [request EXCEPT ![t] = s]
      BY <2>1 DEF UserStops, UserStarts, UserContinues, Idle, ClearOldProcess,
         StopTask, RemoveDeadProcess, UnchangedButManager, dbVars, callVars,
         managerVars
    <3>2. UNCHANGED stage \/ StopTask(t)
      BY <2>1 DEF UserStops, UserStarts, UserContinues, ClearOldProcess,
         RemoveDeadProcess, managerVars
    <3>3. \A j \in Proc : Engaged(j)' => stage'[j] = stage[j]
      BY <1>1, <3>2, StopDisengages DEF Engaged
    <3>4. \A j \in Proc : \/ owner'[j] = t \/ stage'[j] = stage[j]
      <4>1. StopTask(t) => owner[processes[t]] = t
        BY <1>1 DEF StopTask, ManagerInv, RegistrySound
      <4> QED
        BY <1>1, <3>1, <3>2, <4>1, StopDisengages
    <3>5. \A u \in Task \ {t} : HandSound(u)'
      BY <1>1, <1>6, <3>1, <3>4
    <3>6. Free(t)'
      <4>1. CASE UserStops(t)
        <5>1. /\ processes[t] \in Proc /\ owner[processes[t]] = t
              /\ Working(processes[t])
          BY <1>1, <3>1, <4>1, RunningWorks DEF UserStops
        <5>2. /\ \A o \in Origin : call[t][o] = "none"
              /\ \A j \in Proc : owner[j] = t /\ Engaged(j) => j = processes[t]
          BY <1>4, <5>1 DEF HandSound, Working, Engaged
        <5>3. processes' = processes /\ ~ Engaged(processes[t])'
          BY <1>1, <4>1, StopDisengages DEF UserStops
        <5> QED
          BY <3>1, <3>3, <5>2, <5>3 DEF Free, Engaged
      <4>2. CASE UserStarts(t) \/ UserContinues(t)
        <5>1. status[t] \notin {"running", "cancelled"}
          BY <4>2 DEF UserStarts, UserContinues
        <5>2. Free(t)
          BY <1>4, <5>1 DEF HandSound
        <5> QED
          BY <3>1, <3>3, <5>2 DEF Free, Engaged
      <4> QED
        BY <2>1, <4>1, <4>2
    <3>7. HandSound(t)'
      BY <3>6 DEF HandSound, Free, Origin
    <3> QED
      BY <3>5, <3>7
  <2>2. CASE StopReturns(t) \/ StopRecorded(t)
    <3>1. /\ UNCHANGED <<stage, owner, carrier, call>>
          /\ \A u \in Task : request'[u] \in {request[u], "none"}
      BY <1>1, <2>2 DEF StopReturns, StopRecorded, StopFinishes, managerVars,
         callVars
    <3>2. \A u \in Task : status'[u] = status[u] \/ Free(u)
      <4>1. CASE StopReturns(t)
        BY <4>1 DEF StopReturns, dbVars
      <4>2. CASE StopRecorded(t)
        BY <1>1, <1>4, <4>2 DEF StopRecorded, HandSound
      <4> QED
        BY <2>2, <4>1, <4>2
    <3> QED
      BY <1>5, <3>1, <3>2
  <2>3. CASE RunRequested(t)
    <3>1. /\ request[t] \in {"start", "continue"}
          /\ request' = [request EXCEPT ![t] = "none"]
          /\ status' = [status EXCEPT ![t] = "running"]
          /\ \E o \in {"user", "continue"}, s \in {"spawned", "ready"} :
               call' = [call EXCEPT ![t][o] = s]
          /\ UNCHANGED <<stage, owner, carrier>>
      BY <2>3 DEF RunRequested, managerVars
    <3>2. Free(t)
      BY <1>4, <3>1 DEF HandSound
    <3>3. \A u \in Task \ {t} : HandSound(u)'
      <4>1. \A u \in Task \ {t} : /\ call'[u] = call[u] /\ status'[u] = status[u]
                                   /\ request'[u] = request[u]
        BY <1>1, <3>1
      <4> QED
        BY <1>6, <3>1, <4>1
    <3>4. \A j \in Proc : owner'[j] = t => ~ Engaged(j)'
      BY <3>1, <3>2 DEF Free, Engaged
    <3>5. HandSound(t)'
      <4>1. status'[t] = "running" /\ request'[t] = "none"
        BY <1>1, <3>1
      <4>2. PICK o \in {"user", "continue"} :
              \A p \in Origin \ {o} : call'[t][p] = "none"
        BY <1>1, <3>1, <3>2 DEF Free, Origin
      <4> QED
        BY <3>4, <4>1, <4>2 DEF HandSound, Origin
    <3> QED
      BY <3>3, <3>5
  <2>4. CASE Halt(t)
    <3>1. /\ UNCHANGED <<owner, carrier, call, status>>
          /\ UNCHANGED stage \/ StopTask(t)
          /\ \A u \in Task : request'[u] \in {request[u], "none", "halting"}
      BY <1>1, <2>4 DEF Halt, StopTask, UnchangedButManager, dbVars, callVars,
         managerVars
    <3>2. \A j \in Proc : Engaged(j)' => stage'[j] = stage[j]
      BY <1>1, <3>1, StopDisengages DEF Engaged
    <3>3. ASSUME NEW u \in Task
          PROVE  HandSound(u)'
      <4>1. \A j \in Proc : owner'[j] = u /\ Engaged(j)' =>
              /\ owner[j] = u /\ Engaged(j) /\ carrier'[j] = carrier[j]
              /\ stage'[j] = "queued" <=> stage[j] = "queued"
        BY <3>1, <3>2 DEF Engaged
      <4> QED
        BY <1>4, <3>1, <4>1, HandKept
    <3> QED
      BY <3>3
  <2>5. ~ UserApproves(t) /\ ~ ApprovalRecorded(t)
    BY <1>1, <1>3 DEF UserApproves, ApprovalRecorded, ManagerTypeOK
  <2>6. CASE ContinuationRefused(t)
    <3>1. /\ UNCHANGED <<stage, owner, carrier, status, request>>
          /\ call[t]["continue"] = "ready"
          /\ call' = [call EXCEPT ![t]["continue"] = "rejected"]
      BY <2>6 DEF ContinuationRefused, StartTaskRefused, serviceVars, jobVars, dbVars,
         managerVars
    <3>2. \A p \in Origin : p # "continue" => call[t][p] = "none"
      BY <1>1, <1>4, <3>1 DEF HandSound, Origin
    <3>3. Never({"stop_all"})' => Never({"stop_all"})
      BY NeverBefore
    <3> QED
      BY <1>1, <1>4, <3>1, <3>2, <3>3 DEF HandSound, Free, Engaged, Origin
  <2>7. ASSUME NEW i \in Proc, LaunchContinuation(i, t)
        PROVE  \A u \in Task : HandSound(u)'
    <3>1. PICK s \in {"fresh", "queued"} :
            /\ call[t]["continue"] = "ready" /\ stage[i] = "none"
            /\ owner' = [owner EXCEPT ![i] = t]
            /\ stage' = [stage EXCEPT ![i] = s]
            /\ carrier' = [carrier EXCEPT ![i] = "continue"]
            /\ call' = [call EXCEPT ![t]["continue"] = IF s = "queued" THEN "waiting" ELSE "none"]
            /\ UNCHANGED <<status, request>>
      <4>1. CASE SlotFree
        BY <2>7, <4>1
           DEF LaunchContinuation, ContinueTask, Enter, Unused, dbVars, serviceVars, jobVars
      <4>2. CASE ~ SlotFree
        BY <2>7, <4>2
           DEF LaunchContinuation, ContinueTask, Enter, Unused, dbVars, serviceVars, jobVars
      <4> QED
        BY <4>1, <4>2
    <3>2. "continue" \in Origin \ {"phase"}
      BY DEF Origin
    <3> QED
      BY <1>4, <3>1, <3>2, HandLaunched
  <2> QED
    BY <1>12, <2>1, <2>2, <2>3, <2>4, <2>5, <2>6, <2>7 DEF UserStep
<1>13. ASSUME NEW t \in Task, WatchdogStep(t)
       PROVE  FALSE
  BY <1>2, <1>3, <1>13 DEF WatchdogStep, WatchdogReads, WatchdogFails, WatchdogStops,
     WatchdogTells, Happens
<1>14. CASE StopAll \/ StopAllLists
  BY <1>1, <1>5, <1>14 DEF StopAll, StopAllLists, managerVars, dbVars, callVars
<1>15. CASE StopAllRecorded
  <2>1. /\ UNCHANGED <<stage, owner, carrier, call, request, happened>>
        /\ stoppingAll
        /\ \A t \in Task : \/ status'[t] = status[t]
                           \/ t \in listed /\ status'[t] = "cancelled"
    BY <1>1, <1>15 DEF StopAllRecorded, managerVars, callVars, ServiceInv,
       Traced, RequestsTraced
  <2>2. "stop_all" \in happened
    BY <1>1, <2>1 DEF ServiceInv, Traced, RequestsTraced
  <2>3. ~ Never({"stop_all"}) /\ ~ Never({"stop_all"})'
    BY <2>1, <2>2 DEF Never
  <2> QED
    BY <1>4, <2>1, <2>3 DEF HandSound, Free, Engaged
<1>16. CASE CrashAndRecover
  <2>1. /\ \A t \in Task : Free(t)' /\ request'[t] = "none"
        /\ \A t \in Task, o \in Origin : call'[t][o] = "none"
        /\ \A i \in Proc : ~ Engaged(i)'
    BY <1>16 DEF CrashAndRecover, ManagerRestart, Free, Engaged
  <2> QED
    BY <2>1 DEF HandSound, Origin
<1>17. CASE UNCHANGED vars
  BY <1>5, <1>17 DEF vars, schedulerVars, serviceVars, jobVars, managerVars, dbVars,
     callVars
<1>18. ASSUME NEW i \in Proc, ContinuationRecorded(i) \/ MonitorDropped(i)
       PROVE  UNCHANGED <<request, stoppingAll, listed>>
  BY <1>18 DEF ContinuationRecorded, MonitorDropped, serviceVars, jobVars
<1>19. ~ ResumePhase /\ ~ ResumeLoads
  BY <1>2, <1>3 DEF ResumePhase, ResumeLoads, Happens
<1>20. UNCHANGED serviceVars => UNCHANGED <<request, stoppingAll, listed>>
  BY DEF serviceVars, jobVars
<1> QED
  BY <1>7, <1>9, <1>10, <1>11, <1>12, <1>13, <1>14, <1>15, <1>16, <1>17, <1>18,
     <1>19, <1>20 DEF Next, SchedulerNext, ResumeStep

LEMMA NextHandInv == BaseInv /\ HandInv /\ [Next]_vars => HandInv'
BY NeverBefore, HandSoundNext DEF HandInv, ByHand

LEMMA InitHandInv == Init => HandInv
BY DEF Init, SchedulerInit, ManagerInit, HandInv, HandSound, Free, Engaged,
   Origin

(* By hand, whoever lives unstopped is at work, and alone at work.         *)
LEMMA HandRunsSingle ==
  ASSUME BaseInv, HandInv, ByHand
  PROVE  \A i, j \in Proc :
           alive[i] /\ alive[j] /\ owner[i] = owner[j] /\ i # j
           => BeingStopped(i) \/ BeingStopped(j)
BY LivesWorking DEF BaseInv, HandInv, HandSound, Working, Engaged

(* No task has two processes that both go on, whoever runs it: its phase,  *)
(* or its user by hand.                                                    *)
THEOREM OneProcessPerTask == Spec => []SingleProcess
<1>1. BaseInv /\ PhaseInv /\ HandInv => SingleProcess
  BY PhaseRunsSingle, HandRunsSingle DEF SingleProcess, ByPhase, ByHand
<1> QED
  BY <1>1, InitBase, NextBase, InitPhaseInv, NextPhaseInv, InitHandInv,
     NextHandInv, PTL DEF Spec

(* Stopped by hand, a task has nobody at work on it.                       *)
LEMMA HandStopStays ==
  ASSUME BaseInv, HandInv, ByHand, Never({"stop_all"})
  PROVE  CancelledDown
BY LivesWorking DEF BaseInv, HandInv, HandSound, Free, Working, Engaged, CancelledDown

-----------------------------------------------------------------------------
(* Orderly histories.  A process object in use, and one at work or alive.  *)
Lively(i) == stage[i] # "none" \/ alive[i]
Active(i) == Engaged(i) \/ alive[i]

(* Tasks whose row tells what their process is doing: nobody resets it, or *)
(* nobody answers for it.                                                  *)
Kept(t) == Tame(t) \/ Never({"resume"})

(* What the row of a task at work may say.  A resume sets it to pending    *)
(* over a running process.                                                 *)
RowAtWork(t) ==
  \/ status[t] = "running"
  \/ status[t] = "pending" /\ "resume" \in happened
  \/ status[t] = "awaiting_input" /\ ~ Tame(t)

(* Call, processes and row of a task agree; the row of a task that is      *)
(* being stopped waits for the handler.                                    *)
TaskSound(t) ==
  /\ \A i, j \in Proc : /\ owner[i] = t /\ Lively(i)
                        /\ owner[j] = t /\ Lively(j)
                        => i = j
  /\ \A i \in Proc : owner[i] = t /\ Active(i) =>
       call[t]["phase"] \in {"none", "waiting"} /\ RowAtWork(t)
  /\ \A i \in Proc : owner[i] = t /\ Working(i) => callbacks[t] = i
  /\ call[t]["phase"] \in {"spawned", "loaded", "faulted"} =>
       status[t] \in {"pending", "failed"}
  /\ call[t]["phase"] \in {"ready", "waiting", "rejected"} => RowAtWork(t)
  /\ call[t]["phase"] = "waiting" => processes[t] = None
  /\ request[t] = "stop" =>
       /\ status[t] \in {"running", "awaiting_input"}
       /\ call[t]["phase"] = "none"
       /\ \A i \in Proc : owner[i] = t => ~ Engaged(i)

(* The runner waits for the end of a task of its wave.                     *)
MindedBy(r, t) ==
  /\ pc[r] \in {"gather", "drain", "poll"} /\ t \in InWave(r)
  /\ pc[r] # "gather" => t \in waiting[r] \ (seenC[r] \cup seenF[r])

TaskMinded(t) ==
  Tame(t) => \A i \in Proc : owner[i] = t /\ Active(i) =>
               \E r \in Runner : MindedBy(r, t)

(* What is left of a runner's snapshot.                                    *)
Later(r) == {t \in todo[r] : Wave[t] > wave[r]}

RunnerSound(r) ==
  /\ pc[r] \notin {"ready", "gather", "drain", "poll", "verdict", "abort"}
     => todo[r] = {}
  /\ \A t \in todo[r] : Wave[t] >= wave[r]
  /\ pc[r] \in {"ready", "abort"} => todo[r] = Later(r)
  /\ pc[r] = "verdict" => waiting[r] = {}

(* Nobody is at work on what a runner has still to start.                  *)
LaterOpen(t) ==
  \A r \in Runner : t \in Later(r) => status[t] \in {"pending", "failed"}

OrderlySound ==
  /\ \A r \in Runner : RunnerSound(r)
  /\ \A t \in Task : Kept(t) => TaskSound(t) /\ LaterOpen(t) /\ TaskMinded(t)

OrderlyInv == Orderly => OrderlySound

(* What an orderly history leaves of the operations.                       *)
LEMMA OrderlyOnly ==
  ASSUME BaseInv, PhaseInv, Orderly
  PROVE  /\ PhaseSound
         /\ \A t \in Task : /\ request[t] \in {"none", "stop", "approve"}
                            /\ request[t] = "stop" => Never({"resume", "crash"})
                            /\ request[t] = "approve" => ~ Tame(t)
                            /\ status[t] = "awaiting_input" => t \in Interactive
                            /\ call[t]["user"] = "none"
                            /\ call[t]["continue"] = "none"
         /\ ~ stoppingAll
         /\ \A i \in Proc : carrier[i] = "phase"
<1>1. happened \cap {"timeout", "phase_error", "watchdog", "start", "continue", "stop_all"} = {}
  BY DEF Orderly, Never
<1>2. ByPhase
  BY <1>1 DEF ByPhase, Never
<1>3. request \in [Task -> Requests]
  BY DEF BaseInv, ServiceInv, TypeInv, RowsTyped
<1>4. RequestsTraced /\ RowsTraced
  BY DEF BaseInv, ServiceInv, Traced
<1>5. ~ stoppingAll
  BY <1>1, <1>4 DEF RequestsTraced
<1>6. ASSUME NEW t \in Task
      PROVE  /\ request[t] \in {"none", "stop", "approve"}
             /\ request[t] = "stop" => Never({"resume", "crash"})
             /\ request[t] = "approve" => ~ Tame(t)
  <2>1. request[t] \in {"none", "stop", "approve"}
    BY <1>1, <1>3, <1>4, <1>5 DEF RequestsTraced, Requests
  <2>2. request[t] = "stop" => Never({"resume", "crash"})
    BY <1>4 DEF RequestsTraced, Orderly, Never
  <2>3. request[t] = "approve" => ~ Tame(t)
    BY <1>4 DEF RequestsTraced, Tame, Never
  <2> QED
    BY <2>1, <2>2, <2>3
<1>7. PhaseSound
  BY <1>2 DEF PhaseInv
<1> QED
  BY <1>2, <1>4, <1>5, <1>6, <1>7, ByPhaseOnly DEF RowsTraced

LEMMA OrderlyBefore ==
  ASSUME [Next]_vars
  PROVE  /\ Orderly' => Orderly
         /\ \A t \in Task : (Tame(t)' => Tame(t)) /\ (Kept(t)' => Kept(t))
BY HistoryGrows DEF Orderly, Tame, Kept, Never

(* The steps of an orderly history.                                        *)
LEMMA OrderlyStep ==
  ASSUME BaseInv, PhaseInv, [Next]_vars, Orderly'
  PROVE  \/ UNCHANGED vars
         \/ CrashAndRecover
         \/ ResumePhase \/ ResumeLoads
         \/ \E t \in Task : \/ UserStops(t) \/ StopReturns(t) \/ StopRecorded(t)
                            \/ UserApproves(t) \/ ApprovalRecorded(t)
         \/ /\ UNCHANGED <<request, stoppingAll, listed>>
            /\ \/ \E r \in Runner : RunPhase(r) \/ RunnerStep(r) \/ ResumeResets(r)
               \/ \E t \in Task : CallStep(t, "phase") \/ CallFaults(t)
               \/ \E i \in Proc : \/ ProcessStep(i) \/ WaiterRejected(i)
                                  \/ ToolCheckpoint(i) \/ MonitorDropped(i)
<1>1. Orderly
  BY OrderlyBefore
<1>2. happened' \cap {"timeout", "phase_error", "watchdog", "start", "continue", "stop_all"} = {}
  BY DEF Orderly, Never
<1>3. /\ \A t \in Task : /\ request[t] \in {"none", "stop", "approve"}
                         /\ call[t]["user"] = "none"
                         /\ call[t]["continue"] = "none"
      /\ ~ stoppingAll /\ listed = {}
      /\ \A i \in Proc : carrier[i] = "phase"
  BY <1>1, OrderlyOnly DEF BaseInv, ServiceInv, Traced, RequestsTraced
<1>4. ASSUME NEW t \in Task, NEW o \in Origin, CallStep(t, o)
      PROVE  o = "phase"
  BY <1>3, <1>4 DEF CallStep, LoadTask, MarkRunning, LaunchTask, LaunchRefused,
     CallFails, Origin
<1>5. ~ \E r \in Runner : WaitTimesOut(r) \/ PhaseErrs(r)
  BY <1>2 DEF WaitTimesOut, PhaseErrs, Happens
<1>6. ASSUME NEW t \in Task, UserStep(t)
      PROVE  \/ UserStops(t) \/ StopReturns(t) \/ StopRecorded(t)
             \/ UserApproves(t) \/ ApprovalRecorded(t)
  BY <1>2, <1>3, <1>6 DEF UserStep, UserStarts, UserContinues, RunRequested,
     Halt, ContinuationRefused, LaunchContinuation, Happens
<1>7. \A t \in Task : ~ WatchdogStep(t)
  BY <1>2, <1>3 DEF WatchdogStep, WatchdogReads, WatchdogFails, WatchdogStops, WatchdogTells,
     Happens
<1>8. ~ StopAll /\ ~ StopAllLists /\ ~ StopAllRecorded
  BY <1>2, <1>3 DEF StopAll, StopAllLists, StopAllRecorded, Happens
<1>9. ASSUME NEW i \in Proc, ContinuationRecorded(i)
      PROVE  FALSE
  <2>1. owner[i] \in Task
    BY <1>9, OwnerKnown DEF ContinuationRecorded, RunOnComplete, BaseInv,
       ServiceInv, TypeInv
  <2>2. callbacks[owner[i]] \in Proc
    BY <1>9, <2>1 DEF ContinuationRecorded, BaseInv, ServiceInv, TypeInv,
       ManagerInv, ManagerTypeOK
  <2> QED
    BY <1>3, <1>9, <2>2 DEF ContinuationRecorded
<1>10. ASSUME NEW r \in Runner, ResumeResets(r) PROVE UNCHANGED <<request, stoppingAll, listed>>
  BY <1>10 DEF ResumeResets
<1>11. ASSUME NEW i \in Proc, MonitorDropped(i) PROVE UNCHANGED <<request, stoppingAll, listed>>
  BY <1>11 DEF MonitorDropped, serviceVars, jobVars
<1>12. UNCHANGED serviceVars => UNCHANGED <<request, stoppingAll, listed>>
  BY DEF serviceVars, jobVars
<1> QED
  BY <1>4, <1>5, <1>6, <1>7, <1>8, <1>9, <1>10, <1>11, <1>12
     DEF Next, SchedulerNext, Mishap, ResumeStep

(* Only a resume and a crash touch what a resume has read.                 *)
LEMMA ResumeOnly ==
  ASSUME [Next]_vars
  PROVE  \/ UNCHANGED <<resume, overwritten>>
         \/ ResumeStep \/ CrashAndRecover
<1> USE DEF serviceVars, jobVars
<1>1. ASSUME NEW t \in Task, UserStep(t) \/ WatchdogStep(t)
      PROVE  UNCHANGED <<resume, overwritten>>
  BY <1>1 DEF UserStep, UserStops, StopReturns, StopRecorded, UserStarts,
     UserContinues, RunRequested, UserApproves, ApprovalRecorded, Halt,
     ContinuationRefused, LaunchContinuation, WatchdogStep, WatchdogReads,
     WatchdogFails, WatchdogStops, WatchdogTells
<1>2. ASSUME NEW i \in Proc, ContinuationRecorded(i) \/ MonitorDropped(i)
      PROVE  UNCHANGED <<resume, overwritten>>
  BY <1>2 DEF ContinuationRecorded, MonitorDropped
<1>3. CASE StopAll \/ StopAllLists \/ StopAllRecorded
  BY <1>3 DEF StopAll, StopAllLists, StopAllRecorded
<1>4. CASE UNCHANGED vars
  BY <1>4 DEF vars
<1> QED
  BY <1>1, <1>2, <1>3, <1>4 DEF Next

(* What is common to the lemmas below.                                     *)
LEMMA OrderlyTypes ==
  ASSUME BaseInv
  PROVE  /\ ManagerInv /\ ManagerTypeOK
         /\ call \in [Task -> [Origin -> CallStates]]
         /\ status \in [Task -> Statuses]
         /\ request \in [Task -> Requests]
         /\ pc \in [Runner -> RunnerStates]
         /\ todo \in [Runner -> SUBSET Task]
         /\ wave \in [Runner -> Nat]
         /\ Wave \in [Task -> Nat \ {0}]
BY SchedulerAssumption
   DEF BaseInv, ServiceInv, TypeInv, RowsTyped, ManagerInv

(* What a runner has still to start is nobody's business yet.              *)
LEMMA LaterFree ==
  ASSUME BaseInv, PhaseInv, Orderly, OrderlySound,
         NEW t \in Task, Kept(t), NEW r \in Runner, t \in Later(r)
  PROVE  /\ call[t]["phase"] = "none"
         /\ \A i \in Proc : owner[i] = t => ~ Active(i)
         /\ request[t] # "stop"
         /\ status[t] \in {"pending", "failed"}
<1>1. pc[r] \in {"ready", "gather", "drain", "poll", "verdict", "abort"}
  BY OrderlyTypes DEF OrderlySound, RunnerSound, Later
<1>2. ASSUME NEW q \in Runner, pc[q] \in {"gather", "drain", "poll"}, t \in InWave(q)
      PROVE  FALSE
  <2>1. q = r
    BY <1>1, <1>2 DEF BaseInv, OneRunner
  <2>2. Wave[t] = wave[r] /\ Wave[t] > wave[r] /\ wave[r] \in Nat
    BY <1>2, <2>1, OrderlyTypes DEF InWave, Later
  <2> QED
    BY <2>2
<1>3. TaskSound(t) /\ TaskMinded(t) /\ status[t] \in {"pending", "failed"}
  BY DEF OrderlySound, LaterOpen
<1>4. call[t]["phase"] = "none"
  BY <1>2, OrderlyOnly DEF PhaseSound, CallsGathered
<1>5. ASSUME NEW i \in Proc, owner[i] = t, Active(i)
      PROVE  FALSE
  <2>1. CASE Tame(t)
    BY <1>2, <1>3, <1>5, <2>1 DEF TaskMinded, MindedBy
  <2>2. CASE ~ Tame(t)
    BY <1>3, <1>5, <2>2 DEF TaskSound, RowAtWork, Kept, Never
  <2> QED
    BY <2>1, <2>2
<1> QED
  BY <1>3, <1>4, <1>5 DEF TaskSound

(* What leaves a task alone keeps it sound.                                *)
LEMMA TaskKept ==
  ASSUME [Next]_vars, NEW t \in Task, TaskSound(t),
         call'[t]["phase"] = call[t]["phase"],
         \/ status'[t] = status[t]
         \/ /\ request[t] # "stop"
            /\ RowAtWork(t) => RowAtWork(t)'
            /\ status[t] \in {"pending", "failed"} => status'[t] \in {"pending", "failed"},
         request'[t] = "stop" => request[t] = "stop",
         processes'[t] \in {processes[t], None},
         \A i \in Proc : owner'[i] = t /\ Lively(i)' =>
           /\ owner[i] = t /\ Lively(i)
           /\ Active(i)' => Active(i)
           /\ Engaged(i)' => Engaged(i)
           /\ Working(i)' => Working(i) /\ callbacks'[t] = callbacks[t]
  PROVE  TaskSound(t)'
<1>1. status'[t] = status[t] => (RowAtWork(t) => RowAtWork(t)')
  BY OrderlyBefore, HistoryGrows DEF RowAtWork
<1>2. \A i \in Proc : Active(i)' \/ Working(i)' \/ Engaged(i)' => Lively(i)'
  BY DEF Active, Engaged, Working, Lively
<1> QED
  BY <1>1, <1>2 DEF TaskSound

(* The steps of runners.                                                   *)
LEMMA RunnerKeepsTask ==
  ASSUME BaseInv, PhaseInv, OrderlySound, [Next]_vars, Orderly',
         UNCHANGED <<request, stoppingAll, listed>>, NEW t \in Task, Kept(t)',
         NEW r \in Runner, RunPhase(r) \/ RunnerStep(r) \/ ResumeResets(r)
  PROVE  TaskSound(t)'
<1>1. Orderly /\ Kept(t) /\ TaskSound(t)
  BY OrderlyBefore DEF OrderlySound
<1>2. UNCHANGED <<managerVars, request>>
  BY RunnerStepManages DEF ResumeResets, serviceVars, jobVars
<1>3. ASSUME UNCHANGED <<stage, alive, owner, processes, callbacks, request>>,
             call'[t]["phase"] = call[t]["phase"],
             \/ status'[t] = status[t]
             \/ /\ request[t] # "stop"
                /\ RowAtWork(t) => RowAtWork(t)'
                /\ status[t] \in {"pending", "failed"} => status'[t] \in {"pending", "failed"}
      PROVE  TaskSound(t)'
  BY <1>1, <1>3, TaskKept DEF Lively, Active, Engaged, Working
<1>4. CASE StartWave(r)
  <2>1. /\ pc[r] = "ready" /\ UNCHANGED status
        /\ \/ call'[t] = call[t]
           \/ /\ t \in Ahead(r)
              /\ call'[t] = [call[t] EXCEPT !["phase"] = "spawned"]
    BY <1>4 DEF StartWave, dbVars
  <2>2. CASE call'[t] = call[t]
    BY <1>2, <1>3, <2>1, <2>2 DEF managerVars
  <2>3. CASE /\ t \in Ahead(r)
             /\ call'[t] = [call[t] EXCEPT !["phase"] = "spawned"]
    <3>1. t \in Later(r)
      BY <2>1, <2>3 DEF OrderlySound, RunnerSound, Ahead
    <3>2. /\ \A i \in Proc : owner[i] = t => ~ Active(i)
          /\ request[t] # "stop" /\ status[t] \in {"pending", "failed"}
      BY <1>1, <3>1, LaterFree
    <3>3. call'[t]["phase"] = "spawned"
      BY <2>3, OrderlyTypes DEF Origin
    <3>4. \A i \in Proc : /\ Active(i)' <=> Active(i)
                          /\ Lively(i)' <=> Lively(i)
                          /\ Working(i)' <=> Working(i)
      BY <1>2 DEF managerVars, Active, Engaged, Lively, Working
    <3> QED
      BY <1>1, <1>2, <2>1, <3>2, <3>3, <3>4 DEF TaskSound, managerVars
  <2> QED
    BY <2>1, <2>2, <2>3
<1>5. ASSUME NEW u \in Task, AbortTask(r, u)
      PROVE  TaskSound(t)'
  <2>1. /\ pc[r] = "abort" /\ u \in todo[r] /\ UNCHANGED call
        /\ status' = [status EXCEPT ![u] = "failed"]
    BY <1>5 DEF AbortTask, MarkTaskFailed, callVars
  <2>2. CASE t # u
    BY <1>2, <1>3, <2>1, <2>2, OrderlyTypes DEF managerVars
  <2>3. CASE t = u
    <3>1. t \in Later(r)
      BY <2>1, <2>3 DEF OrderlySound, RunnerSound
    <3>2. /\ \A i \in Proc : owner[i] = t => ~ Active(i)
          /\ request[t] # "stop" /\ call[t]["phase"] = "none"
      BY <1>1, <3>1, LaterFree
    <3>3. \A i \in Proc : /\ Active(i)' <=> Active(i)
                          /\ Lively(i)' <=> Lively(i)
                          /\ Working(i)' <=> Working(i)
      BY <1>2 DEF managerVars, Active, Engaged, Lively, Working
    <3> QED
      BY <1>1, <1>2, <2>1, <3>2, <3>3 DEF TaskSound, managerVars
  <2> QED
    BY <2>2, <2>3
<1>6. CASE ResumeResets(r)
  <2>1. /\ "resume" \in happened' /\ UNCHANGED call
        /\ status'[t] \in {status[t], "pending"}
    BY <1>6 DEF ResumeResets, callVars, BaseInv, ServiceInv, Traced, RequestsTraced
  <2>2. request[t] # "stop"
    <3>1. ~ ("stop" \in happened')
      BY <2>1 DEF Orderly, Never
    <3> QED
      BY <3>1, HistoryGrows DEF BaseInv, ServiceInv, Traced, RequestsTraced
  <2>3. RowAtWork(t) /\ status'[t] # status[t] => RowAtWork(t)'
    BY <2>1 DEF RowAtWork
  <2> QED
    BY <1>2, <1>3, <2>1, <2>2, <2>3 DEF managerVars
<1>7. CASE UNCHANGED <<status, call>>
  BY <1>2, <1>3, <1>7 DEF managerVars
<1> QED
  BY <1>4, <1>5, <1>6, <1>7 DEF RunPhase, RunnerStep, EnterPhase, LoadPhase,
     Subscribe, DrainQueues, PollRows, CheckpointWave, AbortWaves,
     FinalizePhase, LeavePhase, dbVars, callVars

(* The steps of calls.                                                     *)
LEMMA CallKeepsTask ==
  ASSUME BaseInv, PhaseInv, OrderlySound, [Next]_vars, Orderly',
         UNCHANGED <<request, stoppingAll, listed>>, NEW t \in Task, Kept(t)',
         NEW u \in Task, CallStep(u, "phase") \/ CallFaults(u)
  PROVE  TaskSound(t)'
<1>1. Orderly /\ Kept(t) /\ TaskSound(t)
  BY OrderlyBefore DEF OrderlySound
<1>2. PhaseSound /\ request' = request
  BY <1>1, OrderlyOnly DEF serviceVars, jobVars
<1>3. /\ call[u]["phase"] \notin {"none", "waiting"}
      /\ \E s \in CallStates : call' = [call EXCEPT ![u]["phase"] = s]
      /\ \A v \in Task \ {u} : status'[v] = status[v]
  BY OrderlyTypes DEF CallStep, CallFaults, LoadTask, MarkRunning, LaunchTask,
     LaunchRefused, CallFails, MarkTaskFailed, dbVars, CallStates
<1>4. t = u => /\ \A i \in Proc : owner[i] = t => ~ Active(i)
               /\ request[t] # "stop"
  BY <1>1, <1>3 DEF TaskSound
<1>5. t # u => call'[t] = call[t]
  BY <1>3, OrderlyTypes
<1>6. "phase" \in Origin
  BY DEF Origin
<1>7. ASSUME UNCHANGED managerVars, t # u
      PROVE  TaskSound(t)'
  BY <1>1, <1>2, <1>3, <1>5, <1>7, TaskKept
     DEF managerVars, Lively, Active, Engaged, Working
<1>8. ASSUME UNCHANGED <<stage, alive, owner>>, t = u,
             \/ call'[t]["phase"] = "none"
             \/ /\ call'[t]["phase"] \in {"spawned", "loaded", "faulted"}
                /\ status'[t] \in {"pending", "failed"}
             \/ call'[t]["phase"] \in {"ready", "rejected"} /\ RowAtWork(t)'
      PROVE  TaskSound(t)'
  <2>1. \A i \in Proc : /\ Active(i)' <=> Active(i)
                        /\ Lively(i)' <=> Lively(i)
                        /\ Working(i)' => Active(i)
    BY <1>8 DEF Active, Engaged, Lively, Working
  <2> QED
    BY <1>1, <1>2, <1>4, <1>8, <2>1 DEF TaskSound
<1>9. CASE LoadTask(u, "phase") \/ CallFaults(u)
  <2>1. UNCHANGED <<managerVars, status>> /\ call[u]["phase"] \in {"spawned", "loaded"}
    BY <1>9 DEF LoadTask, CallFaults, dbVars
  <2>2. call'[u]["phase"] \in {"none", "loaded", "faulted"}
    BY <1>6, <1>9, OrderlyTypes DEF LoadTask, CallFaults
  <2>3. t = u => status[t] \in {"pending", "failed"}
    BY <1>1, <2>1 DEF TaskSound
  <2> QED
    BY <1>7, <1>8, <2>1, <2>2, <2>3 DEF managerVars
<1>10. CASE MarkRunning(u, "phase")
  <2>1. UNCHANGED managerVars /\ status' = [status EXCEPT ![u] = "running"]
    BY <1>10 DEF MarkRunning
  <2>2. call'[u]["phase"] = "ready"
    BY <1>6, <1>10, OrderlyTypes DEF MarkRunning
  <2>3. status'[u] = "running"
    BY <2>1, OrderlyTypes
  <2> QED
    BY <1>7, <1>8, <2>1, <2>2, <2>3 DEF managerVars, RowAtWork
<1>11. CASE CallFails(u, "phase")
  <2>1. UNCHANGED managerVars
    BY <1>11 DEF CallFails
  <2>2. call'[u]["phase"] = "none"
    BY <1>6, <1>11, OrderlyTypes DEF CallFails
  <2> QED
    BY <1>7, <1>8, <2>1, <2>2 DEF managerVars
<1>12. CASE LaunchRefused(u, "phase")
  <2>1. /\ UNCHANGED <<stage, alive, owner, processes, status>>
        /\ callbacks' = [callbacks EXCEPT ![u] = None]
        /\ call[u]["phase"] = "ready"
    BY <1>12 DEF LaunchRefused, StartTaskRefused, dbVars
  <2>2. call'[u]["phase"] = "rejected"
    BY <1>6, <1>12, OrderlyTypes DEF LaunchRefused
  <2>3. CASE t = u
    <3>1. RowAtWork(t)'
      BY <1>1, <2>1, <2>3, HistoryGrows, OrderlyBefore DEF TaskSound, RowAtWork
    <3> QED
      BY <1>8, <2>1, <2>2, <2>3, <3>1
  <2>4. CASE t # u
    <3>1. callbacks'[t] = callbacks[t]
      BY <2>1, <2>4, OrderlyTypes DEF ManagerTypeOK
    <3> QED
      BY <1>1, <1>2, <1>3, <1>5, <2>1, <2>4, <3>1, TaskKept
         DEF Lively, Active, Engaged, Working
  <2> QED
    BY <2>3, <2>4
<1>13. ASSUME NEW i \in Proc, LaunchTask(i, u, "phase")
       PROVE  TaskSound(t)'
  <2>1. PICK s \in {"fresh", "queued"} :
          /\ processes[u] = None /\ stage[i] = "none" /\ ~ alive[i]
          /\ call[u]["phase"] = "ready" /\ UNCHANGED status
          /\ owner' = [owner EXCEPT ![i] = u]
          /\ stage' = [stage EXCEPT ![i] = s]
          /\ callbacks' = [callbacks EXCEPT ![u] = i]
          /\ call' = [call EXCEPT ![u]["phase"] = IF s = "queued" THEN "waiting" ELSE "none"]
          /\ \A j \in Proc : j # i => alive'[j] = alive[j]
          /\ \A v \in Task : v # u => processes'[v] = processes[v]
          /\ s = "queued" => UNCHANGED processes
    <3>1. CASE SlotFree
      BY <1>13, <3>1, OrderlyTypes
         DEF LaunchTask, StartTask, Enter, Attach, Unused, dbVars, ManagerTypeOK
    <3>2. CASE ~ SlotFree
      BY <1>13, <3>2, OrderlyTypes
         DEF LaunchTask, StartTask, Enter, Unused, dbVars, ManagerTypeOK
    <3> QED
      BY <3>1, <3>2
  <2>2. ManagerTypeOK
    BY OrderlyTypes
  <2>3. CASE t # u
    <3>1. \A j \in Proc : owner'[j] = t =>
            /\ j # i /\ owner[j] = t /\ stage'[j] = stage[j] /\ alive'[j] = alive[j]
      BY <2>1, <2>2, <2>3 DEF ManagerTypeOK
    <3>2. callbacks'[t] = callbacks[t] /\ processes'[t] = processes[t]
      BY <2>1, <2>2, <2>3 DEF ManagerTypeOK
    <3> QED
      BY <1>1, <1>2, <1>3, <1>5, <2>1, <2>3, <3>1, <3>2, TaskKept
         DEF Lively, Active, Engaged, Working
  <2>4. CASE t = u
    <3>1. ASSUME NEW j \in Proc, owner[j] = t
          PROVE  ~ Lively(j)
      <4>1. ~ Active(j)
        BY <1>4, <2>4, <3>1
      <4>2. stage[j] \notin Holding
        BY <1>2, <2>1, <2>4, <3>1, ManagerAssumption DEF PhaseSound, HoldersRegistered
      <4> QED
        BY <2>2, <4>1, <4>2
           DEF Active, Engaged, Lively, ManagerTypeOK, Stages, Holding
    <3>2. \A j \in Proc : owner'[j] = t /\ Lively(j)' => j = i
      BY <2>1, <2>2, <2>4, <3>1 DEF Lively, ManagerTypeOK
    <3>3. RowAtWork(t)'
      BY <1>1, <2>1, <2>4, HistoryGrows, OrderlyBefore DEF TaskSound, RowAtWork
    <3>4. call'[t]["phase"] = IF s = "queued" THEN "waiting" ELSE "none"
      BY <1>6, <2>1, <2>4, OrderlyTypes
    <3>5. callbacks'[t] = i
      BY <2>1, <2>2, <2>4 DEF ManagerTypeOK
    <3>6. s = "queued" => processes'[t] = None
      BY <2>1, <2>4
    <3>7. \A j \in Proc : Active(j)' \/ Working(j)' \/ Engaged(j)' => Lively(j)'
      BY DEF Active, Engaged, Working, Lively
    <3>8. request'[t] # "stop"
      BY <1>2, <1>4, <2>4
    <3> QED
      BY <3>2, <3>3, <3>4, <3>5, <3>6, <3>7, <3>8 DEF TaskSound
  <2> QED
    BY <2>3, <2>4
<1> QED
  BY <1>9, <1>10, <1>11, <1>12, <1>13 DEF CallStep

(* The steps of processes and monitors.                                    *)
LEMMA ProcessKeepsTask ==
  ASSUME BaseInv, PhaseInv, OrderlySound, [Next]_vars, Orderly',
         UNCHANGED <<request, stoppingAll, listed>>, NEW t \in Task, Kept(t)',
         NEW i \in Proc,
         ProcessStep(i) \/ WaiterRejected(i) \/ ToolCheckpoint(i) \/ MonitorDropped(i)
  PROVE  TaskSound(t)'
<1>1. Orderly /\ Kept(t) /\ TaskSound(t)
  BY OrderlyBefore DEF OrderlySound
<1>2. PhaseSound /\ request' = request /\ carrier[i] = "phase"
  BY <1>1, OrderlyOnly DEF serviceVars, jobVars
<1>3. ManagerInv /\ ManagerTypeOK
  BY OrderlyTypes
<1>4. PICK u \in Task : u = owner[i] /\ Lively(i)
  BY <1>3, OwnerKnown
     DEF ProcessStep, WaiterRejected, ToolCheckpoint, MonitorDropped,
         WaiterStarts, StreamStarts, RunExits, RunRecorded, RunPublished,
         SlotGranted, SlotGrantedStartRaises, MonitorStarts, ProcessExits,
         RunOnComplete, MonitorFinishes, MonitorCancelled, Lively
<1>5. "phase" \in Origin
  BY DEF Origin
<1>6. \A j \in Proc : Active(j)' \/ Working(j)' \/ Engaged(j)' => Lively(j)'
  BY DEF Active, Engaged, Working, Lively
<1>7. \A j \in Proc : t = u /\ owner[j] = t /\ Lively(j) => j = i
  BY <1>1, <1>4 DEF TaskSound
<1>8. CASE WaiterStarts(i) \/ WaiterRejected(i)
  <2>1. /\ stage[i] = "queued" /\ call[u]["phase"] = "waiting" /\ callbacks[u] = i
        /\ UNCHANGED status
    BY <1>2, <1>4, <1>8 DEF WaiterStarts, WaiterRejected, SlotGranted,
       SlotGrantedStartRaises, PhaseSound, QueuedSound, dbVars
  <2>2. ~ alive[i]
    BY <1>3, <2>1 DEF ManagerInv, LifeSound, CutOff, StopSound, Holding
  <2>3. \/ /\ stage' = [stage EXCEPT ![i] = "fresh"]
           /\ alive' = [alive EXCEPT ![i] = TRUE]
           /\ processes' = [processes EXCEPT ![u] = i]
           /\ UNCHANGED <<owner, callbacks>>
           /\ call' = [call EXCEPT ![u]["phase"] = "none"]
        \/ /\ stage' = [stage EXCEPT ![i] = "none"]
           /\ owner' = [owner EXCEPT ![i] = None]
           /\ callbacks' = [callbacks EXCEPT ![u] = None]
           /\ UNCHANGED <<alive, processes>>
           /\ call' = [call EXCEPT ![u]["phase"] = "rejected"]
    BY <1>2, <1>4, <1>8 DEF WaiterStarts, WaiterRejected, SlotGranted,
       SlotGrantedStartRaises, Attach
  <2>4. CASE t # u
    <3>1. /\ call'[t] = call[t] /\ processes'[t] = processes[t]
          /\ callbacks'[t] = callbacks[t]
      BY <1>3, <2>3, <2>4, OrderlyTypes DEF ManagerTypeOK
    <3>2. \A j \in Proc : owner'[j] = t =>
            owner[j] = t /\ stage'[j] = stage[j] /\ alive'[j] = alive[j]
      BY <1>3, <1>4, <2>3, <2>4, ManagerAssumption DEF ManagerTypeOK
    <3> QED
      BY <1>1, <1>2, <2>1, <3>1, <3>2, TaskKept DEF Lively, Active, Engaged, Working
  <2>5. CASE t = u
    <3>1. RowAtWork(t) /\ RowAtWork(t)' /\ request[t] # "stop"
      BY <1>1, <2>1, <2>5, HistoryGrows, OrderlyBefore DEF TaskSound, RowAtWork
    <3>2. CASE call' = [call EXCEPT ![u]["phase"] = "none"]
      <4>1. call'[t]["phase"] = "none"
        BY <1>5, <2>5, <3>2, OrderlyTypes
      <4>2. UNCHANGED <<owner, callbacks>>
        <5>1. call'[u]["phase"] # "rejected"
          BY <2>5, <4>1
        <5> QED
          BY <1>5, <2>3, <5>1, OrderlyTypes
      <4>3. \A j \in Proc : owner'[j] = t /\ Lively(j)' => j = i
        <5>1. \A j \in Proc : j # i => stage'[j] = stage[j] /\ alive'[j] = alive[j]
          BY <1>3, <2>3 DEF ManagerTypeOK
        <5> QED
          BY <1>7, <2>5, <4>2, <5>1 DEF Lively
      <4> QED
        BY <1>2, <1>6, <2>1, <2>5, <3>1, <4>1, <4>2, <4>3 DEF TaskSound
    <3>3. CASE /\ stage' = [stage EXCEPT ![i] = "none"]
               /\ owner' = [owner EXCEPT ![i] = None]
               /\ UNCHANGED alive
               /\ call' = [call EXCEPT ![u]["phase"] = "rejected"]
      <4>1. call'[t]["phase"] = "rejected"
        BY <1>5, <2>5, <3>3, OrderlyTypes
      <4>2. \A j \in Proc : owner'[j] = t => ~ Lively(j)'
        BY <1>3, <1>7, <2>5, <3>3, ManagerAssumption DEF Lively, ManagerTypeOK
      <4> QED
        BY <1>2, <1>6, <3>1, <4>1, <4>2 DEF TaskSound
    <3> QED
      BY <2>3, <3>2, <3>3
  <2> QED
    BY <2>4, <2>5
<1>9. CASE StreamStarts(i) \/ RunExits(i)
  <2>1. /\ UNCHANGED <<owner, processes, callbacks, status, call>>
        /\ \A j \in Proc : /\ Lively(j)' => Lively(j)
                           /\ Active(j)' => Active(j)
                           /\ Engaged(j)' => Engaged(j)
                           /\ Working(j)' => Working(j)
    BY <1>3, <1>9 DEF StreamStarts, RunExits, MonitorStarts, ProcessExits,
       Lively, Active, Engaged, Working, ManagerTypeOK, dbVars, callVars
  <2> QED
    BY <1>1, <1>2, <2>1, TaskKept
<1>10. CASE RunRecorded(i)
  <2>1. /\ stage[i] = "streaming" /\ ~ alive[i]
        /\ stage' = [stage EXCEPT ![i] = "recorded"]
        /\ UNCHANGED <<owner, alive, processes, callbacks, call>>
    BY <1>10 DEF RunRecorded, RunOnComplete, callVars
  <2>2. \A v \in Task : v # u => status'[v] = status[v]
    BY <1>4, <1>10, OrderlyTypes DEF RunRecorded, RecordExit, RecordFinal, dbVars
  <2>3. CASE t # u
    <3>1. \A j \in Proc : owner'[j] = t => stage'[j] = stage[j]
      BY <1>3, <1>4, <2>1, <2>3 DEF ManagerTypeOK
    <3> QED
      BY <1>1, <1>2, <2>1, <2>2, <2>3, <3>1, TaskKept
         DEF Lively, Active, Engaged, Working
  <2>4. CASE t = u
    <3>1. Active(i) /\ Engaged(i) /\ processes[t] = i
      BY <1>2, <1>4, <2>1, <2>4
         DEF Active, Engaged, PhaseSound, HoldersRegistered, Holding
    <3>2. request[t] # "stop" /\ call[t]["phase"] = "none"
      BY <1>1, <1>4, <2>4, <3>1, ManagerAssumption DEF TaskSound
    <3>3. \A j \in Proc : owner'[j] = t /\ Lively(j)' => j = i
      BY <1>3, <1>7, <2>1, <2>4 DEF Lively, ManagerTypeOK
    <3>4. ~ Active(i)' /\ ~ Working(i)'
      BY <1>3, <2>1 DEF Active, Engaged, Working, ManagerTypeOK
    <3> QED
      BY <1>2, <1>6, <2>1, <3>2, <3>3, <3>4 DEF TaskSound
  <2> QED
    BY <2>3, <2>4
<1>11. CASE RunPublished(i) \/ MonitorDropped(i)
  <2>1. /\ stage[i] \in {"recorded", "cancelled"}
        /\ stage' = [stage EXCEPT ![i] = "none"]
        /\ processes' = [processes EXCEPT ![u] = None]
        /\ callbacks' = [callbacks EXCEPT ![u] = None]
        /\ UNCHANGED <<owner, alive, status, call>>
    BY <1>4, <1>11 DEF RunPublished, MonitorDropped, MonitorFinishes,
       MonitorCancelled, MonitorFinally, UnchangedButManager, dbVars, callVars
  <2>2. processes'[t] \in {processes[t], None}
    BY <1>3, <2>1 DEF ManagerTypeOK
  <2>3. \A j \in Proc : /\ Lively(j)' => Lively(j)
                        /\ Active(j)' => Active(j)
                        /\ Engaged(j)' => Engaged(j)
                        /\ Working(j)' => Working(j) /\ j # i
    BY <1>3, <2>1 DEF Lively, Active, Engaged, Working, ManagerTypeOK
  <2>4. \A j \in Proc : owner[j] = t /\ Working(j)' => callbacks'[t] = callbacks[t]
    BY <1>3, <1>6, <1>7, <2>1, <2>3 DEF ManagerTypeOK
  <2> QED
    BY <1>1, <1>2, <2>1, <2>2, <2>3, <2>4, TaskKept
<1>12. CASE ToolCheckpoint(i)
  <2>1. /\ stage[i] = "streaming" /\ alive[i] /\ u \in Interactive
        /\ "permission" \in happened'
        /\ UNCHANGED <<managerVars, call>>
        /\ \A v \in Task : \/ status'[v] = status[v]
                           \/ v = u /\ status'[v] = "awaiting_input"
    BY <1>4, <1>12, OrderlyTypes DEF ToolCheckpoint, Happens
  <2>2. CASE status'[t] = status[t]
    BY <1>1, <1>2, <2>1, <2>2, TaskKept
       DEF managerVars, Lively, Active, Engaged, Working
  <2>3. CASE t = u /\ status'[t] = "awaiting_input"
    <3>1. ~ Tame(t)' /\ ~ ("resume" \in happened)
      BY <2>1, <2>3, HistoryGrows DEF Tame, Kept, Never
    <3>2. RowAtWork(t) /\ request[t] # "stop"
      BY <1>1, <1>4, <2>1, <2>3 DEF TaskSound, Active, Engaged
    <3>3. status[t] \notin {"pending", "failed"} /\ RowAtWork(t)'
      BY <2>3, <3>1, <3>2 DEF RowAtWork
    <3> QED
      BY <1>1, <1>2, <2>1, <3>2, <3>3, TaskKept
         DEF managerVars, Lively, Active, Engaged, Working
  <2> QED
    BY <2>1, <2>2, <2>3
<1> QED
  BY <1>8, <1>9, <1>10, <1>11, <1>12 DEF ProcessStep

(* The steps of users.                                                     *)
LEMMA UserKeepsTask ==
  ASSUME BaseInv, PhaseInv, OrderlySound, [Next]_vars, Orderly',
         NEW t \in Task, Kept(t)', NEW u \in Task,
         \/ UserStops(u) \/ StopReturns(u) \/ StopRecorded(u)
         \/ UserApproves(u) \/ ApprovalRecorded(u)
  PROVE  TaskSound(t)'
<1>1. Orderly /\ Kept(t) /\ TaskSound(t)
  BY OrderlyBefore DEF OrderlySound
<1>2. ManagerInv /\ ManagerTypeOK /\ ServiceInv
  BY OrderlyTypes DEF BaseInv
<1>3. \A j \in Proc : Active(j)' \/ Working(j)' \/ Engaged(j)' => Lively(j)'
  BY DEF Active, Engaged, Working, Lively
<1>4. CASE UserStops(u)
  <2>1. /\ Running(u) /\ stopping[u] = None /\ StopTask(u)
        /\ UNCHANGED <<call, status>> /\ request' = [request EXCEPT ![u] = "stop"]
        /\ "stop" \in happened'
    BY <1>4 DEF UserStops, Idle, UnchangedButManager, dbVars, callVars, Happens
  <2>2. PICK p \in Proc : /\ p = processes[u] /\ owner[p] = u /\ Working(p)
    BY <1>2, <2>1, RunningWorks
  <2>3. /\ UNCHANGED <<owner, processes, callbacks, alive>>
        /\ ~ Engaged(p)'
        /\ \A j \in Proc : j # p => stage'[j] = stage[j]
    BY <1>2, <2>1, <2>2, StopDisengages
  <2>4. CASE t # u
    <3>1. request'[t] = request[t]
      BY <2>1, <2>4, OrderlyTypes
    <3>2. \A j \in Proc : owner[j] = t => stage'[j] = stage[j]
      BY <2>2, <2>3, <2>4
    <3> QED
      BY <1>1, <2>1, <2>3, <3>1, <3>2, TaskKept DEF Lively, Active, Engaged, Working
  <2>5. CASE t = u
    <3>1. \A j \in Proc : owner[j] = t /\ Lively(j)' => j = p
      BY <1>1, <2>2, <2>3, <2>5 DEF TaskSound, Lively, Working
    <3>2. RowAtWork(t) /\ call[t]["phase"] = "none"
      BY <1>1, <2>2, <2>5, ManagerAssumption DEF TaskSound, Active, Engaged, Working
    <3>3. ~ ("resume" \in happened') /\ ~ ("resume" \in happened)
      BY <2>1, HistoryGrows DEF Orderly, Never
    <3>4. status[t] \in {"running", "awaiting_input"} /\ RowAtWork(t)'
      BY <2>1, <3>2, <3>3, OrderlyBefore DEF RowAtWork
    <3>5. ~ Working(p)'
      BY <2>3 DEF Engaged, Working
    <3>6. \A j \in Proc : owner'[j] = t => ~ Engaged(j)'
      BY <1>3, <2>3, <3>1
    <3> QED
      BY <1>3, <2>1, <2>3, <3>1, <3>2, <3>4, <3>5, <3>6 DEF TaskSound
  <2> QED
    BY <2>4, <2>5
<1>5. CASE StopReturns(u)
  <2>1. /\ UNCHANGED <<stage, owner, processes, callbacks, call, status>>
        /\ request'[t] = "stop" => request[t] = "stop"
    BY <1>5, OrderlyTypes DEF StopReturns, StopFinishes, dbVars
  <2>2. \A j \in Proc : alive'[j] => alive[j]
    BY <1>2, <1>5 DEF StopReturns, StopFinishes, ManagerTypeOK
  <2> QED
    BY <1>1, <2>1, <2>2, TaskKept DEF Lively, Active, Engaged, Working
<1>6. CASE StopRecorded(u)
  <2>1. /\ request[u] = "stop" /\ stopping[u] = None
        /\ UNCHANGED <<managerVars, call>>
        /\ request' = [request EXCEPT ![u] = "none"]
        /\ status' = [status EXCEPT ![u] = "cancelled"]
    BY <1>6 DEF StopRecorded, callVars
  <2>2. CASE t # u
    <3>1. request'[t] = request[t] /\ status'[t] = status[t]
      BY <2>1, <2>2, OrderlyTypes
    <3> QED
      BY <1>1, <2>1, <3>1, TaskKept DEF managerVars, Lively, Active, Engaged, Working
  <2>3. CASE t = u
    <3>1. ASSUME NEW j \in Proc, owner[j] = t, Active(j)
          PROVE  FALSE
      <4>1. ~ Engaged(j) /\ alive[j]
        BY <1>1, <2>1, <2>3, <3>1 DEF TaskSound, Active
      <4>2. BeingStopped(j)
        BY <1>2, <4>1, LivesWorking DEF Engaged, Working
      <4> QED
        BY <1>2, <2>1, <2>3, <3>1, <4>2 DEF BeingStopped, ManagerInv, StopSound
    <3>2. call[t]["phase"] = "none" /\ request'[t] = "none"
      BY <1>1, <2>1, <2>3, OrderlyTypes DEF TaskSound
    <3>3. \A j \in Proc : /\ Active(j)' <=> Active(j)
                          /\ Lively(j)' <=> Lively(j)
                          /\ Working(j)' => Active(j)
      BY <2>1 DEF managerVars, Active, Engaged, Lively, Working
    <3> QED
      BY <1>1, <2>1, <3>1, <3>2, <3>3 DEF TaskSound, managerVars
  <2> QED
    BY <2>2, <2>3
<1>7. CASE UserApproves(u)
  <2>1. /\ UNCHANGED <<managerVars, call, status>>
        /\ request'[t] = "stop" => request[t] = "stop"
    BY <1>7, OrderlyTypes DEF UserApproves, dbVars
  <2> QED
    BY <1>1, <2>1, TaskKept DEF managerVars, Lively, Active, Engaged, Working
<1>8. CASE ApprovalRecorded(u)
  <2>1. /\ UNCHANGED <<managerVars, call>>
        /\ request'[t] = "stop" => request[t] = "stop"
        /\ \/ status'[t] = status[t]
           \/ request[t] = "approve" /\ status[t] = "awaiting_input" /\ status'[t] = "running"
    BY <1>8, OrderlyTypes DEF ApprovalRecorded, callVars
  <2> QED
    BY <1>1, <2>1, TaskKept
       DEF managerVars, Lively, Active, Engaged, Working, RowAtWork
<1> QED
  BY <1>4, <1>5, <1>6, <1>7, <1>8

LEMMA TaskSoundNext ==
  ASSUME BaseInv, PhaseInv, OrderlySound, [Next]_vars, Orderly',
         NEW t \in Task, Kept(t)'
  PROVE  TaskSound(t)'
<1>1. CASE UNCHANGED vars
  <2>1. TaskSound(t)
    BY OrderlyBefore DEF OrderlySound
  <2>2. UNCHANGED <<stage, alive, owner, processes, callbacks, status, call, request>>
    BY <1>1 DEF vars, schedulerVars, serviceVars, jobVars, managerVars, dbVars, callVars
  <2> QED
    BY <2>1, <2>2, TaskKept DEF Lively, Active, Engaged, Working
<1>2. CASE CrashAndRecover
  <2>1. /\ \A i \in Proc : ~ Lively(i)'
        /\ call'[t]["phase"] = "none" /\ request'[t] = "none"
    BY <1>2 DEF CrashAndRecover, ManagerRestart, Lively, Origin
  <2> QED
    BY <2>1 DEF TaskSound, Active, Engaged, Working, Lively
<1>3. CASE ResumePhase \/ ResumeLoads
  <2>1. TaskSound(t)
    BY OrderlyBefore DEF OrderlySound
  <2>2. UNCHANGED <<stage, alive, owner, processes, callbacks, status, call, request>>
    BY <1>3 DEF ResumePhase, ResumeLoads, managerVars, dbVars, callVars
  <2> QED
    BY <2>1, <2>2, TaskKept DEF Lively, Active, Engaged, Working
<1> QED
  BY <1>1, <1>2, <1>3, OrderlyStep, RunnerKeepsTask, CallKeepsTask,
     ProcessKeepsTask, UserKeepsTask

(* The steps of a runner, as far as its own state goes.                    *)
LEMMA RunnerSoundNext ==
  ASSUME BaseInv, PhaseInv, OrderlySound, [Next]_vars, Orderly',
         NEW r \in Runner
  PROVE  RunnerSound(r)'
<1>1. RunnerSound(r)
  BY DEF OrderlySound
<1>2. /\ pc \in [Runner -> RunnerStates] /\ todo \in [Runner -> SUBSET Task]
      /\ wave \in [Runner -> Nat] /\ waiting \in [Runner -> SUBSET Task]
      /\ Wave \in [Task -> Nat \ {0}]
  BY OrderlyTypes DEF BaseInv, ServiceInv, TypeInv, RowsTyped
<1>3. ASSUME pc'[r] = pc[r], todo'[r] = todo[r], wave'[r] = wave[r],
             waiting'[r] = waiting[r]
      PROVE  RunnerSound(r)'
  BY <1>1, <1>3 DEF RunnerSound, Later
<1>4. CASE UNCHANGED runnerVars
  BY <1>3, <1>4 DEF runnerVars
<1>5. ASSUME NEW q \in Runner, RunPhase(q) \/ RunnerStep(q) \/ ResumeResets(q)
      PROVE  RunnerSound(r)'
  <2>1. CASE q # r
    <3>1. /\ pc'[r] = pc[r] /\ todo'[r] = todo[r] /\ wave'[r] = wave[r]
          /\ waiting'[r] = waiting[r]
      BY <1>2, <1>5, <2>1 DEF RunPhase, ResumeResets, RunnerStep, EnterPhase,
         LoadPhase, StartWave, Subscribe, DrainQueues, PollRows, CheckpointWave,
         AbortWaves, FinalizePhase, LeavePhase, AbortTask, Goto
    <3> QED
      BY <1>3, <3>1
  <2>2. CASE q = r
    <3>1. CASE RunPhase(r) \/ EnterPhase(r) \/ ResumeResets(r)
      BY <1>1, <1>2, <3>1 DEF RunPhase, EnterPhase, ResumeResets, Goto, RunnerSound
    <3>2. CASE LoadPhase(r)
      <4>1. /\ pc'[r] = "ready" /\ wave'[r] = 0 /\ todo'[r] \subseteq Task
        BY <1>2, <3>2 DEF LoadPhase, Goto
      <4>2. \A t \in todo'[r] : Wave[t] > 0 /\ Wave[t] >= 0
        BY <1>2, <4>1
      <4> QED
        BY <4>1, <4>2 DEF RunnerSound, Later
    <3>3. CASE StartWave(r)
      <4>1. DEFINE W == {Wave[t] : t \in Ahead(r)}
      <4>2. W \subseteq Nat /\ W # {}
        BY <1>2, <3>3 DEF StartWave, Ahead
      <4>3. \A n \in W : Min(W) <= n
        BY <4>2, LeastNatural
      <4>4. \A t \in Ahead(r) : Wave[t] >= Min(W)
        <5>1. Min(W) \in Nat
          BY <4>2, LeastNatural
        <5> QED
          BY <1>2, <4>2, <4>3, <5>1 DEF Ahead
      <4>5. pc'[r] = "gather" /\ wave'[r] = Min(W) /\ todo'[r] = Ahead(r)
        BY <1>2, <3>3 DEF StartWave, Goto
      <4> QED
        BY <4>4, <4>5 DEF RunnerSound
    <3>4. CASE Subscribe(r) \/ DrainQueues(r) \/ PollRows(r)
      BY <1>1, <1>2, <3>4 DEF Subscribe, DrainQueues, PollRows, Goto, RunnerSound
    <3>5. CASE CheckpointWave(r) \/ AbortWaves(r)
      <4>1. /\ pc'[r] \in {"ready", "abort"} /\ wave'[r] = wave[r]
            /\ todo'[r] = {t \in todo[r] : Wave[t] > wave[r]}
        BY <1>2, <3>5 DEF CheckpointWave, AbortWaves, Goto
      <4> QED
        BY <1>1, <4>1 DEF RunnerSound, Later
    <3>6. ASSUME NEW t \in Task, AbortTask(r, t)
          PROVE  RunnerSound(r)'
      BY <1>1, <1>2, <3>6 DEF AbortTask, RunnerSound, Later
    <3>7. CASE FinalizePhase(r) \/ LeavePhase(r)
      BY <1>1, <1>2, <3>7 DEF FinalizePhase, LeavePhase, Goto, RunnerSound
    <3> QED
      BY <1>5, <2>2, <3>1, <3>2, <3>3, <3>4, <3>5, <3>6, <3>7 DEF RunnerStep
  <2> QED
    BY <2>1, <2>2
<1>6. CASE CrashAndRecover
  BY <1>6 DEF CrashAndRecover, RunnerSound
<1>7. ASSUME NEW t \in Task,
             \/ CallStep(t, "phase") \/ CallFaults(t)
             \/ UserStops(t) \/ StopReturns(t) \/ StopRecorded(t)
             \/ UserApproves(t) \/ ApprovalRecorded(t)
      PROVE  UNCHANGED runnerVars
  BY <1>7 DEF CallStep, LoadTask, MarkRunning, LaunchTask, LaunchRefused,
     CallFails, CallFaults, UserStops, StopReturns, StopRecorded, UserApproves,
     ApprovalRecorded, UnchangedButManager
<1>8. ASSUME NEW i \in Proc, \/ ProcessStep(i) \/ WaiterRejected(i)
                             \/ ToolCheckpoint(i) \/ MonitorDropped(i)
      PROVE  UNCHANGED runnerVars
  BY <1>8 DEF ProcessStep, WaiterStarts, StreamStarts, RunExits, RunRecorded,
     RunPublished, WaiterRejected, ToolCheckpoint, MonitorDropped,
     UnchangedButManager
<1>9. CASE UNCHANGED vars \/ ResumePhase \/ ResumeLoads
  BY <1>4, <1>9 DEF vars, schedulerVars, ResumePhase, ResumeLoads
<1> QED
  BY <1>4, <1>5, <1>6, <1>7, <1>8, <1>9, OrderlyStep

(* Nobody but a runner rewrites the row of a task no one is at work on.    *)
LEMMA FreeRow ==
  ASSUME BaseInv, PhaseInv, [Next]_vars, Orderly', NEW t \in Task,
         call[t]["phase"] = "none", \A i \in Proc : owner[i] = t => ~ Active(i),
         request[t] # "stop", status[t] \in {"pending", "failed"},
         ~ \E r \in Runner : RunPhase(r) \/ RunnerStep(r) \/ ResumeResets(r),
         ~ CrashAndRecover
  PROVE  status'[t] = status[t] /\ UNCHANGED runnerVars
<1>1. ASSUME NEW u \in Task, CallStep(u, "phase") \/ CallFaults(u)
      PROVE  status'[t] = status[t] /\ UNCHANGED runnerVars
  <2>1. u # t
    BY <1>1 DEF CallStep, LoadTask, MarkRunning, LaunchTask, LaunchRefused,
       CallFails, CallFaults
  <2> QED
    BY <1>1, <2>1, OrderlyTypes DEF CallStep, LoadTask, MarkRunning, LaunchTask,
       LaunchRefused, CallFails, CallFaults, MarkTaskFailed, dbVars
<1>2. ASSUME NEW u \in Task, \/ UserStops(u) \/ StopReturns(u) \/ StopRecorded(u)
                             \/ UserApproves(u) \/ ApprovalRecorded(u)
      PROVE  status'[t] = status[t] /\ UNCHANGED runnerVars
  BY <1>2, OrderlyTypes DEF UserStops, StopReturns, StopRecorded, UserApproves,
     ApprovalRecorded, UnchangedButManager, dbVars
<1>3. ASSUME NEW i \in Proc, \/ ProcessStep(i) \/ WaiterRejected(i)
                             \/ ToolCheckpoint(i) \/ MonitorDropped(i)
      PROVE  status'[t] = status[t] /\ UNCHANGED runnerVars
  <2>1. CASE RunRecorded(i) \/ ToolCheckpoint(i)
    <3>1. owner[i] # t
      BY <2>1 DEF RunRecorded, ToolCheckpoint, RunOnComplete, Active, Engaged
    <3>2. owner[i] \in Task
      BY <2>1, OwnerKnown, OrderlyTypes
         DEF RunRecorded, ToolCheckpoint, RunOnComplete
    <3> QED
      BY <2>1, <3>1, <3>2, OrderlyTypes
         DEF RunRecorded, ToolCheckpoint, RecordExit, RecordFinal, dbVars
  <2> QED
    BY <1>3, <2>1 DEF ProcessStep, WaiterStarts, StreamStarts, RunExits,
       RunPublished, WaiterRejected, MonitorDropped, UnchangedButManager, dbVars
<1>4. CASE UNCHANGED vars \/ ResumePhase \/ ResumeLoads
  BY <1>4 DEF vars, schedulerVars, dbVars, ResumePhase, ResumeLoads
<1> QED
  BY <1>1, <1>2, <1>3, <1>4, OrderlyStep

LEMMA LaterOpenNext ==
  ASSUME BaseInv, PhaseInv, OrderlySound, [Next]_vars, Orderly',
         NEW t \in Task, Kept(t)'
  PROVE  LaterOpen(t)'
<1> SUFFICES ASSUME NEW r \in Runner, t \in Later(r)'
             PROVE  status'[t] \in {"pending", "failed"}
  BY DEF LaterOpen
<1>1. Orderly /\ Kept(t)
  BY OrderlyBefore
<1>2. /\ pc \in [Runner -> RunnerStates] /\ todo \in [Runner -> SUBSET Task]
      /\ wave \in [Runner -> Nat] /\ status \in [Task -> Statuses]
      /\ Wave \in [Task -> Nat \ {0}]
  BY OrderlyTypes
<1>3. CASE ~ CrashAndRecover /\
           ~ \E q \in Runner : RunPhase(q) \/ RunnerStep(q) \/ ResumeResets(q)
  <2>1. UNCHANGED runnerVars \/ t \notin Later(r)
    BY <1>1, <1>3, LaterFree, FreeRow
  <2>2. t \in Later(r)
    <3>1. UNCHANGED <<todo, wave>>
      <4>1. CASE UNCHANGED vars \/ ResumePhase \/ ResumeLoads
        BY <4>1 DEF vars, schedulerVars, runnerVars, ResumePhase, ResumeLoads
      <4>2. CASE \E u \in Task : \/ CallStep(u, "phase") \/ CallFaults(u)
                                 \/ UserStops(u) \/ StopReturns(u) \/ StopRecorded(u)
                                 \/ UserApproves(u) \/ ApprovalRecorded(u)
        BY <4>2 DEF CallStep, LoadTask, MarkRunning, LaunchTask, LaunchRefused,
           CallFails, CallFaults, UserStops, StopReturns, StopRecorded,
           UserApproves, ApprovalRecorded, UnchangedButManager, runnerVars
      <4>3. CASE \E i \in Proc : \/ ProcessStep(i) \/ WaiterRejected(i)
                                 \/ ToolCheckpoint(i) \/ MonitorDropped(i)
        BY <4>3 DEF ProcessStep, WaiterStarts, StreamStarts, RunExits,
           RunRecorded, RunPublished, WaiterRejected, ToolCheckpoint,
           MonitorDropped, UnchangedButManager, runnerVars
      <4> QED
        BY <1>3, <4>1, <4>2, <4>3, OrderlyStep
    <3> QED
      BY <3>1 DEF Later
  <2> QED
    BY <1>1, <1>3, <2>2, LaterFree, FreeRow
<1>4. CASE CrashAndRecover
  BY <1>4 DEF CrashAndRecover, Later
<1>5. ASSUME NEW q \in Runner, RunPhase(q) \/ RunnerStep(q) \/ ResumeResets(q)
      PROVE  status'[t] \in {"pending", "failed"}
  <2>1. CASE LoadPhase(q)
    <3>1. CASE q = r
      BY <1>2, <2>1, <3>1 DEF LoadPhase, Later
    <3>2. CASE q # r
      <4>1. t \in Later(r) /\ UNCHANGED status
        BY <1>2, <2>1, <3>2 DEF LoadPhase, Later
      <4> QED
        BY <1>1, <4>1 DEF OrderlySound, LaterOpen
    <3> QED
      BY <3>1, <3>2
  <2>2. CASE ~ LoadPhase(q)
    <3>1. t \in Later(r)
      <4>1. CASE StartWave(q)
        <5>1. todo'[r] \subseteq todo[r]
          BY <1>2, <4>1 DEF StartWave, Ahead
        <5>2. r # q => wave'[r] = wave[r]
          BY <1>2, <4>1 DEF StartWave
        <5>3. r = q => todo[r] = Later(r)
          BY <4>1 DEF StartWave, OrderlySound, RunnerSound
        <5> QED
          BY <5>1, <5>2, <5>3 DEF Later
      <4>2. CASE LeavePhase(q)
        <5>1. todo' = todo /\ \A s \in Runner : wave'[s] = wave[s] \/ s = q
          BY <1>2, <4>2 DEF LeavePhase
        <5>2. todo[q] = {}
          BY <4>2 DEF LeavePhase, OrderlySound, RunnerSound
        <5> QED
          BY <5>1, <5>2 DEF Later
      <4>3. CASE ~ StartWave(q) /\ ~ LeavePhase(q)
        <5>1. wave' = wave /\ todo'[r] \subseteq todo[r]
          BY <1>2, <1>5, <2>2, <4>3 DEF RunPhase, ResumeResets, RunnerStep,
             EnterPhase, Subscribe, DrainQueues, PollRows, CheckpointWave,
             AbortWaves, FinalizePhase, AbortTask
        <5> QED
          BY <5>1 DEF Later
      <4> QED
        BY <4>1, <4>2, <4>3
    <3>2. status[t] \in {"pending", "failed"}
      BY <1>1, <3>1 DEF OrderlySound, LaterOpen
    <3>3. status'[t] \in {status[t], "pending", "failed"}
      BY <1>2, <1>5 DEF RunPhase, ResumeResets, RunnerStep,
         EnterPhase, LoadPhase, StartWave, Subscribe, DrainQueues, PollRows,
         CheckpointWave, AbortWaves, FinalizePhase, LeavePhase, AbortTask,
         MarkTaskFailed, dbVars
    <3> QED
      BY <3>2, <3>3
  <2> QED
    BY <2>1, <2>2
<1> QED
  BY <1>3, <1>4, <1>5

(* Who is at work on a tame task is waited for by a runner.                *)
LEMMA WorkMinded ==
  ASSUME BaseInv, PhaseInv, Orderly, OrderlySound, NEW t \in Task, Tame(t),
         \/ call[t]["phase"] # "none"
         \/ \E i \in Proc : owner[i] = t /\ Active(i)
  PROVE  \E r \in Runner : MindedBy(r, t)
BY OrderlyOnly DEF OrderlySound, TaskMinded, Kept, MindedBy, PhaseSound, CallsGathered

(* Nobody goes to work on a task out of the blue.                          *)
LEMMA WorkBegun ==
  ASSUME BaseInv, PhaseInv, [Next]_vars, Orderly', NEW t \in Task,
         NEW i \in Proc, owner'[i] = t, Active(i)'
  PROVE  \/ call[t]["phase"] # "none"
         \/ owner[i] = t /\ Active(i)
<1>1. Orderly /\ ManagerInv /\ ManagerTypeOK
  BY OrderlyBefore, OrderlyTypes
<1>2. PhaseSound /\ \A j \in Proc : carrier[j] = "phase"
  BY <1>1, OrderlyOnly
<1>3. CASE UNCHANGED managerVars
  BY <1>3 DEF managerVars, Active, Engaged
<1>4. ASSUME NEW u \in Task, CallStep(u, "phase")
      PROVE  call[t]["phase"] # "none" \/ (owner[i] = t /\ Active(i))
  <2>1. call[u]["phase"] # "none"
    BY <1>4 DEF CallStep, LoadTask, MarkRunning, LaunchTask, LaunchRefused, CallFails
  <2>2. CASE t # u
    <3>1. owner[i] = t /\ stage'[i] = stage[i] /\ alive'[i] = alive[i]
      <4>1. ASSUME NEW j \in Proc, LaunchTask(j, u, "phase")
            PROVE  owner[i] = t /\ stage'[i] = stage[i] /\ alive'[i] = alive[i]
        BY <1>1, <2>2, <4>1 DEF LaunchTask, StartTask, Enter, Attach, ManagerTypeOK
      <4> QED
        BY <1>4, <4>1 DEF CallStep, LoadTask, MarkRunning, LaunchRefused,
           StartTaskRefused, CallFails, managerVars
    <3> QED
      BY <3>1 DEF Active, Engaged
  <2> QED
    BY <2>1, <2>2
<1>5. ASSUME NEW j \in Proc, \/ ProcessStep(j) \/ WaiterRejected(j)
                             \/ ToolCheckpoint(j) \/ MonitorDropped(j)
      PROVE  owner[i] = t /\ Active(i)
  <2>1. CASE WaiterStarts(j) \/ WaiterRejected(j)
    <3>1. stage[j] = "queued" /\ \A k \in Proc : k # j =>
            owner'[k] = owner[k] /\ stage'[k] = stage[k] /\ alive'[k] = alive[k]
      BY <1>1, <2>1 DEF WaiterStarts, WaiterRejected, SlotGranted,
         SlotGrantedStartRaises, Attach, ManagerTypeOK
    <3>2. owner'[j] \in {owner[j], None}
      BY <1>1, <2>1 DEF WaiterStarts, WaiterRejected, SlotGranted,
         SlotGrantedStartRaises, ManagerTypeOK
    <3> QED
      BY <3>1, <3>2, ManagerAssumption DEF Active, Engaged
  <2>2. CASE ~ WaiterStarts(j) /\ ~ WaiterRejected(j)
    BY <1>1, <1>3, <1>5, <2>2 DEF ProcessStep, StreamStarts, RunExits, RunRecorded, RunPublished,
       ToolCheckpoint, MonitorDropped, MonitorStarts, ProcessExits,
       RunOnComplete, MonitorFinishes, MonitorCancelled, MonitorFinally,
       managerVars, ManagerTypeOK, Active, Engaged
  <2> QED
    BY <2>1, <2>2
<1>6. ASSUME NEW u \in Task, UserStops(u) \/ StopReturns(u)
      PROVE  owner[i] = t /\ Active(i)
  <2>1. CASE UserStops(u)
    <3>1. StopTask(u)
      BY <2>1 DEF UserStops
    <3> QED
      BY <1>1, <3>1, StopDisengages DEF Active, Engaged
  <2>2. CASE StopReturns(u)
    BY <1>1, <2>2 DEF StopReturns, StopFinishes, ManagerTypeOK, Active, Engaged
  <2> QED
    BY <1>6, <2>1, <2>2
<1>7. CASE CrashAndRecover
  BY <1>7 DEF CrashAndRecover, ManagerRestart, Active, Engaged
<1>8. ASSUME NEW r \in Runner, RunPhase(r) \/ RunnerStep(r) \/ ResumeResets(r)
      PROVE  UNCHANGED managerVars
  BY <1>8, RunnerStepManages DEF ResumeResets
<1>9. ASSUME NEW u \in Task, \/ CallFaults(u) \/ StopRecorded(u)
                             \/ UserApproves(u) \/ ApprovalRecorded(u)
      PROVE  UNCHANGED managerVars
  BY <1>9 DEF CallFaults, StopRecorded, UserApproves, ApprovalRecorded
<1>10. CASE UNCHANGED vars \/ ResumePhase \/ ResumeLoads
  BY <1>3, <1>10 DEF vars, schedulerVars, ResumePhase, ResumeLoads
<1> QED
  BY <1>3, <1>4, <1>5, <1>6, <1>7, <1>8, <1>9, <1>10, OrderlyStep

(* The end of a task is published when nobody is left at work on it.       *)
LEMMA WorkUntold ==
  ASSUME BaseInv, PhaseInv, OrderlySound, [Next]_vars, Orderly',
         NEW t \in Task, Kept(t)', NEW i \in Proc, owner'[i] = t, Active(i)'
  PROVE  /\ ~ CallFails(t, "phase")
         /\ \A j \in Proc : RunPublished(j) => owner[j] # t
         /\ ~ StopReturns(t)
<1>1. Orderly /\ ManagerInv /\ ManagerTypeOK /\ TaskSound(t) /\ ServiceInv
  BY OrderlyBefore, OrderlyTypes DEF OrderlySound, BaseInv
<1>2. ASSUME CallFails(t, "phase") PROVE FALSE
  <2>1. call[t]["phase"] \in {"rejected", "faulted"} /\ UNCHANGED managerVars
    BY <1>2 DEF CallFails
  <2>2. owner[i] = t /\ Active(i)
    BY <2>1 DEF managerVars, Active, Engaged
  <2> QED
    BY <1>1, <2>1, <2>2 DEF TaskSound
<1>3. ASSUME NEW j \in Proc, RunPublished(j), owner[j] = t PROVE FALSE
  <2>1. /\ stage[j] = "recorded" /\ UNCHANGED <<owner, alive>>
        /\ stage' = [stage EXCEPT ![j] = "none"]
    BY <1>3 DEF RunPublished, MonitorFinishes, MonitorFinally
  <2>2. ~ alive[j]
    BY <1>1, <2>1 DEF ManagerInv, LifeSound
  <2>3. i # j
    BY <1>1, <2>1, <2>2 DEF Active, Engaged, ManagerTypeOK
  <2>4. Lively(i) /\ Lively(j)
    BY <1>1, <2>1, <2>3 DEF Active, Engaged, Lively, ManagerTypeOK
  <2> QED
    BY <1>1, <1>3, <2>1, <2>3, <2>4 DEF TaskSound
<1>4. ASSUME StopReturns(t) PROVE FALSE
  <2>1. /\ stopping[t] # None /\ UNCHANGED <<owner, stage>>
        /\ alive' = [alive EXCEPT ![stopping[t].proc] = FALSE]
    BY <1>4 DEF StopReturns, StopFinishes
  <2>2. request[t] = "stop"
    BY <1>1, <2>1, OrderlyOnly DEF ServiceInv, Traced, StopsAsked
  <2>3. ~ Engaged(i) /\ alive'[i]
    BY <1>1, <2>1, <2>2 DEF TaskSound, Active, Engaged
  <2>4. alive[i]
    BY <1>1, <2>1, <2>3 DEF ManagerTypeOK
  <2>5. BeingStopped(i)
    BY <1>1, <2>3, <2>4, LivesWorking DEF Engaged, Working
  <2>6. stopping[t].proc = i
    BY <1>1, <2>1, <2>5 DEF BeingStopped, ManagerInv, StopSound
  <2> QED
    BY <1>1, <2>1, <2>3, <2>6 DEF ManagerTypeOK
<1> QED
  BY <1>2, <1>3, <1>4

(* Whoever waits for a task goes on until nobody is at work on it.         *)
LEMMA StaysMinded ==
  ASSUME BaseInv, PhaseInv, OrderlySound, [Next]_vars, Orderly',
         NEW t \in Task, Tame(t)', NEW i \in Proc, owner'[i] = t, Active(i)',
         NEW r \in Runner, MindedBy(r, t)
  PROVE  MindedBy(r, t)'
<1>1. /\ Orderly /\ ManagerInv /\ ManagerTypeOK
      /\ Tame(t) /\ Kept(t) /\ Kept(t)' /\ TaskSound(t)
  BY OrderlyBefore, OrderlyTypes DEF OrderlySound, Kept
<1>2. /\ pc \in [Runner -> RunnerStates] /\ todo \in [Runner -> SUBSET Task]
      /\ wave \in [Runner -> Nat] /\ waiting \in [Runner -> SUBSET Task]
      /\ seenC \in [Runner -> SUBSET Task] /\ seenF \in [Runner -> SUBSET Task]
  BY OrderlyTypes DEF BaseInv, ServiceInv, TypeInv, RowsTyped
<1>3. ASSUME UNCHANGED runnerVars, t \notin seenC'[r] \/ t \in seenC[r],
             t \notin seenF'[r] \/ t \in seenF[r]
      PROVE  MindedBy(r, t)'
  BY <1>3 DEF MindedBy, InWave, runnerVars
<1>4. ASSUME NEW u \in Task, u # t, PublishFailed(u) \/ PublishCompleted(u)
      PROVE  /\ t \notin seenC'[r] \/ t \in seenC[r]
             /\ t \notin seenF'[r] \/ t \in seenF[r]
  BY <1>2, <1>4 DEF PublishFailed, PublishCompleted, Published
<1>5. ASSUME NEW q \in Runner, RunPhase(q) \/ RunnerStep(q) \/ ResumeResets(q)
      PROVE  MindedBy(r, t)'
  <2>1. CASE q # r
    <3>1. pc[q] \in {"idle", "spawned"}
      BY <2>1 DEF BaseInv, OneRunner, MindedBy
    <3>2. RunPhase(q) \/ EnterPhase(q) \/ ResumeResets(q)
      BY <1>5, <3>1 DEF RunnerStep, LoadPhase, StartWave, Subscribe, DrainQueues,
         PollRows, CheckpointWave, AbortWaves, FinalizePhase, LeavePhase, AbortTask
    <3>3. /\ UNCHANGED <<todo, wave, waiting, queueVars>> /\ pc'[r] = pc[r]
      BY <1>2, <2>1, <3>2 DEF RunPhase, EnterPhase, ResumeResets, Goto
    <3> QED
      BY <3>3 DEF MindedBy, InWave, queueVars
  <2>2. CASE q = r
    <3>1. pc[r] \in {"gather", "drain", "poll"}
      BY DEF MindedBy
    <3>2. Subscribe(r) \/ DrainQueues(r) \/ PollRows(r)
      BY <1>5, <2>2, <3>1 DEF RunPhase, ResumeResets, EnterPhase, RunnerStep,
         LoadPhase, StartWave, CheckpointWave, AbortWaves, FinalizePhase,
         LeavePhase, AbortTask
    <3>3. status[t] \notin Done
      <4>1. UNCHANGED managerVars
        BY <1>5, <2>2, RunnerStepManages DEF ResumeResets
      <4>2. owner[i] = t /\ Active(i)
        BY <4>1 DEF managerVars, Active, Engaged
      <4> QED
        BY <1>1, <4>2 DEF TaskSound, RowAtWork, Done, Terminal
    <3>4. t \in InWave(r) /\ InWave(r)' = InWave(r)
      BY <3>2 DEF MindedBy, InWave, Subscribe, DrainQueues, PollRows
    <3>5. CASE Subscribe(r)
      <4>1. t \in waiting'[r] /\ seenC'[r] = {} /\ seenF'[r] = {}
        BY <1>2, <3>3, <3>4, <3>5 DEF Subscribe
      <4> QED
        BY <1>2, <3>4, <3>5, <4>1 DEF Subscribe, Goto, MindedBy
    <3>6. CASE DrainQueues(r)
      <4>1. t \in waiting'[r] /\ seenC'[r] = {} /\ seenF'[r] = {}
        BY <1>2, <3>6 DEF DrainQueues, MindedBy
      <4> QED
        BY <1>2, <3>4, <3>6, <4>1 DEF DrainQueues, Goto, MindedBy
    <3>7. CASE PollRows(r)
      <4>1. t \in waiting'[r] /\ t \notin seenC'[r] \cup seenF'[r]
        BY <1>2, <3>3, <3>7 DEF PollRows, MindedBy
      <4> QED
        BY <1>2, <3>4, <3>7, <4>1 DEF PollRows, Goto, MindedBy
    <3> QED
      BY <3>2, <3>5, <3>6, <3>7
  <2> QED
    BY <2>1, <2>2
<1>6. ASSUME NEW u \in Task, CallStep(u, "phase") \/ CallFaults(u)
      PROVE  MindedBy(r, t)'
  <2>1. CASE CallFails(u, "phase")
    <3>1. u # t /\ PublishFailed(u) /\ UNCHANGED runnerVars
      BY <1>1, <2>1, WorkUntold DEF CallFails, MarkTaskFailed
    <3> QED
      BY <1>3, <1>4, <3>1
  <2>2. CASE ~ CallFails(u, "phase")
    BY <1>3, <1>6, <2>2 DEF CallStep, LoadTask, MarkRunning, LaunchTask,
       LaunchRefused, CallFaults, queueVars
  <2> QED
    BY <2>1, <2>2
<1>7. ASSUME NEW j \in Proc, \/ ProcessStep(j) \/ WaiterRejected(j)
                             \/ ToolCheckpoint(j) \/ MonitorDropped(j)
      PROVE  MindedBy(r, t)'
  <2>1. CASE RunPublished(j)
    <3>1. /\ owner[j] # t /\ UNCHANGED runnerVars /\ stage[j] # "none"
          /\ PublishFailed(owner[j]) \/ PublishCompleted(owner[j])
      BY <1>1, <2>1, WorkUntold DEF RunPublished, MonitorFinishes
    <3>2. owner[j] \in Task
      BY <1>1, <3>1, OwnerKnown
    <3> QED
      BY <1>3, <1>4, <3>1, <3>2
  <2>2. CASE ~ RunPublished(j)
    BY <1>3, <1>7, <2>2 DEF ProcessStep, WaiterStarts, StreamStarts, RunExits,
       RunRecorded, WaiterRejected, ToolCheckpoint, MonitorDropped,
       UnchangedButManager, queueVars
  <2> QED
    BY <2>1, <2>2
<1>8. ASSUME NEW u \in Task, \/ UserStops(u) \/ StopReturns(u) \/ StopRecorded(u)
                             \/ UserApproves(u) \/ ApprovalRecorded(u)
      PROVE  MindedBy(r, t)'
  <2>1. CASE StopReturns(u)
    <3>1. /\ u # t /\ UNCHANGED runnerVars
          /\ PublishFailed(u) \/ UNCHANGED queueVars
      BY <1>1, <2>1, WorkUntold DEF StopReturns
    <3> QED
      BY <1>3, <1>4, <3>1 DEF queueVars
  <2>2. CASE ~ StopReturns(u)
    BY <1>3, <1>8, <2>2 DEF UserStops, StopRecorded, UserApproves,
       ApprovalRecorded, UnchangedButManager, queueVars
  <2> QED
    BY <2>1, <2>2
<1>9. ~ CrashAndRecover
  BY DEF CrashAndRecover, ManagerRestart, Active, Engaged
<1>10. CASE UNCHANGED vars \/ ResumePhase \/ ResumeLoads
  BY <1>3, <1>10 DEF vars, schedulerVars, queueVars, ResumePhase, ResumeLoads
<1> QED
  BY <1>5, <1>6, <1>7, <1>8, <1>9, <1>10, OrderlyStep

LEMMA TaskMindedNext ==
  ASSUME BaseInv, PhaseInv, OrderlySound, [Next]_vars, Orderly', NEW t \in Task
  PROVE  TaskMinded(t)'
<1> SUFFICES ASSUME Tame(t)', NEW i \in Proc, owner'[i] = t, Active(i)'
             PROVE  \E r \in Runner : MindedBy(r, t)'
  BY DEF TaskMinded
<1>1. Orderly /\ Tame(t)
  BY OrderlyBefore
<1>2. PICK r \in Runner : MindedBy(r, t)
  BY <1>1, WorkBegun, WorkMinded
<1> QED
  BY <1>2, StaysMinded

LEMMA NextOrderlyInv ==
  BaseInv /\ PhaseInv /\ OrderlyInv /\ [Next]_vars => OrderlyInv'
<1> SUFFICES ASSUME BaseInv, PhaseInv, OrderlyInv, [Next]_vars, Orderly'
             PROVE  OrderlySound'
  BY DEF OrderlyInv
<1>1. OrderlySound
  BY OrderlyBefore DEF OrderlyInv
<1> QED
  BY <1>1, RunnerSoundNext, TaskSoundNext, LaterOpenNext, TaskMindedNext
     DEF OrderlySound

LEMMA InitOrderlyInv == Init => OrderlyInv
BY DEF Init, SchedulerInit, ManagerInit, OrderlyInv, OrderlySound, RunnerSound,
   TaskSound, LaterOpen, TaskMinded, Later, Lively, Active, Engaged, Working,
   Origin

(* Two processes of a phase are minded by one runner, at one wave.         *)
LEMMA RunsTogether ==
  ASSUME BaseInv, PhaseInv, OrderlyInv
  PROVE  WaveBarrier
<1> SUFFICES ASSUME Orderly, Never({"permission"}),
                    NEW i \in PhaseRuns, NEW j \in PhaseRuns
             PROVE  Wave[owner[i]] = Wave[owner[j]]
  BY DEF WaveBarrier
<1>1. ASSUME NEW k \in PhaseRuns
      PROVE  \E r \in Runner : MindedBy(r, owner[k])
  <2>1. owner[k] \in Task /\ k \in Proc /\ Active(k)
    BY OwnerKnown, OrderlyTypes DEF PhaseRuns, Active
  <2> QED
    BY <2>1, WorkMinded DEF OrderlyInv, Tame
<1>2. PICK r \in Runner : MindedBy(r, owner[i])
  BY <1>1
<1>3. PICK q \in Runner : MindedBy(q, owner[j])
  BY <1>1
<1>4. r = q
  BY <1>2, <1>3 DEF MindedBy, BaseInv, OneRunner
<1> QED
  BY <1>2, <1>3, <1>4 DEF MindedBy, InWave

(* "Waves execute sequentially", whatever the graph of waves, the number   *)
(* of slots and the interleaving: no process of one wave lives on when the *)
(* runner starts the next.                                                 *)
THEOREM WavesSequential == Spec => []WaveBarrier
BY RunsTogether, InitBase, NextBase, InitPhaseInv, NextPhaseInv,
   InitOrderlyInv, NextOrderlyInv, PTL DEF Spec

LEMMA OrderlyStopStays ==
  ASSUME BaseInv, PhaseInv, OrderlyInv, Orderly
  PROVE  CancelledDown
<1> SUFFICES ASSUME NEW i \in Proc, owner[i] \in Task,
                    status[owner[i]] = "cancelled",
                    alive[i] \/ stage[i] = "queued"
             PROVE  FALSE
  BY DEF CancelledDown
<1>1. "stop" \in happened
  BY DEF BaseInv, ServiceInv, Traced, RowsTraced, Cancels, Orderly, Never
<1>2. Kept(owner[i])
  BY <1>1 DEF Orderly, Never, Kept
<1>3. RowAtWork(owner[i])
  BY <1>2 DEF OrderlyInv, OrderlySound, TaskSound, Active, Engaged
<1> QED
  BY <1>3 DEF RowAtWork

(* What a user has stopped stays down: no process of a cancelled task runs *)
(* on, comes back, or waits for a slot to run in.                          *)
THEOREM StoppedStaysDown == Spec => []CancelledStaysDown
<1>1. BaseInv /\ PhaseInv /\ HandInv /\ OrderlyInv => CancelledStaysDown
  <2>1. Never({"phase", "resume", "stop_all", "watchdog", "permission"})
        => ByHand /\ Never({"stop_all"})
    BY DEF Never, ByHand
  <2> QED
    BY <2>1, OrderlyStopStays, HandStopStays DEF CancelledStaysDown
<1> QED
  BY <1>1, InitBase, NextBase, InitPhaseInv, NextPhaseInv, InitHandInv,
     NextHandInv, InitOrderlyInv, NextOrderlyInv, PTL DEF Spec

-----------------------------------------------------------------------------
(* The tasks that nothing reopens once they are over.                      *)
Ours == Task \ Reopened

Settled(t) ==
  status[t] \in {"completed", "cancelled", "awaiting_input"} \/ request[t] = "stop"

(* Somebody takes a task for over.                                         *)
Behind(r, t) ==
  \/ Wave[t] < startWave[r]
  \/ t \in seenC[r]
  \/ pc[r] \in {"ready", "gather", "drain", "poll", "verdict"} /\ t \notin todo[r]
  \/ /\ pc[r] \in {"drain", "poll", "verdict"}
     /\ t \in InWave(r) \ (waiting[r] \cup failed[r])

Over(t) ==
  \/ Wave[t] <= curWave \/ phaseStatus = "complete"
  \/ \E r \in Runner : Behind(r, t)
  \/ resume.stage # "none" /\ Wave[t] < resume.wave
  \/ \E i \in Proc : owner[i] = t /\ stage[i] = "recorded" /\ exitCode[i] # "error"

SettledInv == Orderly => \A t \in Ours : Over(t) => Settled(t)

(* The tasks that stay ours, and what is known of them.                    *)
LEMMA OursOnly ==
  ASSUME BaseInv, PhaseInv, OrderlyInv, [Next]_vars, Orderly',
         NEW t \in Ours'
  PROVE  /\ t \in Ours /\ t \in Task
         /\ Tame(t) /\ Kept(t) /\ Tame(t)' /\ Kept(t)'
         /\ Orderly /\ OrderlySound /\ TaskSound(t) /\ LaterOpen(t) /\ TaskMinded(t)
<1>1. Never({"permission", "crash"})' => Never({"permission", "crash"})
  BY NeverBefore
<1>2. t \in Task /\ t \notin overwritten'
  BY DEF Ours, Reopened
<1>3. t \in Ours
  <2>1. t \notin overwritten
    BY <1>2, ResumeOnly DEF ResumeStep, ResumePhase, ResumeLoads, ResumeResets,
       CrashAndRecover
  <2> QED
    BY <1>1, <1>2, <2>1 DEF Ours, Reopened
<1>4. Tame(t) /\ Tame(t)'
  BY <1>1, <1>2 DEF Ours, Reopened, Tame, Never
<1> QED
  BY <1>2, <1>3, <1>4, OrderlyBefore DEF Kept, OrderlyInv, OrderlySound

(* Nothing reopens a settled task.                                         *)
LEMMA SettledStays ==
  ASSUME BaseInv, PhaseInv, OrderlyInv, [Next]_vars, Orderly',
         NEW t \in Ours', Settled(t)
  PROVE  Settled(t)'
<1>1. /\ t \in Task /\ Tame(t) /\ Orderly /\ OrderlySound
      /\ TaskSound(t) /\ LaterOpen(t)
  BY OursOnly
<1>2. /\ call \in [Task -> [Origin -> CallStates]]
      /\ status \in [Task -> Statuses] /\ request \in [Task -> Requests]
      /\ ManagerInv /\ ManagerTypeOK
  BY OrderlyTypes
<1> DEFINE Out == {"completed", "cancelled", "awaiting_input"}
<1>3. ASSUME status'[t] = status[t] \/ status[t] \notin Out \/ status'[t] \in Out,
             request'[t] = request[t] \/ request[t] # "stop"
      PROVE  Settled(t)'
  BY <1>3 DEF Settled
<1>4. ~ RowAtWork(t) \/ status[t] \notin Out
  BY <1>1 DEF RowAtWork
<1>5. ASSUME NEW r \in Runner, RunPhase(r) \/ RunnerStep(r) \/ ResumeResets(r),
             UNCHANGED <<request, stoppingAll, listed>>
      PROVE  Settled(t)'
  <2>1. ASSUME NEW u \in Task, AbortTask(r, u)
        PROVE  status'[t] = status[t] \/ status[t] \notin Out
    <3>1. /\ pc[r] = "abort" /\ u \in todo[r]
          /\ status' = [status EXCEPT ![u] = "failed"]
      BY <2>1 DEF AbortTask, MarkTaskFailed
    <3>2. CASE u = t
      <4>1. t \in Later(r)
        BY <1>1, <3>1, <3>2 DEF OrderlySound, RunnerSound
      <4> QED
        BY <1>1, <4>1 DEF LaterOpen
    <3>3. CASE u # t
      BY <1>1, <1>2, <3>1, <3>3
    <3> QED
      BY <3>2, <3>3
  <2>2. CASE ResumeResets(r)
    <3>1. status[t] \in Out => t \notin resume.rows
      BY <2>2 DEF ResumeResets, Ours, Reopened, Done, Terminal
    <3> QED
      BY <1>1, <1>3, <1>5, <2>2, <3>1 DEF ResumeResets
  <2>3. CASE RunPhase(r) \/ RunnerStep(r)
    BY <1>3, <1>5, <2>1, <2>3 DEF RunPhase, RunnerStep, EnterPhase, LoadPhase,
       StartWave, Subscribe, DrainQueues, PollRows, CheckpointWave, AbortWaves,
       FinalizePhase, LeavePhase, dbVars, serviceVars, jobVars
  <2> QED
    BY <1>5, <2>2, <2>3
<1>6. ASSUME NEW u \in Task, CallStep(u, "phase") \/ CallFaults(u),
             UNCHANGED <<request, stoppingAll, listed>>
      PROVE  Settled(t)'
  <2>1. status'[t] = status[t] \/ (u = t /\ (MarkRunning(t, "phase") \/ CallFails(t, "phase")))
    BY <1>1, <1>2, <1>6 DEF CallStep, CallFaults, LoadTask, MarkRunning, LaunchTask,
       LaunchRefused, CallFails, MarkTaskFailed, dbVars
  <2>2. MarkRunning(t, "phase") \/ CallFails(t, "phase") => status[t] \notin Out
    BY <1>1, <1>4 DEF MarkRunning, CallFails, TaskSound
  <2> QED
    BY <1>3, <1>6, <2>1, <2>2 DEF serviceVars, jobVars
<1>7. ASSUME NEW i \in Proc, \/ ProcessStep(i) \/ WaiterRejected(i)
                             \/ ToolCheckpoint(i) \/ MonitorDropped(i),
             UNCHANGED <<request, stoppingAll, listed>>
      PROVE  Settled(t)'
  <2>1. CASE RunRecorded(i) \/ ToolCheckpoint(i)
    <3>1. owner[i] \in Task /\ stage[i] = "streaming"
      BY <1>2, <2>1, OwnerKnown DEF RunRecorded, ToolCheckpoint, RunOnComplete
    <3>2. owner[i] # t => status'[t] = status[t]
      BY <1>1, <1>2, <2>1, <3>1
         DEF RunRecorded, ToolCheckpoint, RecordExit, RecordFinal, dbVars
    <3>3. owner[i] = t => status[t] \notin Out
      BY <1>1, <1>4, <3>1 DEF TaskSound, Active, Engaged
    <3> QED
      BY <1>3, <1>7, <3>2, <3>3 DEF serviceVars, jobVars
  <2>2. CASE ~ RunRecorded(i) /\ ~ ToolCheckpoint(i)
    BY <1>3, <1>7, <2>2 DEF ProcessStep, WaiterStarts, StreamStarts, RunExits,
       RunPublished, WaiterRejected, MonitorDropped, UnchangedButManager, dbVars,
       serviceVars, jobVars
  <2> QED
    BY <2>1, <2>2
<1>8. ASSUME NEW u \in Task, UserStops(u) \/ StopReturns(u) \/ UserApproves(u)
      PROVE  Settled(t)'
  <2>1. status' = status
    BY <1>8 DEF UserStops, StopReturns, UserApproves, UnchangedButManager, dbVars
  <2>2. request'[t] = request[t] \/ request[t] # "stop"
    BY <1>1, <1>2, <1>8 DEF UserStops, StopReturns, UserApproves, Idle
  <2> QED
    BY <1>3, <2>1, <2>2
<1>9. ASSUME NEW u \in Task, StopRecorded(u)
      PROVE  Settled(t)'
  <2>1. /\ status' = [status EXCEPT ![u] = "cancelled"]
        /\ request' = [request EXCEPT ![u] = "none"]
    BY <1>9 DEF StopRecorded
  <2>2. CASE u = t
    BY <1>1, <1>2, <2>1, <2>2 DEF Settled
  <2>3. CASE u # t
    BY <1>1, <1>2, <1>3, <2>1, <2>3
  <2> QED
    BY <2>2, <2>3
<1>10. ASSUME NEW u \in Task, ApprovalRecorded(u)
       PROVE  Settled(t)'
  <2>1. u # t
    BY <1>1, <1>10, OrderlyOnly DEF ApprovalRecorded
  <2> QED
    BY <1>1, <1>2, <1>3, <1>10, <2>1 DEF ApprovalRecorded
<1>11. CASE CrashAndRecover
  <2>1. "crash" \in happened' /\ status'[t] = Recovered(t)
    BY <1>1, <1>11 DEF CrashAndRecover, Happens
  <2>2. status[t] # "awaiting_input"
    BY <1>1, <2>1, OrderlyOnly DEF Ours, Reopened, Never
  <2>3. request[t] # "stop"
    <3>1. request[t] = "stop" => "stop" \in happened'
      BY <1>1, HistoryGrows DEF BaseInv, ServiceInv, Traced, RequestsTraced
    <3> QED
      BY <2>1, <3>1 DEF Orderly, Never
  <2> QED
    BY <1>3, <2>1, <2>2, <2>3 DEF Recovered
<1>12. CASE UNCHANGED vars \/ ResumePhase \/ ResumeLoads
  BY <1>3, <1>12 DEF vars, schedulerVars, dbVars, serviceVars, ResumePhase,
     ResumeLoads
<1> QED
  BY <1>5, <1>6, <1>7, <1>8, <1>9, <1>10, <1>11, <1>12, OrderlyStep

(* An exit without error leaves a row that says so.                        *)
LEMMA RecordedSettled ==
  ASSUME BaseInv, PhaseInv, OrderlyInv, [Next]_vars, Orderly',
         NEW t \in Ours', NEW i \in Proc, RunRecorded(i), owner[i] = t,
         exitCode[i] # "error"
  PROVE  Settled(t)'
<1>1. t \in Task /\ Orderly /\ TaskSound(t)
  BY OursOnly
<1>2. stage[i] = "streaming" /\ callbacks[t] = i
  BY <1>1 DEF RunRecorded, RunOnComplete, TaskSound, Working
<1>3. RecordExit(i, t)
  BY <1>2, ManagerAssumption DEF RunRecorded
<1> QED
  BY <1>1, <1>3, OrderlyTypes DEF RecordExit, RecordFinal, Settled

(* What makes a task over: the checkpoint of its wave or the end of the    *)
(* phase...                                                                *)
LEMMA OverByPhase ==
  ASSUME BaseInv, PhaseInv, OrderlyInv, [Next]_vars, Orderly',
         NEW t \in Ours',
         Wave[t] <= curWave' \/ phaseStatus' = "complete"
  PROVE  Over(t) \/ Settled(t)'
<1>1. /\ t \in Task /\ Orderly /\ OrderlySound
      /\ Wave \in [Task -> Nat \ {0}] /\ status \in [Task -> Statuses]
      /\ wave \in [Runner -> Nat] /\ curWave \in Nat /\ startWave \in [Runner -> Nat]
      /\ ManagerInv
  BY OursOnly, OrderlyTypes DEF BaseInv, ServiceInv, TypeInv, RowsTyped
<1>2. CASE UNCHANGED <<curWave, phaseStatus>>
  BY <1>2 DEF Over
<1>3. ASSUME NEW r \in Runner, RunPhase(r) \/ RunnerStep(r) \/ ResumeResets(r)
      PROVE  Over(t)
  <2>1. CASE CheckpointWave(r) /\ Wave[t] <= wave[r]
    <3>1. /\ pc[r] = "verdict" /\ failed[r] = {} /\ waiting[r] = {}
          /\ t \in todo[r] => Wave[t] >= wave[r]
      BY <1>1, <2>1 DEF CheckpointWave, OrderlySound, RunnerSound
    <3>2. t \in todo[r] => t \in InWave(r)
      BY <1>1, <2>1, <3>1 DEF InWave
    <3> QED
      BY <3>1, <3>2 DEF Over, Behind
  <2>2. CASE FinalizePhase(r) /\ phaseStatus' = "complete"
    <3>1. pc[r] = "ready" /\ Ahead(r) = {}
      BY <2>2 DEF FinalizePhase
    <3>2. t \in todo[r] => Wave[t] < startWave[r]
      BY <1>1, <3>1 DEF Ahead
    <3> QED
      BY <3>1, <3>2 DEF Over, Behind
  <2> QED
    BY <1>3, <2>1, <2>2 DEF RunPhase, ResumeResets, RunnerStep, EnterPhase,
       LoadPhase, StartWave, Subscribe, DrainQueues, PollRows, CheckpointWave,
       AbortWaves, FinalizePhase, LeavePhase, AbortTask, MarkTaskFailed, dbVars,
       Over
<1>4. ASSUME NEW i \in Proc, RunRecorded(i), ~ UNCHANGED <<curWave, phaseStatus>>
      PROVE  Over(t) \/ Settled(t)'
  <2>1. PICK final \in {"completed", "awaiting_input", "failed"} : RecordFinal(owner[i], final)
    BY <1>4 DEF RunRecorded, RecordExit, dbVars
  <2>2. owner[i] \in Task
    BY <1>1, <1>4, OwnerKnown DEF RunRecorded, RunOnComplete
  <2>3. /\ curWave' = curWave
        /\ status' = [status EXCEPT ![owner[i]] = final]
        /\ phaseStatus' = "complete" =>
             \/ phaseStatus = "complete"
             \/ /\ final # "failed"
                /\ \A s \in Task \ {owner[i]} : status[s] \in Terminal \ {"failed"}
    BY <2>1 DEF RecordFinal
  <2> QED
    BY <1>1, <2>2, <2>3 DEF Over, Settled, Terminal
<1>5. ASSUME NEW u \in Task, \/ CallStep(u, "phase") \/ CallFaults(u)
                             \/ UserStops(u) \/ StopReturns(u) \/ StopRecorded(u)
                             \/ UserApproves(u) \/ ApprovalRecorded(u)
      PROVE  Over(t)
  BY <1>5 DEF CallStep, CallFaults, LoadTask, MarkRunning, LaunchTask,
     LaunchRefused, CallFails, MarkTaskFailed, dbVars, UserStops, StopReturns,
     StopRecorded, UserApproves, ApprovalRecorded, UnchangedButManager, Over
<1>6. ASSUME NEW i \in Proc, \/ ProcessStep(i) \/ WaiterRejected(i)
                             \/ ToolCheckpoint(i) \/ MonitorDropped(i)
      PROVE  UNCHANGED <<curWave, phaseStatus>> \/ RunRecorded(i)
  BY <1>6 DEF ProcessStep, WaiterStarts, StreamStarts, RunExits,
     RunPublished, WaiterRejected, ToolCheckpoint, MonitorDropped,
     UnchangedButManager, dbVars
<1>7. CASE CrashAndRecover
  BY <1>2, <1>7 DEF CrashAndRecover
<1>8. CASE UNCHANGED vars \/ ResumePhase \/ ResumeLoads
  BY <1>2, <1>8 DEF vars, schedulerVars, dbVars, ResumePhase, ResumeLoads
<1> QED
  BY <1>2, <1>3, <1>4, <1>5, <1>6, <1>7, <1>8, OrderlyStep

(* ...a runner that passes over the task or has seen it complete...        *)
LEMMA OverByRunner ==
  ASSUME BaseInv, PhaseInv, MindedInv, OrderlyInv, [Next]_vars, Orderly',
         NEW t \in Ours', NEW r \in Runner, Behind(r, t)'
  PROVE  Over(t) \/ Settled(t) \/ Settled(t)'
<1>1. /\ t \in Task /\ Tame(t) /\ Kept(t)' /\ Orderly /\ OrderlySound
      /\ TaskSound(t) /\ TaskMinded(t)
      /\ Wave \in [Task -> Nat \ {0}] /\ status \in [Task -> Statuses]
      /\ wave \in [Runner -> Nat] /\ curWave \in Nat /\ startWave \in [Runner -> Nat]
      /\ pc \in [Runner -> RunnerStates] /\ todo \in [Runner -> SUBSET Task]
      /\ waiting \in [Runner -> SUBSET Task] /\ failed \in [Runner -> SUBSET Task]
      /\ seenC \in [Runner -> SUBSET Task] /\ seenF \in [Runner -> SUBSET Task]
      /\ ManagerInv
  BY OursOnly, OrderlyTypes DEF BaseInv, ServiceInv, TypeInv, RowsTyped
<1>2. ASSUME pc'[r] = pc[r], startWave'[r] = startWave[r], wave'[r] = wave[r],
             todo'[r] = todo[r], waiting'[r] = waiting[r], failed'[r] = failed[r],
             t \notin seenC'[r] \/ t \in seenC[r]
      PROVE  Over(t)
  BY <1>2 DEF Over, Behind, InWave
<1>3. ASSUME NEW q \in Runner, q # r, RunPhase(q) \/ RunnerStep(q) \/ ResumeResets(q)
      PROVE  Over(t)
  <2>1. ASSUME NEW u \in Task, AbortTask(q, u)
        PROVE  Over(t)
    BY <1>1, <1>2, <1>3, <2>1
       DEF AbortTask, MarkTaskFailed, PublishFailed
  <2> QED
    BY <1>1, <1>2, <1>3, <2>1 DEF RunPhase, ResumeResets, RunnerStep, EnterPhase,
       LoadPhase, StartWave, Subscribe, DrainQueues, PollRows, CheckpointWave,
       AbortWaves, FinalizePhase, LeavePhase, Goto, queueVars
<1>4. CASE RunPhase(r) \/ ResumeResets(r) \/ EnterPhase(r) \/ LeavePhase(r)
  <2>1. /\ UNCHANGED <<todo, waiting, failed, seenC>>
        /\ pc'[r] \in {"idle", "spawned", "entered"}
        /\ \/ startWave'[r] \in {0, 1, startWave[r]}
           \/ resume.stage # "none" /\ startWave'[r] = resume.wave
    BY <1>1, <1>4 DEF RunPhase, ResumeResets, EnterPhase, LeavePhase, Goto, queueVars
  <2>2. \/ t \in seenC[r] \/ Wave[t] < startWave[r]
        \/ resume.stage # "none" /\ Wave[t] < resume.wave
    BY <1>1, <2>1 DEF Behind
  <2> QED
    BY <2>2 DEF Over, Behind
<1>5. CASE LoadPhase(r)
  <2>1. /\ pc[r] = "entered" /\ UNCHANGED <<startWave, seenC>>
        /\ pc'[r] = "ready"
        /\ t \in todo'[r] <=> status[t] \in {"pending", "failed"}
    BY <1>1, <1>5 DEF LoadPhase, Goto, queueVars
  <2>2. CASE t \in seenC[r] \/ Wave[t] < startWave[r]
    BY <2>2 DEF Over, Behind
  <2>3. CASE status[t] \in {"completed", "cancelled", "awaiting_input"}
    BY <2>3 DEF Settled
  <2>4. CASE status[t] = "running"
    <3>1. call[t]["phase"] = "none"
      BY <1>1, <2>1, NobodyGathers, OrderlyOnly DEF PhaseSound
    <3>2. ASSUME NEW i \in Proc, owner[i] = t, Working(i)
          PROVE  FALSE
      <4>1. \E q \in Runner : MindedBy(q, t)
        BY <1>1, <3>2, WorkMinded DEF Active, Engaged, Working
      <4> QED
        BY <2>1, <4>1 DEF MindedBy, BaseInv, OneRunner
    <3>3. RowMinded(t)
      BY <1>1 DEF Orderly, MindedInv, ByPhase, RowsMinded, Never
    <3>4. request[t] = "stop"
      BY <1>1, <2>4, <3>1, <3>2, <3>3, OrderlyOnly DEF RowMinded, AllStops
    <3> QED
      BY <3>4 DEF Settled
  <2> QED
    BY <1>1, <2>1, <2>2, <2>3, <2>4 DEF Behind, Statuses, Done, Terminal
<1>6. CASE StartWave(r)
  <2>1. /\ pc[r] = "ready" /\ pc'[r] = "gather" /\ UNCHANGED <<startWave, seenC>>
        /\ todo'[r] = Ahead(r)
    BY <1>1, <1>6 DEF StartWave, Goto, queueVars
  <2>2. \/ t \in seenC[r] \/ Wave[t] < startWave[r] \/ t \notin Ahead(r)
    BY <2>1 DEF Behind
  <2>3. t \in todo[r] \ Ahead(r) => Wave[t] < startWave[r]
    BY <1>1 DEF Ahead
  <2> QED
    BY <2>1, <2>2, <2>3 DEF Over, Behind
<1>7. CASE Subscribe(r)
  <2>1. /\ pc[r] = "gather" /\ UNCHANGED <<startWave, todo, wave, status>>
        /\ seenC'[r] = {}
        /\ waiting'[r] = {u \in InWave(r) : status[u] \notin Done}
        /\ failed'[r] = {u \in InWave(r) : status[u] = "failed"}
    BY <1>1, <1>7 DEF Subscribe, dbVars
  <2>2. \/ Wave[t] < startWave[r] \/ t \notin todo[r]
        \/ t \in InWave(r) \ (waiting'[r] \cup failed'[r])
    BY <2>1 DEF Behind, InWave
  <2>3. t \in InWave(r) \ (waiting'[r] \cup failed'[r]) => Settled(t)
    BY <2>1 DEF Settled, Done, Terminal
  <2> QED
    BY <2>1, <2>2, <2>3 DEF Over, Behind
<1>8. CASE DrainQueues(r)
  <2>1. /\ pc[r] = "drain" /\ UNCHANGED <<startWave, todo, wave>>
        /\ seenC'[r] = {}
        /\ waiting'[r] = waiting[r] \ (seenC[r] \cup seenF[r])
        /\ failed'[r] = failed[r] \cup ((waiting[r] \cap seenF[r]) \ seenC[r])
    BY <1>1, <1>8 DEF DrainQueues
  <2>2. \/ Wave[t] < startWave[r] \/ t \notin todo[r]
        \/ t \in InWave(r) \ (waiting'[r] \cup failed'[r])
    BY <2>1 DEF Behind, InWave
  <2>3. t \in InWave(r) \ (waiting'[r] \cup failed'[r]) =>
          t \in seenC[r] \/ t \in InWave(r) \ (waiting[r] \cup failed[r])
    BY <2>1
  <2> QED
    BY <2>1, <2>2, <2>3 DEF Over, Behind
<1>9. CASE PollRows(r)
  <2>1. /\ pc[r] = "poll" /\ UNCHANGED <<startWave, todo, wave>>
        /\ seenC'[r] \subseteq seenC[r]
        /\ waiting'[r] = waiting[r] \ {u \in waiting[r] : status[u] \in Done}
        /\ failed'[r] = failed[r] \cup
             {u \in {v \in waiting[r] : status[v] \in Done} : status[u] = "failed"}
    BY <1>1, <1>9 DEF PollRows
  <2>2. \/ Wave[t] < startWave[r] \/ t \notin todo[r] \/ t \in seenC[r]
        \/ t \in InWave(r) \ (waiting'[r] \cup failed'[r])
    BY <2>1 DEF Behind, InWave
  <2>3. t \in InWave(r) \ (waiting'[r] \cup failed'[r]) =>
          \/ t \in InWave(r) \ (waiting[r] \cup failed[r])
          \/ status[t] \in Done \ {"failed"}
    BY <2>1
  <2> QED
    BY <2>1, <2>2, <2>3 DEF Over, Behind, Settled, Done, Terminal
<1>10. CASE CheckpointWave(r)
  <2>1. /\ pc[r] = "verdict" /\ pc'[r] = "ready" /\ UNCHANGED <<startWave, seenC>>
        /\ failed[r] = {} /\ waiting[r] = {}
        /\ todo'[r] = {u \in todo[r] : Wave[u] > wave[r]}
        /\ \A u \in todo[r] : Wave[u] >= wave[r]
    BY <1>1, <1>10 DEF CheckpointWave, Goto, queueVars, OrderlySound, RunnerSound
  <2>2. t \in todo[r] \ todo'[r] => t \in InWave(r)
    BY <1>1, <2>1 DEF InWave
  <2>3. \/ Wave[t] < startWave[r] \/ t \notin todo'[r] \/ t \in seenC[r]
    BY <2>1 DEF Behind
  <2> QED
    BY <2>1, <2>2, <2>3 DEF Over, Behind
<1>11. CASE AbortWaves(r) \/ FinalizePhase(r) \/ \E u \in Task : AbortTask(r, u)
  <2>1. /\ pc'[r] \in {"abort", "leaving"} /\ UNCHANGED <<startWave, seenC>>
    <3>1. ASSUME NEW u \in Task, AbortTask(r, u)
          PROVE  pc'[r] = "abort" /\ UNCHANGED <<startWave, seenC>>
      BY <3>1 DEF AbortTask, MarkTaskFailed, PublishFailed
    <3> QED
      BY <1>1, <1>11, <3>1 DEF AbortWaves, FinalizePhase, Goto, queueVars
  <2>2. Wave[t] < startWave[r] \/ t \in seenC[r]
    BY <2>1 DEF Behind
  <2> QED
    BY <2>2 DEF Over, Behind
<1>12. ASSUME UNCHANGED runnerVars, seenC' = seenC
       PROVE  Over(t)
  BY <1>2, <1>12 DEF runnerVars
<1>13. ASSUME NEW u \in Task, \/ CallStep(u, "phase") \/ CallFaults(u)
                              \/ UserStops(u) \/ StopReturns(u) \/ StopRecorded(u)
                              \/ UserApproves(u) \/ ApprovalRecorded(u)
       PROVE  Over(t)
  BY <1>12, <1>13 DEF CallStep, CallFaults, LoadTask, MarkRunning, LaunchTask,
     LaunchRefused, CallFails, MarkTaskFailed, PublishFailed, queueVars,
     UserStops, StopReturns, StopRecorded, UserApproves, ApprovalRecorded,
     UnchangedButManager
<1>14. ASSUME NEW i \in Proc, RunPublished(i)
       PROVE  Over(t)
  <2>1. /\ stage[i] = "recorded" /\ UNCHANGED runnerVars
        /\ \/ UNCHANGED seenC
           \/ exitCode[i] # "error" /\ seenC' = Published(seenC, owner[i])
    BY <1>14 DEF RunPublished, MonitorFinishes, PublishFailed, PublishCompleted
  <2>2. CASE t = owner[i] /\ exitCode[i] # "error"
    BY <2>1, <2>2 DEF Over
  <2>3. CASE t # owner[i] /\ seenC' = Published(seenC, owner[i])
    BY <1>1, <1>2, <2>1, <2>3 DEF Published, runnerVars
  <2> QED
    BY <1>12, <2>1, <2>2, <2>3
<1>15. ASSUME NEW i \in Proc, ~ RunPublished(i),
              \/ ProcessStep(i) \/ WaiterRejected(i)
              \/ ToolCheckpoint(i) \/ MonitorDropped(i)
       PROVE  Over(t)
  BY <1>12, <1>15 DEF ProcessStep, WaiterStarts, StreamStarts, RunExits,
     RunRecorded, WaiterRejected, ToolCheckpoint, MonitorDropped,
     UnchangedButManager, queueVars
<1>16. ~ CrashAndRecover
  BY <1>1 DEF CrashAndRecover, Behind
<1>17. CASE UNCHANGED vars \/ ResumePhase \/ ResumeLoads
  BY <1>12, <1>17 DEF vars, schedulerVars, queueVars, ResumePhase, ResumeLoads
<1>18. ASSUME RunPhase(r) \/ RunnerStep(r) \/ ResumeResets(r)
       PROVE  Over(t) \/ Settled(t) \/ Settled(t)'
  BY <1>4, <1>5, <1>6, <1>7, <1>8, <1>9, <1>10, <1>11, <1>18 DEF RunnerStep
<1> QED
  BY <1>3, <1>13, <1>14, <1>15, <1>16, <1>17, <1>18, OrderlyStep

(* ...or the exit of its process.                                          *)
LEMMA OverByProcess ==
  ASSUME BaseInv, PhaseInv, OrderlyInv, [Next]_vars, Orderly',
         NEW t \in Ours', NEW i \in Proc, owner'[i] = t,
         stage'[i] = "recorded", exitCode'[i] # "error"
  PROVE  Over(t) \/ Settled(t)'
<1>1. t \in Task /\ Orderly /\ ManagerInv /\ ManagerTypeOK
  BY OursOnly, OrderlyTypes
<1>2. stage[i] = "recorded" => ~ alive[i]
  BY <1>1 DEF ManagerInv, LifeSound
<1>3. CASE UNCHANGED managerVars
  BY <1>3 DEF managerVars, Over
<1>4. ASSUME stage[i] = "recorded", owner'[i] = owner[i], exitCode'[i] = exitCode[i]
      PROVE  Over(t)
  BY <1>4 DEF Over
<1>5. ASSUME NEW j \in Proc, NEW u \in Task, LaunchTask(j, u, "phase")
      PROVE  Over(t)
  <2>1. stage[i] = "recorded" /\ i # j /\ owner'[i] = owner[i] /\ exitCode'[i] = exitCode[i]
    BY <1>1, <1>5 DEF LaunchTask, StartTask, Enter, Attach, ManagerTypeOK
  <2> QED
    BY <1>4, <2>1
<1>6. ASSUME NEW j \in Proc, \/ ProcessStep(j) \/ WaiterRejected(j)
                             \/ ToolCheckpoint(j) \/ MonitorDropped(j)
      PROVE  Over(t) \/ Settled(t)'
  <2>1. CASE RunRecorded(j) /\ j = i
    <3>1. owner[i] = t /\ exitCode[i] # "error"
      BY <2>1 DEF RunRecorded, RunOnComplete
    <3> QED
      BY <2>1, <3>1, RecordedSettled
  <2>2. CASE RunRecorded(j) /\ j # i
    BY <1>1, <1>4, <2>2 DEF RunRecorded, RunOnComplete, ManagerTypeOK
  <2>3. CASE WaiterStarts(j) \/ WaiterRejected(j)
    <3>1. stage[i] = "recorded" /\ owner'[i] = owner[i] /\ exitCode'[i] = exitCode[i]
      BY <1>1, <2>3 DEF WaiterStarts, WaiterRejected, SlotGranted,
         SlotGrantedStartRaises, Attach, ManagerTypeOK
    <3> QED
      BY <1>4, <3>1
  <2>4. CASE StreamStarts(j) \/ RunExits(j) \/ RunPublished(j) \/ MonitorDropped(j)
    <3>1. stage[i] = "recorded" /\ owner'[i] = owner[i] /\ exitCode'[i] = exitCode[i]
      BY <1>1, <1>2, <2>4 DEF StreamStarts, RunExits, RunPublished, MonitorDropped,
         MonitorStarts, ProcessExits, MonitorFinishes, MonitorCancelled,
         MonitorFinally, ManagerTypeOK
    <3> QED
      BY <1>4, <3>1
  <2>5. CASE ToolCheckpoint(j)
    BY <1>3, <2>5 DEF ToolCheckpoint
  <2> QED
    BY <1>6, <2>1, <2>2, <2>3, <2>4, <2>5 DEF ProcessStep
<1>7. ASSUME NEW u \in Task, UserStops(u)
      PROVE  Over(t)
  <2>1. /\ UNCHANGED <<owner, exitCode>>
        /\ \A k \in Proc : stage'[k] \in {stage[k], "leaked", "cancelled"}
    BY <1>1, <1>7 DEF UserStops, StopTask, ManagerTypeOK
  <2> QED
    BY <1>4, <2>1
<1>8. ASSUME NEW u \in Task, StopReturns(u)
      PROVE  Over(t)
  BY <1>4, <1>8 DEF StopReturns, StopFinishes
<1>9. ASSUME NEW u \in Task, CallStep(u, "phase"),
             ~ \E j \in Proc : LaunchTask(j, u, "phase")
      PROVE  Over(t)
  <2>1. UNCHANGED <<stage, owner, exitCode>>
    BY <1>9 DEF CallStep, LoadTask, MarkRunning, LaunchRefused,
       StartTaskRefused, CallFails, managerVars
  <2> QED
    BY <1>4, <2>1
<1>10. ASSUME NEW u \in Task, \/ CallFaults(u) \/ StopRecorded(u)
                              \/ UserApproves(u) \/ ApprovalRecorded(u)
       PROVE  UNCHANGED managerVars
  BY <1>10 DEF CallFaults, StopRecorded, UserApproves, ApprovalRecorded
<1>11. ASSUME NEW r \in Runner, RunPhase(r) \/ RunnerStep(r) \/ ResumeResets(r)
       PROVE  UNCHANGED managerVars
  BY <1>11, RunnerStepManages DEF ResumeResets
<1>12. ~ CrashAndRecover
  BY DEF CrashAndRecover, ManagerRestart
<1>13. CASE UNCHANGED vars \/ ResumePhase \/ ResumeLoads
  BY <1>3, <1>13 DEF vars, schedulerVars, ResumePhase, ResumeLoads
<1> QED
  BY <1>3, <1>5, <1>6, <1>7, <1>8, <1>9, <1>10, <1>11, <1>12, <1>13, OrderlyStep

(* ...or the checkpoint that a resume in flight has read.                  *)
LEMMA OverByResume ==
  ASSUME BaseInv, [Next]_vars, NEW t \in Task,
         resume'.stage # "none", Wave[t] < resume'.wave
  PROVE  Over(t)
<1>1. /\ Wave[t] \in Nat /\ curWave \in Nat
      /\ resume \in [stage : {"none", "phase", "tasks"}, wave : Nat, rows : SUBSET Task]
  BY OrderlyTypes DEF BaseInv, ServiceInv, TypeInv, RowsTyped
<1>2. CASE ResumePhase
  <2>1. Wave[t] < curWave + 1
    BY <1>2 DEF ResumePhase
  <2> QED
    BY <1>1, <2>1 DEF Over
<1>3. CASE ResumeLoads
  <2>1. resume.stage = "phase" /\ resume'.wave = resume.wave
    BY <1>1, <1>3 DEF ResumeLoads, NoResume
  <2> QED
    BY <2>1 DEF Over
<1>4. resume' # NoResume
  BY DEF NoResume
<1>5. ~ CrashAndRecover /\ \A r \in Runner : ~ ResumeResets(r)
  BY <1>4 DEF CrashAndRecover, ResumeResets
<1>6. CASE UNCHANGED <<resume, overwritten>>
  BY <1>6 DEF Over
<1> QED
  BY <1>2, <1>3, <1>5, <1>6, ResumeOnly DEF ResumeStep

LEMMA NextSettledInv ==
  BaseInv /\ PhaseInv /\ MindedInv /\ OrderlyInv /\ SettledInv /\ [Next]_vars
  => SettledInv'
<1> SUFFICES ASSUME BaseInv, PhaseInv, MindedInv, OrderlyInv, SettledInv,
                    [Next]_vars, Orderly', NEW t \in Ours', Over(t)'
             PROVE  Settled(t)'
  BY DEF SettledInv
<1>1. Over(t) \/ Settled(t) \/ Settled(t)'
  <2>1. t \in Task
    BY OursOnly
  <2> QED
    BY <2>1, OverByPhase, OverByRunner, OverByResume, OverByProcess DEF Over
<1>2. Over(t) => Settled(t)
  BY OursOnly DEF SettledInv
<1> QED
  BY <1>1, <1>2, SettledStays

LEMMA InitSettledInv == Init => SettledInv
<1> SUFFICES ASSUME Init, NEW t \in Ours
             PROVE  ~ Over(t)
  BY DEF SettledInv
<1>1. t \in Task /\ Wave[t] \in Nat \ {0}
  BY SchedulerAssumption DEF Ours
<1>2. /\ phaseStatus = "not_started" /\ curWave = 0
      /\ \A i \in Proc : stage[i] = "none"
      /\ \A r \in Runner : pc[r] = "idle" /\ startWave[r] = 0 /\ seenC[r] = {}
      /\ resume.stage = "none"
  BY DEF Init, SchedulerInit, ManagerInit, NoResume
<1> QED
  BY <1>1, <1>2 DEF Over, Behind

(* A checkpoint never runs ahead of the work: what lies behind             *)
(* current_wave is over, so a resume passes over nothing; but for the rows *)
(* that a resume has put back over their end.                              *)
THEOREM CheckpointsSound == Spec => []CheckpointSound
<1>1. SettledInv => CheckpointSound
  BY DEF SettledInv, Settled, Over, Ours, CheckpointSound, Done, Terminal
<1> QED
  BY <1>1, InitBase, NextBase, InitPhaseInv, NextPhaseInv, InitMindedInv,
     NextMindedInv, InitOrderlyInv, NextOrderlyInv, InitSettledInv,
     NextSettledInv, PTL DEF Spec

(* A phase that says complete has no task left, whichever of its two       *)
(* writers, the runner or the callback of the last task, said so; but for  *)
(* the rows that a resume has put back over their end.                     *)
THEOREM CompleteIsDone == Spec => []CompleteMeansDone
<1>1. SettledInv => CompleteMeansDone
  BY DEF SettledInv, Settled, Over, Ours, CompleteMeansDone, Done, Terminal
<1> QED
  BY <1>1, InitBase, NextBase, InitPhaseInv, NextPhaseInv, InitMindedInv,
     NextMindedInv, InitOrderlyInv, NextOrderlyInv, InitSettledInv,
     NextSettledInv, PTL DEF Spec
=============================================================================
