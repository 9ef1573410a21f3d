--------------------------- MODULE ProcessManager ---------------------------
(***************************************************************************)
(* The process registry and concurrency gate of taktis/core/manager.py.    *)
(*                                                                         *)
(* The program is one asyncio event loop, so a step of this module is the  *)
(* code one coroutine runs between two suspensions.  In particular         *)
(*   - EventBus.publish and SDKProcess.start never suspend, hence taking a *)
(*     free slot, starting, registering and spawning the monitor is one    *)
(*     step;                                                               *)
(*   - a start that finds no free slot suspends in semaphore.acquire()     *)
(*     after it has passed the duplicate check.                            *)
(*                                                                         *)
(* A Proc is an SDKProcess object together with the start_task or          *)
(* continue_task call that carries it and the monitor task it ends up      *)
(* with.  The set is finite: it bounds how many can exist at once.         *)
(***************************************************************************)
EXTENDS Integers, Sequences, FiniteSets

CONSTANTS Task,           \* task ids
          Proc,           \* process objects that can exist at the same time
          MaxConcurrent,  \* permits of the semaphore
          Stoppable,      \* the tasks somebody may stop
          None            \* an absent registry entry

ASSUME ManagerAssumption ==
  /\ IsFiniteSet(Proc)
  /\ MaxConcurrent \in Nat \ {0}
  /\ Stoppable \subseteq Task
  /\ None \notin Proc /\ None \notin Task
  /\ None \notin [proc : Proc, monitored : BOOLEAN]

VARIABLES
  stage,        \* where the call / the monitor of a process stands
  alive,        \* SDKProcess.is_running
  exitCode,     \* SDKProcess.exit_code, once it has exited by itself
  owner,        \* the task id a process was created for
  permits,      \* value of the semaphore
  waiters,      \* calls suspended in semaphore.acquire(), in FIFO order
  processes,    \* _processes
  outputTasks,  \* _output_tasks: the monitor registered for a task
  callbacks,    \* _on_output/_on_complete: whose closures are registered
  stopping,     \* a stop_task call in flight for a task
  terminal      \* observation: terminal events published for a process

managerVars == <<stage, alive, exitCode, owner, permits, waiters, processes,
                 outputTasks, callbacks, stopping, terminal>>

(* none      no call and no monitor (never used, or the monitor finished)  *)
(* queued    suspended in semaphore.acquire()                              *)
(* fresh     monitor task created, its first step has not run              *)
(* streaming monitor inside its try block, reading the process output      *)
(* recorded  on_complete has returned, the terminal event is not out yet   *)
(* cancelled monitor cancelled inside its try block, finally not run yet   *)
(* leaked    monitor cancelled before its first step: finally never runs   *)
Stages == {"none", "queued", "fresh", "streaming", "recorded", "cancelled",
           "leaked"}

(* The stages in which a permit is held. *)
Holding == {"fresh", "streaming", "recorded", "cancelled", "leaked"}

ExitCodes == {"none", "ok", "error"}

StopCall == [proc : Proc, monitored : BOOLEAN]

BeingStopped(i) == \E t \in Task : stopping[t] # None /\ stopping[t].proc = i

(* A process object the program has not created yet (or has dropped). *)
Unused(i) == stage[i] = "none" /\ ~ alive[i] /\ ~ BeingStopped(i)

ManagerInit ==
  /\ stage = [i \in Proc |-> "none"]
  /\ alive = [i \in Proc |-> FALSE]
  /\ exitCode = [i \in Proc |-> "none"]
  /\ owner = [i \in Proc |-> None]
  /\ permits = MaxConcurrent
  /\ waiters = <<>>
  /\ processes = [t \in Task |-> None]
  /\ outputTasks = [t \in Task |-> None]
  /\ callbacks = [t \in Task |-> None]
  /\ stopping = [t \in Task |-> None]
  /\ terminal = [i \in Proc |-> 0]
-----------------------------------------------------------------------------
(* What a call does once it has its slot: process.start(), registration    *)
(* and creation of the monitor, without a suspension in between.           *)
Attach(i, t) ==
  /\ alive' = [alive EXCEPT ![i] = TRUE]
  /\ exitCode' = [exitCode EXCEPT ![i] = "none"]
  /\ processes' = [processes EXCEPT ![t] = i]
  /\ outputTasks' = [outputTasks EXCEPT ![t] = i]

(* Seeded bug: nobody looks at the value of the semaphore. *)
SlotAlwaysFree == waiters = <<>>

(* semaphore.acquire() succeeds at once only if nobody is queued. *)
SlotFree == permits > 0 /\ waiters = <<>>

(* Takes a slot for a new call, or queues it. *)
Enter(i, t) ==
  /\ owner' = [owner EXCEPT ![i] = t]
  /\ terminal' = [terminal EXCEPT ![i] = 0]
  /\ callbacks' = [callbacks EXCEPT ![t] = i]
  /\ \/ /\ SlotFree
        /\ permits' = permits - 1
        /\ stage' = [stage EXCEPT ![i] = "fresh"]
        /\ Attach(i, t)
        /\ UNCHANGED waiters
     \/ /\ ~ SlotFree
        /\ waiters' = Append(waiters, i)
        /\ stage' = [stage EXCEPT ![i] = "queued"]
        /\ UNCHANGED <<permits, alive, exitCode, processes, outputTasks>>

(* Seeded bug: start_task without the duplicate check. *)
StartTaskUnchecked(i, t) ==
  /\ Unused(i)
  /\ Enter(i, t)
  /\ UNCHANGED stopping

(* register_callbacks and start_task, called in one go by execute_task. *)
StartTask(i, t) ==
  /\ Unused(i)
  /\ processes[t] = None
  /\ Enter(i, t)
  /\ UNCHANGED stopping

(* The same call refused with "already exists", or process.start() raising *)
(* with a slot at hand (the permit goes back at once).  execute_task has   *)
(* registered its callbacks under the id and now unregisters whatever is   *)
(* there.                                                                  *)
StartTaskRefused(t) ==
  /\ processes[t] # None \/ SlotFree
  /\ callbacks' = [callbacks EXCEPT ![t] = None]
  /\ UNCHANGED <<stage, alive, exitCode, owner, permits, waiters, processes,
                 outputTasks, stopping, terminal>>

(* continue_task overwrites the callbacks and never looks at _processes. *)
ContinueTask(i, t) ==
  /\ Unused(i)
  /\ Enter(i, t)
  /\ UNCHANGED stopping

(* The first waiter gets the permit a monitor gave back. *)
SlotGranted(i) ==
  /\ permits > 0 /\ waiters # <<>> /\ Head(waiters) = i
  /\ stage[i] = "queued"
  /\ permits' = permits - 1
  /\ waiters' = Tail(waiters)
  /\ stage' = [stage EXCEPT ![i] = "fresh"]
  /\ Attach(i, owner[i])
  /\ UNCHANGED <<owner, callbacks, stopping, terminal>>

(* Seeded bug: the permit is not released when process.start() raises. *)
StartRaisesKeepsSlot(i) ==
  /\ permits > 0 /\ waiters # <<>> /\ Head(waiters) = i
  /\ stage[i] = "queued"
  /\ permits' = permits - 1
  /\ waiters' = Tail(waiters)
  /\ stage' = [stage EXCEPT ![i] = "none"]
  /\ owner' = [owner EXCEPT ![i] = None]
  /\ callbacks' = [callbacks EXCEPT ![owner[i]] = None]
  /\ UNCHANGED <<alive, exitCode, processes, outputTasks, stopping, terminal>>

(* The same waiter, but process.start() raises: release and re-raise. *)
SlotGrantedStartRaises(i) ==
  /\ permits > 0 /\ waiters # <<>> /\ Head(waiters) = i
  /\ stage[i] = "queued"
  /\ waiters' = Tail(waiters)
  /\ stage' = [stage EXCEPT ![i] = "none"]
  /\ owner' = [owner EXCEPT ![i] = None]
  /\ callbacks' = [callbacks EXCEPT ![owner[i]] = None]
  /\ UNCHANGED <<alive, exitCode, permits, processes, outputTasks, stopping,
                 terminal>>
-----------------------------------------------------------------------------
(* _monitor_output *)
MonitorStarts(i) ==
  /\ stage[i] = "fresh"
  /\ stage' = [stage EXCEPT ![i] = "streaming"]
  /\ UNCHANGED <<alive, exitCode, owner, permits, waiters, processes,
                 outputTasks, callbacks, stopping, terminal>>

(* The SDK run ends: _is_running is cleared, the EOF marker enqueued. *)
ProcessExits(i) ==
  /\ alive[i]
  /\ alive' = [alive EXCEPT ![i] = FALSE]
  /\ \E c \in {"ok", "error"} : exitCode' = [exitCode EXCEPT ![i] = c]
  /\ UNCHANGED <<stage, owner, permits, waiters, processes, outputTasks,
                 callbacks, stopping, terminal>>

(* The monitor has read EOF and run the registered on_complete, if any. *)
RunOnComplete(i) ==
  /\ stage[i] = "streaming" /\ ~ alive[i]
  /\ stage' = [stage EXCEPT ![i] = "recorded"]
  /\ UNCHANGED <<alive, exitCode, owner, permits, waiters, processes,
                 outputTasks, callbacks, stopping, terminal>>

(* Seeded bug: a finally block without the release. *)
FinallyKeepsSlot(i) ==
  /\ processes' = [processes EXCEPT ![owner[i]] = None]
  /\ outputTasks' = [outputTasks EXCEPT ![owner[i]] = None]
  /\ callbacks' = [callbacks EXCEPT ![owner[i]] = None]
  /\ stage' = [stage EXCEPT ![i] = "none"]
  /\ UNCHANGED permits

(* The monitor's finally block: every entry under the task id goes, whose  *)
(* ever it is by now.                                                      *)
MonitorFinally(i) ==
  /\ permits' = permits + 1
  /\ processes' = [processes EXCEPT ![owner[i]] = None]
  /\ outputTasks' = [outputTasks EXCEPT ![owner[i]] = None]
  /\ callbacks' = [callbacks EXCEPT ![owner[i]] = None]
  /\ stage' = [stage EXCEPT ![i] = "none"]

(* The terminal event and the finally block, one step. *)
MonitorFinishes(i) ==
  /\ stage[i] = "recorded"
  /\ terminal' = [terminal EXCEPT ![i] = @ + 1]
  /\ MonitorFinally(i)
  /\ UNCHANGED <<alive, exitCode, owner, waiters, stopping>>

(* CancelledError reaches a monitor inside its try block: no event. *)
MonitorCancelled(i) ==
  /\ stage[i] = "cancelled"
  /\ MonitorFinally(i)
  /\ UNCHANGED <<alive, exitCode, owner, waiters, stopping, terminal>>
-----------------------------------------------------------------------------
(* stop_task up to its first suspension: the monitor leaves _output_tasks  *)
(* and is cancelled.  Bound: one stop in flight per task.                  *)
StopTask(t) ==
  /\ t \in Stoppable
  /\ processes[t] # None
  /\ stopping[t] = None
  /\ LET m == outputTasks[t] IN
       /\ stopping' = [stopping EXCEPT ![t] =
                         [proc |-> processes[t], monitored |-> m # None]]
       /\ stage' = IF m = None THEN stage
                   ELSE [stage EXCEPT ![m] = IF @ = "fresh" THEN "leaked"
                                             ELSE "cancelled"]
  /\ outputTasks' = [outputTasks EXCEPT ![t] = None]
  /\ UNCHANGED <<alive, exitCode, owner, permits, waiters, processes,
                 callbacks, terminal>>

(* Seeded bug: stop_task publishes although the monitor has done so. *)
StopAlwaysTells(t) ==
  /\ stopping[t] # None
  /\ LET p == stopping[t].proc IN
       /\ stage[p] # "cancelled"
       /\ alive' = [alive EXCEPT ![p] = FALSE]
       /\ terminal' = [terminal EXCEPT ![p] = @ + 1]
  /\ stopping' = [stopping EXCEPT ![t] = None]
  /\ UNCHANGED <<stage, exitCode, owner, permits, waiters, processes,
                 outputTasks, callbacks>>

(* Seeded bug: the monitor is gone, and process.stop() is forgotten. *)
StopLeavesProcess(t) ==
  /\ stopping[t] # None
  /\ stage[stopping[t].proc] # "cancelled"
  /\ terminal' = [terminal EXCEPT ![stopping[t].proc] =
                    IF stopping[t].monitored THEN @ + 1 ELSE @]
  /\ stopping' = [stopping EXCEPT ![t] = None]
  /\ UNCHANGED <<stage, alive, exitCode, owner, permits, waiters, processes,
                 outputTasks, callbacks>>

(* stop_task once the cancelled monitor is done: process.stop(), and the   *)
(* failure event if it was this call that cut the monitor off.             *)
StopFinishes(t) ==
  /\ stopping[t] # None
  /\ LET p == stopping[t].proc IN
       /\ stage[p] # "cancelled"
       /\ alive' = [alive EXCEPT ![p] = FALSE]
       /\ terminal' = IF stopping[t].monitored
                      THEN [terminal EXCEPT ![p] = @ + 1] ELSE terminal
  /\ stopping' = [stopping EXCEPT ![t] = None]
  /\ UNCHANGED <<stage, exitCode, owner, permits, waiters, processes,
                 outputTasks, callbacks>>

(* Seeded bug: the monitor's entry is left behind. *)
RemoveKeepsMonitor(t) ==
  /\ processes[t] # None /\ ~ alive[processes[t]]
  /\ processes' = [processes EXCEPT ![t] = None]
  /\ callbacks' = [callbacks EXCEPT ![t] = None]
  /\ UNCHANGED <<stage, alive, exitCode, owner, permits, waiters, outputTasks,
                 stopping, terminal>>

(* remove_dead_process: the entries of a process that is not running. *)
RemoveDeadProcess(t) ==
  /\ processes[t] # None /\ ~ alive[processes[t]]
  /\ processes' = [processes EXCEPT ![t] = None]
  /\ outputTasks' = [outputTasks EXCEPT ![t] = None]
  /\ callbacks' = [callbacks EXCEPT ![t] = None]
  /\ UNCHANGED <<stage, alive, exitCode, owner, permits, waiters, stopping,
                 terminal>>

(* The server dies and is started again: a new, empty ProcessManager. *)
ManagerRestart ==
  /\ stage' = [i \in Proc |-> "none"]
  /\ alive' = [i \in Proc |-> FALSE]
  /\ exitCode' = [i \in Proc |-> "none"]
  /\ owner' = [i \in Proc |-> None]
  /\ permits' = MaxConcurrent
  /\ waiters' = <<>>
  /\ processes' = [t \in Task |-> None]
  /\ outputTasks' = [t \in Task |-> None]
  /\ callbacks' = [t \in Task |-> None]
  /\ stopping' = [t \in Task |-> None]
  /\ terminal' = [i \in Proc |-> 0]
-----------------------------------------------------------------------------
ManagerNext ==
  \/ ManagerRestart
  \/ \E i \in Proc, t \in Task : StartTask(i, t) \/ ContinueTask(i, t)
  \/ \E t \in Task : \/ StartTaskRefused(t)
                     \/ StopTask(t)
                     \/ StopFinishes(t)
                     \/ RemoveDeadProcess(t)
  \/ \E i \in Proc : \/ SlotGranted(i)
                     \/ SlotGrantedStartRaises(i)
                     \/ MonitorStarts(i)
                     \/ ProcessExits(i)
                     \/ RunOnComplete(i)
                     \/ MonitorFinishes(i)
                     \/ MonitorCancelled(i)

ManagerSpec == ManagerInit /\ [][ManagerNext]_managerVars

(* Every step of a monitor or of a woken waiter is taken by the event loop *)
(* without anybody's help; an SDK run is assumed to end by itself.  Starts *)
(* and stops are the callers' choice and carry no fairness.                *)
ManagerFairness ==
  \A i \in Proc : /\ WF_managerVars(SlotGranted(i))
                  /\ WF_managerVars(MonitorStarts(i))
                  /\ WF_managerVars(ProcessExits(i))
                  /\ WF_managerVars(RunOnComplete(i))
                  /\ WF_managerVars(MonitorFinishes(i))
                  /\ WF_managerVars(MonitorCancelled(i))

ManagerLiveSpec == ManagerSpec /\ ManagerFairness
-----------------------------------------------------------------------------
(* Types of the variables. *)
ManagerTypeOK ==
  /\ stage \in [Proc -> Stages]
  /\ alive \in [Proc -> BOOLEAN]
  /\ exitCode \in [Proc -> ExitCodes]
  /\ owner \in [Proc -> Task \cup {None}]
  /\ permits \in 0 .. MaxConcurrent
  /\ waiters \in Seq(Proc)
  /\ processes \in [Task -> Proc \cup {None}]
  /\ outputTasks \in [Task -> Proc \cup {None}]
  /\ callbacks \in [Task -> Proc \cup {None}]
  /\ stopping \in [Task -> StopCall \cup {None}]
  /\ terminal \in [Proc -> Nat]

Holders == {i \in Proc : stage[i] \in Holding}

(* A permit is either in the semaphore or held by exactly one monitor,     *)
(* whatever mix of starts, refusals, waits, stops and natural exits has    *)
(* happened: the acquire/release pairs of manager.py never drift apart     *)
(* (a monitor that leaks keeps its permit, it does not lose count of it).  *)
SlotsConserved == permits + Cardinality(Holders) = MaxConcurrent

(* No more processes run at a time than there are permits.  A process that *)
(* is being stopped is excepted: its monitor's finally block gives the     *)
(* permit back before stop_task gets to process.stop(), so its successor   *)
(* may already run.                                                        *)
ConcurrencyLimit ==
  Cardinality({i \in Proc : alive[i] /\ ~ BeingStopped(i)}) <= MaxConcurrent

(* The monitor registered for a task is the monitor of the process         *)
(* registered for it, so stop_task never cancels one process's monitor and *)
(* kills another process.                                                  *)
RegistryAgrees ==
  \A t \in Task :
    /\ outputTasks[t] # None => outputTasks[t] = processes[t]
    /\ processes[t] # None => owner[processes[t]] = t

(* A process that has come and gone has told its subscribers so exactly    *)
(* once, whether it ended by itself, was stopped, or ended while it was    *)
(* being stopped (the concern of the comment in stop_task).                *)
OneTerminalEvent ==
  \A i \in Proc : /\ terminal[i] <= 1
                  /\ Unused(i) /\ owner[i] # None => terminal[i] = 1

(* A call waiting for a slot gets one, unless monitors that were stopped   *)
(* before their first step have kept every permit: nobody overtakes in the *)
(* queue, and every other way a process can end gives its permit back.     *)
Starved == Cardinality({i \in Proc : stage[i] = "leaked"}) = MaxConcurrent

WaiterServed ==
  \A i \in Proc : stage[i] = "queued" ~> stage[i] # "queued" \/ Starved

(* Once nothing runs, waits or is being stopped, all permits are back: the *)
(* comment in stop_task relies on the cancelled monitor to release its     *)
(* permit.  A monitor cancelled before its first step never does.          *)
SlotsReturned ==
  (\A i \in Proc : /\ ~ alive[i] /\ ~ BeingStopped(i)
                   /\ stage[i] \in {"none", "leaked"})
  => permits = MaxConcurrent
-----------------------------------------------------------------------------
(* The inductive invariant behind the properties above.                    *)

(* The stop in flight for i's task is the one that cut i's monitor off. *)
CutOff(i) == /\ owner[i] \in Task
             /\ stopping[owner[i]] # None
             /\ stopping[owner[i]].proc = i
             /\ stopping[owner[i]].monitored

(* A registered process belongs to the task, still holds its permit, and   *)
(* has lost its monitor only to a stop.                                    *)
RegistrySound ==
  \A t \in Task :
    /\ outputTasks[t] # None => outputTasks[t] = processes[t]
    /\ processes[t] # None =>
         /\ owner[processes[t]] = t
         /\ stage[processes[t]] \in IF outputTasks[t] = None
                                   THEN {"cancelled", "leaked"}
                                   ELSE {"fresh", "streaming", "recorded"}

(* What a stop in flight may find its process doing. *)
StopSound ==
  \A t \in Task : stopping[t] # None =>
    /\ owner[stopping[t].proc] = t
    /\ stopping[t].monitored =>
         /\ stage[stopping[t].proc] \in {"cancelled", "leaked", "none"}
         /\ terminal[stopping[t].proc] = 0
    /\ ~ stopping[t].monitored => stage[stopping[t].proc] = "leaked"

(* Where a process is in its life, and whether its end has been told. *)
LifeSound ==
  \A i \in Proc :
    /\ terminal[i] <= 1
    /\ stage[i] # "none" => owner[i] \in Task
    /\ stage[i] \in {"queued", "fresh", "streaming", "recorded"} => terminal[i] = 0
    /\ stage[i] = "none" /\ owner[i] # None => terminal[i] = 1 \/ CutOff(i)
    /\ stage[i] = "cancelled" => CutOff(i)
    /\ stage[i] = "recorded" => ~ alive[i]
    /\ alive[i] => stage[i] \in Holding \/ CutOff(i)

ManagerInv == /\ ManagerTypeOK
              /\ SlotsConserved
              /\ RegistrySound
              /\ StopSound
              /\ LifeSound
=============================================================================
