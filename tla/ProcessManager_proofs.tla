------------------------ MODULE ProcessManager_proofs ------------------------
(***************************************************************************)
(* Proofs about ProcessManager, for every set of tasks, every finite set   *)
(* of process objects and every number of permits.                         *)
(***************************************************************************)
EXTENDS ProcessManager, FiniteSetTheorems, TLAPS

(* The monitors that hold a permit are finitely many. *)
LEMMA HoldersFinite ==
  /\ IsFiniteSet(Holders)
  /\ Cardinality(Holders) \in Nat
<1>1. Holders \subseteq Proc
  BY DEF Holders
<1>2. IsFiniteSet(Holders)
  BY <1>1, FS_Subset, ManagerAssumption
<1> QED
  BY <1>2, FS_CardinalityType

(* A step that moves one process into a holding stage adds one holder. *)
LEMMA HolderGained ==
  ASSUME NEW i \in Proc, NEW s \in Holding,
         stage \in [Proc -> Stages], stage[i] \notin Holding,
         stage' = [stage EXCEPT ![i] = s]
  PROVE  Cardinality(Holders') = Cardinality(Holders) + 1
<1>1. Holders' = Holders \cup {i}
  BY DEF Holders
<1>2. i \notin Holders
  BY DEF Holders
<1> QED
  BY <1>1, <1>2, HoldersFinite, FS_AddElement

(* A step that moves one process out of the holding stages removes one. *)
LEMMA HolderLost ==
  ASSUME NEW i \in Proc, NEW s, s \notin Holding,
         stage \in [Proc -> Stages], stage[i] \in Holding,
         stage' = [stage EXCEPT ![i] = s]
  PROVE  /\ Cardinality(Holders') = Cardinality(Holders) - 1
         /\ Cardinality(Holders) \in Nat \ {0}
<1>1. Holders' = Holders \ {i}
  BY DEF Holders
<1>2. i \in Holders
  BY DEF Holders
<1>3. Cardinality(Holders') = Cardinality(Holders) - 1
  BY <1>1, <1>2, HoldersFinite, FS_RemoveElement
<1>4. Cardinality(Holders) # 0
  BY <1>2, HoldersFinite, FS_EmptySet
<1> QED
  BY <1>3, <1>4, HoldersFinite

(* Any other change of stage leaves the holders alone. *)
LEMMA HoldersKept ==
  ASSUME stage \in [Proc -> Stages],
         \A i \in Proc : stage'[i] \in Holding <=> stage[i] \in Holding
  PROVE  Cardinality(Holders') = Cardinality(Holders)
<1>1. Holders' = Holders
  BY DEF Holders
<1> QED
  BY <1>1

(* A new ProcessManager: every permit is in the semaphore.                 *)
LEMMA InitInv == ManagerInit => ManagerInv
<1> SUFFICES ASSUME ManagerInit PROVE ManagerInv
  OBVIOUS
<1> USE ManagerAssumption DEF ManagerInit
<1>1. ManagerTypeOK
  BY DEF ManagerTypeOK, Stages, ExitCodes
<1>2. SlotsConserved
  <2>1. Holders = {}
    BY DEF Holders, Holding
  <2> QED
    BY <2>1, FS_EmptySet DEF SlotsConserved
<1>3. RegistrySound /\ StopSound
  BY DEF RegistrySound, StopSound
<1>4. LifeSound
  BY DEF LifeSound
<1> QED
  BY <1>1, <1>2, <1>3, <1>4 DEF ManagerInv
-----------------------------------------------------------------------------
(* Each operation preserves the invariant. *)

(* Taking a slot or joining the queue, the part starts and continuations   *)
(* share; the process object is unused, so nothing registered or being     *)
(* stopped refers to it.                                                   *)
LEMMA EnterInv ==
  ASSUME ManagerInv, NEW i \in Proc, NEW t \in Task,
         Unused(i), Enter(i, t), UNCHANGED stopping
  PROVE  ManagerInv'
<1> USE ManagerAssumption DEF ManagerInv
<1>1. CASE SlotFree
  <2>1. /\ permits > 0
        /\ permits' = permits - 1
        /\ stage' = [stage EXCEPT ![i] = "fresh"]
        /\ owner' = [owner EXCEPT ![i] = t]
        /\ terminal' = [terminal EXCEPT ![i] = 0]
        /\ callbacks' = [callbacks EXCEPT ![t] = i]
        /\ alive' = [alive EXCEPT ![i] = TRUE]
        /\ exitCode' = [exitCode EXCEPT ![i] = "none"]
        /\ processes' = [processes EXCEPT ![t] = i]
        /\ outputTasks' = [outputTasks EXCEPT ![t] = i]
        /\ UNCHANGED <<waiters, stopping>>
    BY <1>1 DEF SlotFree, Enter, Attach
  <2>2. SlotsConserved'
    <3>1. Cardinality(Holders') = Cardinality(Holders) + 1
      BY <2>1, HolderGained DEF ManagerTypeOK, Unused, Holding
    <3> QED
      BY <2>1, <3>1, HoldersFinite DEF SlotsConserved, ManagerTypeOK
  <2>3. ManagerTypeOK'
    <3>1. permits' \in 0 .. MaxConcurrent
      BY <2>1 DEF ManagerTypeOK
    <3>2. /\ stage' \in [Proc -> Stages]
          /\ alive' \in [Proc -> BOOLEAN]
          /\ exitCode' \in [Proc -> ExitCodes]
      BY <2>1 DEF ManagerTypeOK, Stages, ExitCodes
    <3>3. /\ processes' \in [Task -> Proc \cup {None}]
          /\ outputTasks' \in [Task -> Proc \cup {None}]
      BY <2>1 DEF ManagerTypeOK
    <3> QED
      BY <2>1, <3>1, <3>2, <3>3 DEF ManagerTypeOK
  <2>4. RegistrySound'
    <3> SUFFICES ASSUME NEW u \in Task
                 PROVE  RegistrySound!(u)'
      BY DEF RegistrySound
    <3>1. CASE u = t
      BY <2>1, <3>1 DEF ManagerTypeOK, Holding
    <3>2. CASE u # t
      <4>1. processes'[u] = processes[u] /\ outputTasks'[u] = outputTasks[u]
        BY <2>1, <3>2 DEF ManagerTypeOK
      <4>2. processes[u] # None => processes[u] \in Proc \ {i}
        <5>1. processes[u] # None => stage[processes[u]] # "none"
          BY DEF RegistrySound
        <5> QED
          BY <5>1 DEF ManagerTypeOK, Unused
      <4> QED
        BY <2>1, <4>1, <4>2 DEF ManagerTypeOK, RegistrySound
    <3> QED
      BY <3>1, <3>2
  <2>5. StopSound'
    BY <2>1 DEF ManagerTypeOK, StopSound, StopCall, Unused, BeingStopped
  <2>6. LifeSound'
    BY <2>1 DEF ManagerTypeOK, LifeSound, CutOff, Unused, BeingStopped, Holding
  <2> QED
    BY <2>2, <2>3, <2>4, <2>5, <2>6
<1>2. CASE ~ SlotFree
  <2>1. /\ stage' = [stage EXCEPT ![i] = "queued"]
        /\ waiters' = Append(waiters, i)
        /\ owner' = [owner EXCEPT ![i] = t]
        /\ terminal' = [terminal EXCEPT ![i] = 0]
        /\ callbacks' = [callbacks EXCEPT ![t] = i]
        /\ UNCHANGED <<permits, alive, exitCode, processes, outputTasks,
                       stopping>>
    BY <1>2 DEF Enter
  <2>2. SlotsConserved'
    <3>1. Cardinality(Holders') = Cardinality(Holders)
      BY <2>1, HoldersKept DEF ManagerTypeOK, Unused, Holding
    <3> QED
      BY <2>1, <3>1 DEF SlotsConserved
  <2>3. ManagerTypeOK'
    BY <2>1 DEF ManagerTypeOK, Stages
  <2>4. RegistrySound'
    BY <2>1 DEF ManagerTypeOK, RegistrySound, Unused, Holding
  <2>5. StopSound'
    BY <2>1 DEF ManagerTypeOK, StopSound, StopCall, Unused, BeingStopped
  <2>6. LifeSound'
    BY <2>1 DEF ManagerTypeOK, LifeSound, CutOff, Unused, BeingStopped, Holding
  <2> QED
    BY <2>2, <2>3, <2>4, <2>5, <2>6
<1> QED
  BY <1>1, <1>2

(* A refused start only drops callbacks. *)
LEMMA RefusedInv ==
  ASSUME ManagerInv, NEW t \in Task, StartTaskRefused(t)
  PROVE  ManagerInv'
<1> USE ManagerAssumption DEF ManagerInv
<1>1. ManagerTypeOK'
  BY DEF ManagerTypeOK, Stages, ExitCodes, StopCall, StartTaskRefused
<1>2. SlotsConserved'
  <2>1. Cardinality(Holders') = Cardinality(Holders)
    BY HoldersKept DEF ManagerTypeOK, Holding, StartTaskRefused, Holders
  <2> QED
    BY <2>1 DEF SlotsConserved, StartTaskRefused, Holders
<1>3. RegistrySound'
  BY DEF ManagerTypeOK, RegistrySound, Holding, StartTaskRefused
<1>4. StopSound'
  BY DEF ManagerTypeOK, StopSound, StopCall, StartTaskRefused
<1>5. LifeSound'
  BY DEF ManagerTypeOK, LifeSound, CutOff, Holding, StopCall, StartTaskRefused
<1> QED
  BY <1>1, <1>2, <1>3, <1>4, <1>5

(* The head of the queue gets its slot. *)
LEMMA SlotGrantedInv ==
  ASSUME ManagerInv, NEW i \in Proc, SlotGranted(i)
  PROVE  ManagerInv'
<1> USE ManagerAssumption DEF ManagerInv
<1>1. ManagerTypeOK'
  <2>1. waiters' \in Seq(Proc)
    BY DEF ManagerTypeOK, SlotGranted, Attach
  <2>2. permits' \in 0 .. MaxConcurrent
    BY DEF ManagerTypeOK, SlotGranted, Attach
  <2>3. /\ stage' \in [Proc -> Stages]
        /\ owner' \in [Proc -> Task \cup {None}]
    BY DEF ManagerTypeOK, Stages, SlotGranted, Attach
  <2>4. /\ alive' \in [Proc -> BOOLEAN]
        /\ exitCode' \in [Proc -> ExitCodes]
    BY DEF ManagerTypeOK, ExitCodes, SlotGranted, Attach
  <2>5. /\ processes' \in [Task -> Proc \cup {None}]
        /\ outputTasks' \in [Task -> Proc \cup {None}]
        /\ callbacks' \in [Task -> Proc \cup {None}]
    BY DEF ManagerTypeOK, SlotGranted, Attach
  <2> QED
    BY <2>1, <2>2, <2>3, <2>4, <2>5 DEF ManagerTypeOK, SlotGranted, Attach
<1>2. SlotsConserved'
  <2>1. Cardinality(Holders') = Cardinality(Holders) + 1
    BY HolderGained DEF ManagerTypeOK, Holding, SlotGranted, Attach
  <2> QED
    BY <2>1, HoldersFinite
       DEF SlotsConserved, ManagerTypeOK, SlotGranted, Attach
<1>3. RegistrySound'
  BY DEF ManagerTypeOK, RegistrySound, Holding, SlotGranted, Attach
<1>4. StopSound'
  BY DEF ManagerTypeOK, StopSound, StopCall, SlotGranted, Attach
<1>5. LifeSound'
  BY
     DEF ManagerTypeOK, LifeSound, CutOff, Holding, StopCall, SlotGranted,
         Attach
<1> QED
  BY <1>1, <1>2, <1>3, <1>4, <1>5

(* The head of the queue fails to start and gives the permit back. *)
LEMMA StartRaisesInv ==
  ASSUME ManagerInv, NEW i \in Proc, SlotGrantedStartRaises(i)
  PROVE  ManagerInv'
<1> USE ManagerAssumption DEF ManagerInv
<1>1. ManagerTypeOK'
  <2>1. waiters' \in Seq(Proc)
    BY DEF ManagerTypeOK, SlotGrantedStartRaises
  <2>2. permits' \in 0 .. MaxConcurrent
    BY DEF ManagerTypeOK, SlotGrantedStartRaises
  <2>3. /\ stage' \in [Proc -> Stages]
        /\ owner' \in [Proc -> Task \cup {None}]
    BY DEF ManagerTypeOK, Stages, SlotGrantedStartRaises
  <2>4. /\ alive' \in [Proc -> BOOLEAN]
        /\ exitCode' \in [Proc -> ExitCodes]
    BY DEF ManagerTypeOK, ExitCodes, SlotGrantedStartRaises
  <2>5. /\ processes' \in [Task -> Proc \cup {None}]
        /\ outputTasks' \in [Task -> Proc \cup {None}]
        /\ callbacks' \in [Task -> Proc \cup {None}]
    BY DEF ManagerTypeOK, SlotGrantedStartRaises
  <2> QED
    BY <2>1, <2>2, <2>3, <2>4, <2>5 DEF ManagerTypeOK, SlotGrantedStartRaises
<1>2. SlotsConserved'
  <2>1. Cardinality(Holders') = Cardinality(Holders)
    BY HoldersKept DEF ManagerTypeOK, Holding, SlotGrantedStartRaises
  <2> QED
    BY <2>1 DEF SlotsConserved, SlotGrantedStartRaises
<1>3. RegistrySound'
  BY DEF ManagerTypeOK, RegistrySound, Holding, SlotGrantedStartRaises
<1>4. StopSound'
  BY DEF ManagerTypeOK, StopSound, StopCall, SlotGrantedStartRaises
<1>5. LifeSound'
  <2> SUFFICES ASSUME NEW j \in Proc
               PROVE  LifeSound!(j)'
    BY DEF LifeSound
  <2>1. CASE j = i
    <3>1. terminal[i] = 0 /\ owner[i] \in Task /\ ~ alive[i]
      BY DEF SlotGrantedStartRaises, LifeSound, Holding, CutOff, StopSound
    <3>2. owner'[i] = None /\ stage'[i] = "none"
      BY DEF ManagerTypeOK, SlotGrantedStartRaises
    <3> QED
      BY <2>1, <3>1, <3>2 DEF LifeSound, SlotGrantedStartRaises
  <2>2. CASE j # i
    BY <2>2
       DEF ManagerTypeOK, LifeSound, CutOff, Holding, StopCall,
           SlotGrantedStartRaises
  <2> QED
    BY <2>1, <2>2
<1> QED
  BY <1>1, <1>2, <1>3, <1>4, <1>5

(* The monitor's first step. *)
LEMMA MonitorStartsInv ==
  ASSUME ManagerInv, NEW i \in Proc, MonitorStarts(i)
  PROVE  ManagerInv'
<1> USE ManagerAssumption DEF ManagerInv
<1>1. ManagerTypeOK'
  BY DEF ManagerTypeOK, Stages, ExitCodes, StopCall, MonitorStarts
<1>2. SlotsConserved'
  <2>1. Cardinality(Holders') = Cardinality(Holders)
    BY HoldersKept DEF ManagerTypeOK, Holding, MonitorStarts
  <2> QED
    BY <2>1 DEF SlotsConserved, MonitorStarts
<1>3. RegistrySound'
  BY DEF ManagerTypeOK, RegistrySound, Holding, MonitorStarts
<1>4. StopSound'
  BY DEF ManagerTypeOK, StopSound, StopCall, MonitorStarts
<1>5. LifeSound'
  BY DEF ManagerTypeOK, LifeSound, CutOff, Holding, StopCall, MonitorStarts
<1> QED
  BY <1>1, <1>2, <1>3, <1>4, <1>5

(* A process ends by itself. *)
LEMMA ProcessExitsInv ==
  ASSUME ManagerInv, NEW i \in Proc, ProcessExits(i)
  PROVE  ManagerInv'
<1> USE ManagerAssumption DEF ManagerInv
<1>1. ManagerTypeOK'
  BY DEF ManagerTypeOK, Stages, ExitCodes, StopCall, ProcessExits
<1>2. SlotsConserved'
  <2>1. Cardinality(Holders') = Cardinality(Holders)
    BY HoldersKept DEF ManagerTypeOK, Holding, ProcessExits
  <2> QED
    BY <2>1 DEF SlotsConserved, ProcessExits
<1>3. RegistrySound'
  BY DEF ManagerTypeOK, RegistrySound, Holding, ProcessExits
<1>4. StopSound'
  BY DEF ManagerTypeOK, StopSound, StopCall, ProcessExits
<1>5. LifeSound'
  BY DEF ManagerTypeOK, LifeSound, CutOff, Holding, StopCall, ProcessExits
<1> QED
  BY <1>1, <1>2, <1>3, <1>4, <1>5

(* The completion callback has run. *)
LEMMA RunOnCompleteInv ==
  ASSUME ManagerInv, NEW i \in Proc, RunOnComplete(i)
  PROVE  ManagerInv'
<1> USE ManagerAssumption DEF ManagerInv
<1>1. ManagerTypeOK'
  BY DEF ManagerTypeOK, Stages, ExitCodes, StopCall, RunOnComplete
<1>2. SlotsConserved'
  <2>1. Cardinality(Holders') = Cardinality(Holders)
    BY HoldersKept DEF ManagerTypeOK, Holding, RunOnComplete
  <2> QED
    BY <2>1 DEF SlotsConserved, RunOnComplete
<1>3. RegistrySound'
  BY DEF ManagerTypeOK, RegistrySound, Holding, RunOnComplete
<1>4. StopSound'
  BY DEF ManagerTypeOK, StopSound, StopCall, RunOnComplete
<1>5. LifeSound'
  BY DEF ManagerTypeOK, LifeSound, CutOff, Holding, StopCall, RunOnComplete
<1> QED
  BY <1>1, <1>2, <1>3, <1>4, <1>5

(* The terminal event and the finally block. *)
LEMMA MonitorFinishesInv ==
  ASSUME ManagerInv, NEW i \in Proc, MonitorFinishes(i)
  PROVE  ManagerInv'
<1> USE ManagerAssumption DEF ManagerInv
<1>1. ManagerTypeOK'
  <2>1. permits + 1 \in 0 .. MaxConcurrent
    <3>1. Cardinality(Holders) \in Nat \ {0}
      BY HolderLost DEF ManagerTypeOK, Holding, MonitorFinishes, MonitorFinally
    <3>2. permits + Cardinality(Holders) = MaxConcurrent
      BY DEF SlotsConserved
    <3> QED
      BY <3>1, <3>2 DEF ManagerTypeOK
  <2> QED
    <3>1. terminal' \in [Proc -> Nat]
      BY DEF ManagerTypeOK, MonitorFinishes
    <3> QED
      BY <2>1, <3>1 DEF ManagerTypeOK, Stages, MonitorFinishes, MonitorFinally
<1>2. SlotsConserved'
  <2>1. Cardinality(Holders') = Cardinality(Holders) - 1
    BY HolderLost DEF ManagerTypeOK, Holding, MonitorFinishes, MonitorFinally
  <2> QED
    BY <2>1, HoldersFinite
       DEF SlotsConserved, ManagerTypeOK, MonitorFinishes, MonitorFinally
<1>3. RegistrySound'
  BY DEF ManagerTypeOK, RegistrySound, Holding, MonitorFinishes, MonitorFinally
<1>4. StopSound'
  BY DEF ManagerTypeOK, StopSound, StopCall, MonitorFinishes, MonitorFinally
<1>5. LifeSound'
  <2> SUFFICES ASSUME NEW j \in Proc
               PROVE  LifeSound!(j)'
    BY DEF LifeSound
  <2>1. CASE j = i
    <3>1. terminal[i] = 0 /\ ~ (stage[i] = "none")
      BY DEF MonitorFinishes, LifeSound
    <3>2. terminal'[i] = 1 /\ stage'[i] = "none" /\ alive'[i] = alive[i]
      BY <3>1 DEF ManagerTypeOK, MonitorFinishes, MonitorFinally
    <3>3. ~ alive[i]
      BY DEF MonitorFinishes, LifeSound
    <3> QED
      BY <2>1, <3>2, <3>3 DEF LifeSound
  <2>2. CASE j # i
    BY <2>2
       DEF ManagerTypeOK, LifeSound, CutOff, Holding, StopCall,
           MonitorFinishes, MonitorFinally
  <2> QED
    BY <2>1, <2>2
<1> QED
  BY <1>1, <1>2, <1>3, <1>4, <1>5

(* The finally block of a cancelled monitor. *)
LEMMA MonitorCancelledInv ==
  ASSUME ManagerInv, NEW i \in Proc, MonitorCancelled(i)
  PROVE  ManagerInv'
<1> USE ManagerAssumption DEF ManagerInv
<1>1. ManagerTypeOK'
  <2>1. permits + 1 \in 0 .. MaxConcurrent
    <3>1. Cardinality(Holders) \in Nat \ {0}
      BY HolderLost
         DEF ManagerTypeOK, Holding, MonitorCancelled, MonitorFinally
    <3>2. permits + Cardinality(Holders) = MaxConcurrent
      BY DEF SlotsConserved
    <3> QED
      BY <3>1, <3>2 DEF ManagerTypeOK
  <2> QED
    BY <2>1 DEF ManagerTypeOK, Stages, MonitorCancelled, MonitorFinally
<1>2. SlotsConserved'
  <2>1. Cardinality(Holders') = Cardinality(Holders) - 1
    BY HolderLost DEF ManagerTypeOK, Holding, MonitorCancelled, MonitorFinally
  <2> QED
    BY <2>1, HoldersFinite
       DEF SlotsConserved, ManagerTypeOK, MonitorCancelled, MonitorFinally
<1>3. RegistrySound'
  BY
     DEF ManagerTypeOK, RegistrySound, Holding, MonitorCancelled,
         MonitorFinally
<1>4. StopSound'
  BY DEF ManagerTypeOK, StopSound, StopCall, MonitorCancelled, MonitorFinally
<1>5. LifeSound'
  BY
     DEF ManagerTypeOK, LifeSound, CutOff, Holding, StopCall, MonitorCancelled,
         MonitorFinally
<1> QED
  BY <1>1, <1>2, <1>3, <1>4, <1>5

(* A stop takes the monitor off its task and cancels it. *)
LEMMA StopTaskInv ==
  ASSUME ManagerInv, NEW t \in Task, StopTask(t)
  PROVE  ManagerInv'
<1> DEFINE p == processes[t]
           m == outputTasks[t]
<1> USE ManagerAssumption DEF ManagerInv
<1>a. /\ p \in Proc /\ stopping[t] = None
      /\ stopping' = [stopping EXCEPT ![t] = [proc |-> p, monitored |-> m # None]]
      /\ stopping' \in [Task -> StopCall \cup {None}]
      /\ outputTasks' = [outputTasks EXCEPT ![t] = None]
      /\ UNCHANGED <<alive, exitCode, owner, permits, waiters, processes,
                     callbacks, terminal>>
  BY DEF StopTask, ManagerTypeOK, StopCall
<1>b. owner[p] = t /\ stage[p] \in Holding
  BY <1>a DEF RegistrySound, Holding
<1>c. CASE m = None
  <2>1. stage' = stage
    BY <1>c DEF StopTask
  <2>2. stage[p] = "leaked"
    BY <1>a, <1>c DEF RegistrySound, LifeSound, CutOff
  <2>3. ManagerTypeOK' /\ SlotsConserved'
    BY <1>a, <2>1 DEF ManagerTypeOK, SlotsConserved, Holders
  <2>4. RegistrySound'
    BY <1>a, <1>c, <2>1 DEF RegistrySound, ManagerTypeOK
  <2>5. StopSound'
    BY <1>a, <1>b, <1>c, <2>1, <2>2 DEF StopSound, ManagerTypeOK
  <2>6. LifeSound'
    BY <1>a, <1>c, <2>1 DEF LifeSound, CutOff, ManagerTypeOK
  <2> QED
    BY <2>3, <2>4, <2>5, <2>6
<1>d. CASE m # None
  <2>1. m = p
    BY <1>d DEF RegistrySound
  <2>2. PICK s \in {"leaked", "cancelled"} : stage' = [stage EXCEPT ![p] = s]
    BY <1>d, <2>1 DEF StopTask
  <2>3. /\ stage[p] \in {"fresh", "streaming", "recorded"}
        /\ terminal[p] = 0
    BY <1>a, <1>d, <2>1 DEF RegistrySound, LifeSound
  <2>4. SlotsConserved'
    <3>1. Cardinality(Holders') = Cardinality(Holders)
      BY <1>a, <2>2, <2>3, HoldersKept DEF ManagerTypeOK, Holding
    <3> QED
      BY <1>a, <3>1 DEF SlotsConserved
  <2>5. ManagerTypeOK'
    BY <1>a, <2>2 DEF ManagerTypeOK, Stages
  <2>6. RegistrySound'
    BY <1>a, <1>b, <2>1, <2>2 DEF RegistrySound, ManagerTypeOK
  <2>7. stopping'[t] = [proc |-> p, monitored |-> TRUE] /\ stopping'[t] # None
    <3>1. (m # None) = TRUE
      BY <1>d
    <3>2. [proc |-> p, monitored |-> TRUE] \in [proc : Proc, monitored : BOOLEAN]
      BY <1>a
    <3> QED
      BY <1>a, <3>1, <3>2 DEF ManagerTypeOK
  <2>8. StopSound'
    <3> SUFFICES ASSUME NEW u \in Task
                 PROVE  StopSound!(u)'
      BY DEF StopSound
    <3>1. CASE u = t
      BY <1>a, <1>b, <2>2, <2>3, <2>7, <3>1 DEF ManagerTypeOK
    <3>2. CASE u # t
      <4>1. stopping'[u] = stopping[u]
        BY <1>a, <3>2 DEF ManagerTypeOK
      <4>2. stopping[u] # None => stopping[u].proc # p
        BY <1>b, <3>2 DEF StopSound
      <4> QED
        BY <1>a, <2>2, <4>1, <4>2 DEF StopSound, ManagerTypeOK, StopCall
    <3> QED
      BY <3>1, <3>2
  <2>9. LifeSound'
    <3> SUFFICES ASSUME NEW j \in Proc
                 PROVE  LifeSound!(j)'
      BY DEF LifeSound
    <3>2. CASE j = p
      BY <1>a, <1>b, <2>2, <2>3, <2>7, <3>2
         DEF LifeSound, CutOff, ManagerTypeOK, Holding
    <3>3. CASE j # p
      BY <1>a, <1>b, <2>2, <3>3 DEF LifeSound, CutOff, ManagerTypeOK, Holding
    <3> QED
      BY <3>2, <3>3
  <2> QED
    BY <2>4, <2>5, <2>6, <2>8, <2>9
<1> QED
  BY <1>c, <1>d

(* A stop kills the process and tells. *)
LEMMA StopFinishesInv ==
  ASSUME ManagerInv, NEW t \in Task, StopFinishes(t)
  PROVE  ManagerInv'
<1> USE ManagerAssumption DEF ManagerInv
<1>1. ManagerTypeOK'
  BY DEF ManagerTypeOK, Stages, ExitCodes, StopCall, StopFinishes
<1>2. SlotsConserved'
  <2>1. Cardinality(Holders') = Cardinality(Holders)
    BY HoldersKept DEF ManagerTypeOK, Holding, StopFinishes
  <2> QED
    BY <2>1 DEF SlotsConserved, StopFinishes
<1>3. RegistrySound'
  BY DEF ManagerTypeOK, RegistrySound, Holding, StopFinishes
<1>4. StopSound'
  BY DEF ManagerTypeOK, StopSound, StopCall, StopFinishes
<1>5. LifeSound'
  <2> DEFINE p == stopping[t].proc
  <2>1. /\ p \in Proc /\ stopping[t] # None /\ stage[p] # "cancelled"
        /\ alive' = [alive EXCEPT ![p] = FALSE]
        /\ terminal' = IF stopping[t].monitored
                       THEN [terminal EXCEPT ![p] = @ + 1] ELSE terminal
        /\ stopping' = [stopping EXCEPT ![t] = None]
        /\ UNCHANGED <<stage, owner>>
    BY DEF StopFinishes, ManagerTypeOK, StopCall
  <2>2. owner[p] = t
    BY <2>1 DEF StopSound
  <2> SUFFICES ASSUME NEW j \in Proc
               PROVE  LifeSound!(j)'
    BY DEF LifeSound
  <2>3. CASE j = p /\ stopping[t].monitored
    <3>1. terminal[p] = 0 /\ stage[p] \in {"leaked", "none"}
      BY <2>1, <2>3 DEF StopSound
    <3>2. terminal'[p] = 1 /\ ~ alive'[p]
      BY <2>1, <2>3, <3>1 DEF ManagerTypeOK
    <3> QED
      BY <2>1, <2>2, <2>3, <3>1, <3>2 DEF LifeSound, CutOff, ManagerTypeOK
  <2>4. CASE j = p /\ ~ stopping[t].monitored
    BY <2>1, <2>2, <2>4 DEF LifeSound, CutOff, ManagerTypeOK, StopSound
  <2>5. CASE j # p
    <3>1. /\ terminal'[j] = terminal[j] /\ alive'[j] = alive[j]
          /\ stage'[j] = stage[j] /\ owner'[j] = owner[j]
      BY <2>1, <2>5 DEF ManagerTypeOK
    <3>2. CutOff(j) => CutOff(j)'
      BY <2>1, <2>5 DEF CutOff, ManagerTypeOK
    <3> QED
      BY <3>1, <3>2 DEF LifeSound
  <2> QED
    BY <2>3, <2>4, <2>5
<1> QED
  BY <1>1, <1>2, <1>3, <1>4, <1>5

(* The entries of a dead process go. *)
LEMMA RemoveDeadInv ==
  ASSUME ManagerInv, NEW t \in Task, RemoveDeadProcess(t)
  PROVE  ManagerInv'
<1> USE ManagerAssumption DEF ManagerInv
<1>1. ManagerTypeOK'
  BY DEF ManagerTypeOK, Stages, ExitCodes, StopCall, RemoveDeadProcess
<1>2. SlotsConserved'
  <2>1. Cardinality(Holders') = Cardinality(Holders)
    BY HoldersKept DEF ManagerTypeOK, Holding, RemoveDeadProcess
  <2> QED
    BY <2>1 DEF SlotsConserved, RemoveDeadProcess
<1>3. RegistrySound'
  BY DEF ManagerTypeOK, RegistrySound, Holding, RemoveDeadProcess
<1>4. StopSound'
  BY DEF ManagerTypeOK, StopSound, StopCall, RemoveDeadProcess
<1>5. LifeSound'
  BY DEF ManagerTypeOK, LifeSound, CutOff, Holding, StopCall, RemoveDeadProcess
<1> QED
  BY <1>1, <1>2, <1>3, <1>4, <1>5

(* A restarted server has a new ProcessManager.                            *)
LEMMA RestartInv == ManagerRestart => ManagerInv'
<1>1. ManagerRestart => ManagerInit'
  BY DEF ManagerRestart, ManagerInit
<1>2. ManagerInit' => ManagerInv'
  BY InitInv, PTL
<1> QED
  BY <1>1, <1>2

(* Every step of a caller, a monitor or a process keeps the invariant.     *)
LEMMA NextInv == ManagerInv /\ [ManagerNext]_managerVars => ManagerInv'
<1> SUFFICES ASSUME ManagerInv, [ManagerNext]_managerVars PROVE ManagerInv'
  OBVIOUS
<1>1. ASSUME NEW i \in Proc, NEW t \in Task, StartTask(i, t) \/ ContinueTask(i, t)
      PROVE  ManagerInv'
  BY <1>1, EnterInv DEF StartTask, ContinueTask
<1>2. ASSUME NEW t \in Task, \/ StartTaskRefused(t)
                             \/ StopTask(t)
                             \/ StopFinishes(t)
                             \/ RemoveDeadProcess(t)
      PROVE  ManagerInv'
  BY <1>2, RefusedInv, StopTaskInv, StopFinishesInv, RemoveDeadInv
<1>3. ASSUME NEW i \in Proc, \/ SlotGranted(i)
                             \/ SlotGrantedStartRaises(i)
                             \/ MonitorStarts(i)
                             \/ ProcessExits(i)
                             \/ RunOnComplete(i)
                             \/ MonitorFinishes(i)
                             \/ MonitorCancelled(i)
      PROVE  ManagerInv'
  BY <1>3, SlotGrantedInv, StartRaisesInv, MonitorStartsInv, ProcessExitsInv,
     RunOnCompleteInv, MonitorFinishesInv, MonitorCancelledInv
<1>4. CASE UNCHANGED managerVars
  BY <1>4 DEF managerVars, ManagerInv, ManagerTypeOK, SlotsConserved, Holders,
     RegistrySound, StopSound, LifeSound, CutOff
<1> QED
  BY <1>1, <1>2, <1>3, <1>4, RestartInv DEF ManagerNext
-----------------------------------------------------------------------------
(* The inductive invariant holds in every reachable state of the manager   *)
(* (manager.py), whatever its callers do.                                  *)
THEOREM ManagerInvariant == ManagerSpec => []ManagerInv
<1> QED
  BY InitInv, NextInv, PTL DEF ManagerSpec

(* Every variable keeps its type; permits never leave 0 .. MaxConcurrent.  *)
THEOREM ManagerTypeCorrect == ManagerSpec => []ManagerTypeOK
<1>1. ManagerInv => ManagerTypeOK
  BY DEF ManagerInv
<1> QED
  BY <1>1, ManagerInvariant, PTL

(* semaphore.acquire and the monitors' finally blocks stay balanced.       *)
THEOREM PermitsConserved == ManagerSpec => []SlotsConserved
<1>1. ManagerInv => SlotsConserved
  BY DEF ManagerInv
<1> QED
  BY <1>1, ManagerInvariant, PTL

(* _output_tasks and _processes agree on every task id.                    *)
THEOREM RegistriesAgree == ManagerSpec => []RegistryAgrees
<1>1. ManagerInv => RegistryAgrees
  BY DEF ManagerInv, RegistrySound, RegistryAgrees
<1> QED
  BY <1>1, ManagerInvariant, PTL

(* At most MaxConcurrent processes run that nobody is stopping: each holds *)
(* a permit of its own.                                                    *)
THEOREM RunningBounded == ManagerSpec => []ConcurrencyLimit
<1>1. ManagerInv => ConcurrencyLimit
  <2> SUFFICES ASSUME ManagerInv PROVE ConcurrencyLimit
    OBVIOUS
  <2> DEFINE Running == {i \in Proc : alive[i] /\ ~ BeingStopped(i)}
  <2>1. Running \subseteq Holders
    BY DEF ManagerInv, LifeSound, CutOff, BeingStopped, Holders
  <2>2. Cardinality(Running) <= Cardinality(Holders)
    BY <2>1, HoldersFinite, FS_Subset
  <2>3. /\ Cardinality(Running) \in Nat
        /\ permits \in Nat
        /\ permits + Cardinality(Holders) = MaxConcurrent
    BY <2>1, HoldersFinite, FS_Subset, FS_CardinalityType
       DEF ManagerInv, ManagerTypeOK, SlotsConserved
  <2> QED
    BY <2>2, <2>3, HoldersFinite, ManagerAssumption DEF ConcurrencyLimit
<1> QED
  BY <1>1, ManagerInvariant, PTL

(* Every process that has come and gone was announced exactly once.        *)
THEOREM EndToldOnce == ManagerSpec => []OneTerminalEvent
<1>1. ManagerInv => OneTerminalEvent
  BY
     DEF ManagerInv, ManagerTypeOK, LifeSound, CutOff, OneTerminalEvent,
         Unused,
     BeingStopped
<1> QED
  BY <1>1, ManagerInvariant, PTL
=============================================================================
