--------------------------- MODULE Schedules_proofs ---------------------------
(***************************************************************************)
(* Proofs about schedules and flows: an executing flow can be reached      *)
(* through the registry, a schedule does not fire twice, and the loop      *)
(* waits for no user without cause; for any number of schedules, projects, *)
(* web requests and modules, any period, and without a bound on time.      *)
(***************************************************************************)
EXTENDS Schedules, TLAPS

JobType == [pc : JobPcs, sched : Schedules \cup {None}, project : Projects \cup {None},
            at : Nat, template : Templates \cup {None}, kind : Kinds, module : Nat,
            cancelled : BOOLEAN]

SchedulesTypeOK ==
  /\ now \in Nat /\ tick \in Nat /\ requests \in Nat
  /\ loop \in {"down", "asleep", "check", "busy"}
  /\ enabled \subseteq Schedules /\ batch \subseteq Schedules
  /\ template \in [Schedules -> Templates] /\ kind \in [Templates -> Kinds]
  /\ \A s \in batch : chosen[s] \in Templates
  /\ change \in {None} \cup (Schedules \X Templates)
  /\ {seen, lastRun, fired} \subseteq [Schedules -> Int]
  /\ job \in [Jobs -> JobType]
  /\ registry \in [Projects -> Jobs \cup {None}]

(* What a job works for is known as long as it needs it. *)
JobsSound ==
  \A j \in Jobs :
    /\ job[j].pc \in {"called", "record"} => job[j].sched \in Schedules
    /\ job[j].pc = "called" => job[j].template \in Templates
    /\ job[j].sched \in Schedules /\ job[j].pc # "idle" => job[j].project \in Projects
    /\ job[j].pc \in {"call", "flow", "gate"} => job[j].project \in Projects

(* FlowReachable, and two flows of one project have both met the other:    *)
(* whichever of them ends takes the registry entry with it.                *)
Met ==
  \A j, k \in Jobs :
    Executing(j) /\ Executing(k) /\ job[j].project = job[k].project =>
      j = k \/ {j, k} \subseteq crossed

(* The loop has a job exactly while it awaits it, and what it triggered    *)
(* last is known from last_run_at, unless that was lost; so is it from     *)
(* what its check has read of the schedules it has not come to.            *)
LoopSound ==
  /\ IF loop = "busy"
     THEN /\ job[Loop].pc # "idle" /\ job[Loop].sched \in Schedules
          /\ job[Loop].sched \notin batch
          /\ fired[job[Loop].sched] = job[Loop].at
     ELSE job[Loop] = IdleJob
  /\ loop \in {"down", "asleep"} => batch = {}

RunKnown ==
  \A s \in Schedules \ lost :
    /\ (loop = "busy" /\ job[Loop].sched = s) \/ lastRun[s] >= fired[s]
    /\ s \in batch => seen[s] >= fired[s]

(* A template with a gate that a schedule was accepted with got it later.  *)
GatesEdited == \A x \in Templates : kind[x] = "gate" /\ Used(x) => x \in edited

Sound == SchedulesTypeOK /\ JobsSound

LEMMA InitSound == SchedulesInit => Sound
BY SchedulesAssumption
DEF SchedulesInit, Sound, SchedulesTypeOK, JobsSound, JobType, IdleJob, JobPcs, Kinds,
    Unread, Never

(* The jobs that the loop, the schedules page and the flow page create. *)
Triggered(s, time, x) == [IdleJob EXCEPT !.pc = "called", !.sched = s,
                                         !.project = ProjectOf[s], !.at = time,
                                         !.template = x]
Called(p, k) == [IdleJob EXCEPT !.pc = "call", !.project = p, !.kind = k]

LEMMA IdleJobType == IdleJob \in JobType /\ IdleJob.pc = "idle" /\ IdleJob.kind = "plain"
BY SchedulesAssumption DEF JobType, IdleJob, JobPcs, Kinds

LEMMA TriggeredType ==
  ASSUME NEW s \in Schedules, NEW time \in Nat, NEW x \in Templates
  PROVE  /\ Triggered(s, time, x) \in JobType
         /\ Triggered(s, time, x).pc = "called" /\ Triggered(s, time, x).sched = s
         /\ Triggered(s, time, x).project \in Projects /\ Triggered(s, time, x).at = time
         /\ Triggered(s, time, x).template = x
BY SchedulesAssumption DEF Triggered, JobType, IdleJob, JobPcs, Kinds

LEMMA CalledType ==
  ASSUME NEW p \in Projects, NEW k \in Kinds
  PROVE  /\ Called(p, k) \in JobType
         /\ Called(p, k).pc = "call" /\ Called(p, k).project = p
         /\ Called(p, k).sched = None
BY SchedulesAssumption DEF Called, JobType, IdleJob, JobPcs, Kinds

(* A step that sets one job to a sound one, or none, keeps them sound. *)
LEMMA JobKept ==
  ASSUME Sound, NEW j \in Jobs, NEW new \in JobType,
         job' = [job EXCEPT ![j] = new],
         new.pc \in {"called", "record"} => new.sched \in Schedules,
         new.pc = "called" => new.template \in Templates,
         new.pc # "idle" => new.project \in Projects
  PROVE  (job \in [Jobs -> JobType])' /\ JobsSound'
BY DEF Sound, SchedulesTypeOK, JobsSound

LEMMA TriggeredKept ==
  ASSUME Sound, NEW j \in Jobs, Trigger(j)
  PROVE  (job \in [Jobs -> JobType])' /\ JobsSound'
<1>1. /\ job[j] \in JobType /\ job[j].sched \in Schedules /\ job[j].project \in Projects
      /\ kind[job[j].template] \in Kinds
  BY DEF Sound, SchedulesTypeOK, JobsSound, Trigger, At
<1> DEFINE loaded == [job[j] EXCEPT !.pc = "call", !.kind = kind[job[j].template]]
           over == [job[j] EXCEPT !.pc = "record"]
<1>2. /\ loaded \in JobType /\ loaded.pc = "call" /\ loaded.project \in Projects
      /\ over \in JobType /\ over.pc = "record" /\ over.sched \in Schedules
      /\ over.project \in Projects
  BY <1>1 DEF JobType, JobPcs
<1>3. job' = [job EXCEPT ![j] = loaded] \/ job' = [job EXCEPT ![j] = over]
  BY DEF Trigger, Move
<1> HIDE DEF loaded, over
<1> QED
  BY <1>2, <1>3, JobKept

LEMMA CalledKept ==
  ASSUME Sound, NEW j \in Jobs, CallFlow(j)
  PROVE  (job \in [Jobs -> JobType])' /\ JobsSound'
<1> DEFINE started == [job[j] EXCEPT !.pc = "flow", !.module = 1]
<1>1. job[j] \in JobType /\ job[j].project \in Projects
  BY DEF Sound, SchedulesTypeOK, JobsSound, CallFlow, At
<1>2. started \in JobType /\ started.pc = "flow" /\ started.project \in Projects
  BY <1>1 DEF JobType, JobPcs
<1>3. job' = [job EXCEPT ![j] = started]
  BY DEF CallFlow
<1> HIDE DEF started
<1> QED
  BY <1>2, <1>3, JobKept

(* A flow that is cancelled goes on, without its gate. *)
LEMMA StopAllCuts ==
  ASSUME Sound, StopAll, NEW j \in Jobs
  PROVE  /\ job'[j] \in JobType
         /\ job'[j].sched = job[j].sched /\ job'[j].project = job[j].project
         /\ job'[j].at = job[j].at /\ job'[j].kind = job[j].kind
         /\ job'[j].template = job[j].template
         /\ ~ Executing(j) => job'[j] = job[j]
         /\ Executing(j) => job'[j].pc \in {job[j].pc, "flow"}
<1> DEFINE stopped == {registry[p] : p \in Projects}
           cut == [job[j] EXCEPT !.pc = "flow", !.cancelled = TRUE]
<1>1. job'[j] = IF j \notin stopped \/ ~ Executing(j) THEN job[j] ELSE cut
  BY DEF StopAll, Cancel
<1>2. job[j] \in JobType
  BY DEF Sound, SchedulesTypeOK
<1>3. /\ cut \in JobType /\ cut.sched = job[j].sched /\ cut.project = job[j].project
      /\ cut.pc = "flow" /\ cut.at = job[j].at /\ cut.kind = job[j].kind
      /\ cut.template = job[j].template
  BY <1>2 DEF JobType, JobPcs
<1> HIDE DEF stopped, cut
<1> QED
  BY <1>1, <1>2, <1>3

LEMMA NextSound == Sound /\ [SchedulesNext]_schedulesVars => Sound'
<1> SUFFICES ASSUME Sound, [SchedulesNext]_schedulesVars PROVE Sound'
  OBVIOUS
<1> USE SchedulesAssumption DEF Sound, SchedulesTypeOK
<1> USE DEF rowVars, pageVars, loopVars, roundVars, flowVars, historyVars
<1>1. ASSUME NEW j \in Jobs, JobStep(j) PROVE Sound'
  <2> USE DEF JobType, JobPcs, Kinds, At, Move, Request, JobsSound
  <2>1. CASE Trigger(j)
    <3>1. (job \in [Jobs -> JobType])' /\ JobsSound'
      BY <2>1, TriggeredKept
    <3> QED
      BY <2>1, <3>1 DEF Trigger
  <2>6. CASE CallFlow(j)
    <3>1. (job \in [Jobs -> JobType])' /\ JobsSound'
      BY <2>6, CalledKept
    <3>2. (registry \in [Projects -> Jobs \cup {None}])'
      BY <2>6 DEF CallFlow
    <3> QED
      BY <2>6, <3>1, <3>2 DEF CallFlow
  <2>2. CASE FlowWaits(j) \/ NextModule(j)
    BY <2>2 DEF FlowWaits, NextModule
  <2>3. CASE FlowEnds(j)
    BY <2>3 DEF FlowEnds, Over, IdleJob
  <2>4. CASE Record(j)
    <3>1. (job \in [Jobs -> JobType])' /\ JobsSound'
      BY <2>4, JobKept, IdleJobType DEF Record, Recorded
    <3>2. job[j].sched \in Schedules /\ job[j].at \in Int
      BY <2>4 DEF Record
    <3>3. lastRun' = [lastRun EXCEPT ![job[j].sched] = job[j].at]
      BY <2>4 DEF Record, Saved
    <3> QED
      BY <2>4, <3>1, <3>2, <3>3 DEF Record, Recorded
  <2>5. CASE RecordFails(j)
    <3>1. (job \in [Jobs -> JobType])' /\ JobsSound'
      BY <2>5, JobKept, IdleJobType DEF RecordFails, Recorded
    <3> QED
      BY <2>5, <3>1 DEF RecordFails, Recorded
  <2> QED
    BY <1>1, <2>1, <2>2, <2>3, <2>4, <2>5, <2>6 DEF JobStep
<1>2. ASSUME NEW s \in Schedules, FireNext(s) PROVE Sound'
  <2>1. (job \in [Jobs -> JobType])' /\ JobsSound'
    <3>1. s \in Schedules /\ Loop \in Jobs /\ tick \in Nat /\ chosen[s] \in Templates
      BY <1>2 DEF FireNext, Left, Jobs
    <3>2. job' = [job EXCEPT ![Loop] = Triggered(s, tick, chosen[s])]
      BY <1>2 DEF FireNext, Triggered
    <3> QED
      BY <3>1, <3>2, TriggeredType DEF JobsSound
  <2> QED
    BY <1>2, <2>1 DEF FireNext, Left
<1>3. CASE CheckSchedules \/ CheckFails \/ CheckEnds \/ RoundRaises \/ Tick
  <2>1. UNCHANGED job
    BY <1>3 DEF CheckSchedules, CheckFails, CheckEnds, RoundRaises, LoopSleeps, Tick
  <2>2. CASE CheckSchedules \/ CheckFails
    BY <2>1, <2>2 DEF CheckSchedules, CheckFails, Request, JobsSound
  <2>3. CASE CheckEnds \/ RoundRaises \/ Tick
    BY <2>1, <2>3 DEF CheckEnds, RoundRaises, LoopSleeps, Forget, Tick, Unread, Never, JobsSound
  <2> QED
    BY <1>3, <2>2, <2>3
<1>4. CASE ScheduleRequest
  BY <1>4 DEF ScheduleRequest, Toggle, EditTemplate, CheckTemplate, ChangeTemplate,
              ChangeTime, Kinds, Request, JobsSound
<1>5. CASE FlowRequest
  <2>1. CASE StopAll
    <3>2. (job \in [Jobs -> JobType])' /\ JobsSound'
      BY <2>1, StopAllCuts DEF StopAll, Cancel, JobsSound, Executing
    <3> QED
      BY <2>1, <3>2 DEF StopAll, Request
  <2>2. ASSUME NEW p \in Projects, AnswerGate(p) PROVE Sound'
    BY <2>2 DEF AnswerGate, At, Move, JobType, JobPcs, JobsSound
  <2>3. ASSUME NEW j \in Web, NEW p \in Projects, ExecuteFlow(j, p) PROVE Sound'
    <3>1. (job \in [Jobs -> JobType])' /\ JobsSound'
      <4>1. j \in Jobs
        BY DEF Jobs
      <4>2. PICK k \in Kinds : job' = [job EXCEPT ![j] = Called(p, k)]
        BY <2>3 DEF ExecuteFlow, Called
      <4>3. Called(p, k) \in JobType /\ Called(p, k).pc = "call"
            /\ Called(p, k).project \in Projects
        BY <4>2, CalledType
      <4> QED
        BY <4>1, <4>2, <4>3 DEF JobsSound
    <3> QED
      BY <2>3, <3>1 DEF ExecuteFlow, Request
  <2>4. ASSUME NEW j \in Web, NEW s \in Schedules, RunNow(j, s) PROVE Sound'
    <3>1. (job \in [Jobs -> JobType])' /\ JobsSound'
      <4>1. j \in Jobs
        BY DEF Jobs
      <4>2. job' = [job EXCEPT ![j] = Triggered(s, now, template[s])]
        BY <2>4 DEF RunNow, Triggered
      <4> QED
        BY <4>1, <4>2, TriggeredType DEF JobsSound
    <3> QED
      BY <2>4, <3>1 DEF RunNow, Request
  <2> QED
    BY <1>5, <2>1, <2>2, <2>3, <2>4 DEF FlowRequest
<1>6. CASE ServerDies \/ ServerStarts
  <2>1. (job \in [Jobs -> JobType])' /\ JobsSound'
    BY <1>6, IdleJobType DEF ServerDies, ServerStarts, JobsSound
  <2> QED
    BY <1>6, <2>1 DEF ServerDies, ServerStarts, Forget, Unread, Never, Request
<1>7. CASE UNCHANGED schedulesVars
  BY <1>7 DEF schedulesVars, JobsSound
<1> QED
  BY <1>1, <1>2, <1>3, <1>4, <1>5, <1>6, <1>7 DEF SchedulesNext, LoopStep

LEMMA InitReachable == SchedulesInit => FlowReachable /\ Met
BY SchedulesAssumption DEF SchedulesInit, FlowReachable, Met, Executing, IdleJob

LEMMA NextReachable ==
  Sound /\ LoopSound /\ FlowReachable /\ Met /\ [SchedulesNext]_schedulesVars => (FlowReachable /\ Met)'
<1> SUFFICES ASSUME Sound, LoopSound, FlowReachable, Met, [SchedulesNext]_schedulesVars
             PROVE  (FlowReachable /\ Met)'
  OBVIOUS
<1> USE SchedulesAssumption DEF FlowReachable, Met, Executing
<1> USE DEF flowVars
<1>a. /\ job \in [Jobs -> JobType] /\ registry \in [Projects -> Jobs \cup {None}]
      /\ JobsSound /\ Loop \in Jobs /\ Web \subseteq Jobs
  BY DEF Sound, SchedulesTypeOK, Jobs
(* A step by which no flow begins or ends. *)
<1>b. ASSUME UNCHANGED flowVars,
             \A j \in Jobs : /\ Executing(j)' <=> Executing(j)
                             /\ Executing(j) => job'[j].project = job[j].project
      PROVE  (FlowReachable /\ Met)'
  BY <1>a, <1>b
<1>c. ASSUME UNCHANGED flowVars, NEW j \in Jobs, ~ Executing(j), NEW new,
             job' = [job EXCEPT ![j] = new], new.pc \notin {"flow", "gate"}
      PROVE  (FlowReachable /\ Met)'
  BY <1>a, <1>b, <1>c
<1>1. ASSUME NEW j \in Jobs, JobStep(j) PROVE (FlowReachable /\ Met)'
  <2>1. CASE Trigger(j)
    BY <1>a, <1>b, <2>1 DEF Trigger, At, Move, JobType
  <2>2. CASE CallFlow(j)
    <3> DEFINE p == job[j].project
               others == {k \in Jobs \ {j} : Executing(k) /\ job[k].project = p}
    <3>1. p \in Projects /\ ~ Executing(j)
      BY <1>a, <2>2 DEF CallFlow, At, JobsSound
    <3>2. /\ registry' = [registry EXCEPT ![p] = j]
          /\ Executing(j)' /\ job'[j].project = p
          /\ \A k \in Jobs \ {j} : job'[k] = job[k]
      BY <1>a, <2>2 DEF CallFlow, JobType
    <3>3. crossed' = IF others = {} THEN crossed \ {j} ELSE crossed \cup others \cup {j}
      BY <2>2 DEF CallFlow
    <3>4. Met'
      BY <1>a, <3>1, <3>2, <3>3
    <3>5. FlowReachable'
      BY <1>a, <3>1, <3>2, <3>3
    <3> QED
      BY <3>4, <3>5
  <2>3. CASE FlowWaits(j) \/ NextModule(j)
    BY <1>a, <1>b, <2>3 DEF FlowWaits, NextModule, At, Move, JobType
  <2>4. CASE FlowEnds(j)
    <3>1. /\ job[j].project \in Projects /\ Executing(j)
          /\ job' = [job EXCEPT ![j] = Over(j)] /\ Over(j).pc \in {"idle", "record"}
          /\ registry' = [registry EXCEPT ![job[j].project] = None] /\ crossed' = crossed
      BY <1>a, <2>4 DEF FlowEnds, At, JobsSound, Over, IdleJob, JobType
    <3> QED
      BY <1>a, <3>1
  <2>5. CASE Record(j) \/ RecordFails(j)
    BY <1>a, <1>c, <2>5, IdleJobType DEF Record, RecordFails, Recorded, At
  <2> QED
    BY <1>1, <2>1, <2>2, <2>3, <2>4, <2>5 DEF JobStep
<1>2. ASSUME NEW s \in Schedules, FireNext(s) PROVE (FlowReachable /\ Met)'
  <2>1. /\ job' = [job EXCEPT ![Loop] = Triggered(s, tick, chosen[s])]
        /\ s \in Schedules /\ tick \in Nat /\ chosen[s] \in Templates
    BY <1>2 DEF FireNext, Left, Triggered, Sound, SchedulesTypeOK
  <2>2. ~ Executing(Loop)
    BY <1>2, IdleJobType DEF FireNext, LoopSound
  <2> QED
    BY <1>2, <1>a, <1>c, <2>1, <2>2, TriggeredType DEF FireNext
<1>3. CASE CheckSchedules \/ CheckFails \/ CheckEnds \/ RoundRaises \/ Tick
  BY <1>3, <1>b DEF CheckSchedules, CheckFails, CheckEnds, RoundRaises, LoopSleeps, Tick
<1>4. CASE ScheduleRequest \/ ServerStarts
  BY <1>4, <1>b DEF ScheduleRequest, Toggle, EditTemplate, CheckTemplate, ChangeTemplate,
                    ChangeTime, ServerStarts
<1>5. CASE FlowRequest
  <2>1. CASE StopAll
    <3>1. ASSUME NEW j \in Jobs
          PROVE  /\ Executing(j)' <=> Executing(j)
                 /\ job'[j].project = job[j].project
      BY <1>a, <2>1, StopAllCuts
    <3> QED
      BY <1>b, <2>1, <3>1 DEF StopAll
  <2>2. ASSUME NEW p \in Projects, AnswerGate(p) PROVE (FlowReachable /\ Met)'
    BY <1>a, <1>b, <2>2 DEF AnswerGate, At, Move, JobType
  <2>3. ASSUME NEW j \in Web, NEW p \in Projects, ExecuteFlow(j, p)
        PROVE  (FlowReachable /\ Met)'
    <3>1. PICK k \in Kinds : job' = [job EXCEPT ![j] = Called(p, k)]
      BY <2>3 DEF ExecuteFlow, Called
    <3>2. Called(p, k).pc = "call"
      BY <3>1, CalledType
    <3> QED
      BY <1>a, <1>c, <2>3, <3>1, <3>2 DEF ExecuteFlow, At
  <2>4. ASSUME NEW j \in Web, NEW s \in Schedules, RunNow(j, s)
        PROVE  (FlowReachable /\ Met)'
    <3>1. /\ job' = [job EXCEPT ![j] = Triggered(s, now, template[s])]
          /\ now \in Nat /\ template[s] \in Templates
      BY <2>4 DEF RunNow, Triggered, Sound, SchedulesTypeOK
    <3>2. Triggered(s, now, template[s]).pc = "called"
      BY <3>1, TriggeredType
    <3> QED
      BY <1>a, <1>c, <2>4, <3>1, <3>2 DEF RunNow, At
  <2> QED
    BY <1>5, <2>1, <2>2, <2>3, <2>4 DEF FlowRequest
<1>6. CASE ServerDies
  BY <1>6, IdleJobType DEF ServerDies
<1>7. CASE UNCHANGED schedulesVars
  BY <1>7, <1>b DEF schedulesVars
<1> QED
  BY <1>1, <1>2, <1>3, <1>4, <1>5, <1>6, <1>7 DEF SchedulesNext, LoopStep

LEMMA InitLoopSound == SchedulesInit => LoopSound /\ RunKnown
<1> SUFFICES ASSUME SchedulesInit PROVE LoopSound /\ RunKnown
  OBVIOUS
<1>1. LoopSound
  BY DEF SchedulesInit, LoopSound, Jobs
<1>2. RunKnown
  BY SchedulesAssumption DEF SchedulesInit, RunKnown, Never
<1> QED
  BY <1>1, <1>2

LEMMA NextLoopSound ==
  Sound /\ LoopSound /\ RunKnown /\ [SchedulesNext]_schedulesVars => (LoopSound /\ RunKnown)'
<1> SUFFICES ASSUME Sound, LoopSound, RunKnown, [SchedulesNext]_schedulesVars
             PROVE  (LoopSound /\ RunKnown)'
  OBVIOUS
<1> USE SchedulesAssumption DEF LoopSound, RunKnown
<1>a. /\ job \in [Jobs -> JobType] /\ {seen, lastRun, fired} \subseteq [Schedules -> Int]
      /\ JobsSound /\ Loop \in Jobs /\ tick \in Nat /\ batch \subseteq Schedules
      /\ enabled \subseteq Schedules /\ \A j \in Web : j # Loop /\ j \in Jobs
      /\ \A s \in batch : chosen[s] \in Templates
  BY DEF Sound, SchedulesTypeOK, Jobs
<1>b. IdleJob.pc = "idle" /\ IdleJob.sched = None
  BY DEF IdleJob
(* A step that leaves the loop, its job's schedule and the rows alone. *)
<1>c. ASSUME UNCHANGED <<loop, batch, seen, lastRun, fired, lost>>,
             \/ UNCHANGED job[Loop]
             \/ /\ loop = "busy" /\ job'[Loop].pc # "idle"
                /\ job'[Loop].sched = job[Loop].sched /\ job'[Loop].at = job[Loop].at
      PROVE  (LoopSound /\ RunKnown)'
  BY <1>c
<1>1. ASSUME NEW j \in Jobs, JobStep(j) PROVE (LoopSound /\ RunKnown)'
  <2>a. j = Loop /\ job[j].pc # "idle" => loop = "busy" /\ job[j].sched \in Schedules
    BY <1>b
  <2>1. CASE Trigger(j) \/ CallFlow(j) \/ FlowWaits(j) \/ NextModule(j)
    <3>1. UNCHANGED <<loop, batch, seen, lastRun, fired, lost>>
      BY <2>1 DEF Trigger, CallFlow, FlowWaits, NextModule, loopVars, roundVars, rowVars, historyVars
    <3>2. job[j].pc # "idle" /\ job'[j].pc # "idle" /\ job'[j].sched = job[j].sched
          /\ job'[j].at = job[j].at /\ \A k \in Jobs \ {j} : job'[k] = job[k]
      BY <1>a, <2>1 DEF Trigger, CallFlow, FlowWaits, NextModule, At, Move, JobType
    <3> QED
      BY <1>a, <1>c, <2>a, <3>1, <3>2
  <2>2. CASE FlowEnds(j)
    <3>1. UNCHANGED <<loop, batch, seen, lastRun, fired, lost>>
      BY <2>2 DEF FlowEnds, loopVars, roundVars, rowVars, historyVars
    <3>2. job' = [job EXCEPT ![j] = Over(j)] /\ job[j].pc = "flow"
      BY <2>2 DEF FlowEnds, At
    <3>3. j = Loop => Over(j).pc = "record" /\ Over(j).sched = job[j].sched
                      /\ Over(j).at = job[j].at
      BY <1>a, <2>a, <3>2 DEF Over, JobType
    <3> QED
      BY <1>a, <1>c, <2>a, <3>1, <3>2, <3>3
  <2>3. CASE Record(j) \/ RecordFails(j)
    <3>1. /\ job' = [job EXCEPT ![j] = IdleJob] /\ UNCHANGED <<batch, seen, fired>>
          /\ loop' = IF j = Loop THEN "check" ELSE loop
          /\ job[j].pc = "record" /\ job[j].sched \in Schedules /\ job[j].at \in Int
      BY <1>a, <2>3 DEF Record, RecordFails, Recorded, roundVars, At, JobsSound, JobType
    <3>2. LoopSound'
      BY <1>a, <2>a, <3>1
    <3>3. CASE RecordFails(j)
      BY <1>a, <1>b, <2>a, <3>1, <3>3 DEF RecordFails
    <3>4. CASE Record(j)
      BY <1>a, <1>b, <2>a, <3>1, <3>4 DEF Record, Saved
    <3> QED
      BY <2>3, <3>2, <3>3, <3>4
  <2> QED
    BY <1>1, <2>1, <2>2, <2>3 DEF JobStep
<1>2. ASSUME NEW s \in Schedules, FireNext(s) PROVE (LoopSound /\ RunKnown)'
  <2>1. job' = [job EXCEPT ![Loop] = Triggered(s, tick, chosen[s])] /\ s \in batch
    BY <1>2 DEF FireNext, Left, Triggered
  <2> QED
    BY <1>2, <1>a, <2>1, TriggeredType DEF FireNext, rowVars
<1>3. CASE CheckSchedules \/ CheckFails
  BY <1>3, <1>a DEF CheckSchedules, CheckFails, roundVars, rowVars, historyVars
<1>9. CASE CheckEnds \/ RoundRaises
  BY <1>9, <1>a DEF CheckEnds, RoundRaises, LoopSleeps, Forget, rowVars, historyVars
<1>4. CASE Tick
  BY <1>4, <1>c DEF Tick, loopVars, roundVars, rowVars
<1>5. CASE ScheduleRequest
  BY <1>5, <1>c DEF ScheduleRequest, Toggle, EditTemplate, CheckTemplate, ChangeTemplate,
                    ChangeTime, loopVars, roundVars, historyVars
<1>6. CASE FlowRequest
  <2>1. UNCHANGED <<loop, batch, seen, lastRun, fired, lost>>
    BY <1>6 DEF FlowRequest, StopAll, AnswerGate, ExecuteFlow, RunNow, loopVars, roundVars,
                rowVars, historyVars
  <2>2. CASE StopAll
    <3>1. /\ ~ Executing(Loop) => job'[Loop] = job[Loop]
          /\ Executing(Loop) => job'[Loop].pc \in {job[Loop].pc, "flow"}
          /\ job'[Loop].sched = job[Loop].sched /\ job'[Loop].at = job[Loop].at
      BY <1>a, <2>2, StopAllCuts
    <3> QED
      BY <1>b, <1>c, <2>1, <3>1 DEF Executing
  <2>3. ASSUME NEW p \in Projects, AnswerGate(p) PROVE (LoopSound /\ RunKnown)'
    <3>1. job[registry[p]].pc = "gate"
          /\ job' = [job EXCEPT ![registry[p]].pc = "flow"]
      BY <2>3 DEF AnswerGate, At, Move
    <3> QED
      BY <1>a, <1>b, <1>c, <2>1, <3>1 DEF JobType
  <2>4. ASSUME NEW j \in Web,
               \/ \E p \in Projects : ExecuteFlow(j, p)
               \/ \E s \in Schedules : RunNow(j, s)
        PROVE  (LoopSound /\ RunKnown)'
    <3>1. job'[Loop] = job[Loop]
      BY <1>a, <2>4 DEF ExecuteFlow, RunNow
    <3> QED
      BY <1>c, <2>1, <3>1
  <2> QED
    BY <1>6, <2>2, <2>3, <2>4 DEF FlowRequest
<1>7. CASE ServerDies \/ ServerStarts
  BY <1>7, <1>a, <1>b DEF ServerDies, ServerStarts, Forget, roundVars, At, rowVars, historyVars
<1>8. CASE UNCHANGED schedulesVars
  BY <1>8, <1>c DEF schedulesVars, loopVars, roundVars, rowVars, historyVars
<1> QED
  BY <1>1, <1>2, <1>3, <1>4, <1>5, <1>6, <1>7, <1>8, <1>9 DEF SchedulesNext, LoopStep

LEMMA InitGatesEdited == SchedulesInit => GatesEdited
BY DEF SchedulesInit, GatesEdited

LEMMA NextGatesEdited ==
  Sound /\ GatesEdited /\ [SchedulesNext]_schedulesVars => GatesEdited'
<1> SUFFICES ASSUME Sound, GatesEdited, [SchedulesNext]_schedulesVars
             PROVE  GatesEdited'
  OBVIOUS
<1> USE SchedulesAssumption DEF GatesEdited
<1>a. /\ job \in [Jobs -> JobType] /\ template \in [Schedules -> Templates]
      /\ kind \in [Templates -> Kinds] /\ change \in {None} \cup (Schedules \X Templates)
      /\ Loop \in Jobs /\ \A j \in Web : j # Loop /\ j \in Jobs
  BY DEF Sound, SchedulesTypeOK, Jobs
<1>b. IdleJob.template = None /\ None \notin Templates
  BY DEF IdleJob
(* A step that leaves the templates alone, and that only takes one from    *)
(* where it was.                                                           *)
<1>c. ASSUME UNCHANGED <<kind, edited>>, \A x \in Templates : Used(x)' => Used(x)
      PROVE  GatesEdited'
  BY <1>c
<1>d. ASSUME UNCHANGED <<kind, edited, template, chosen, change>>,
             job'[Loop].template \in {job[Loop].template, None}
      PROVE  GatesEdited'
  BY <1>b, <1>c, <1>d DEF Used
<1>1. ASSUME NEW j \in Jobs, JobStep(j) PROVE GatesEdited'
  <2>1. UNCHANGED <<kind, edited, template, chosen, change>>
    BY <1>1 DEF JobStep, Trigger, CallFlow, FlowWaits, NextModule, FlowEnds, Record,
                RecordFails, Recorded, loopVars, roundVars, rowVars, pageVars, historyVars
  <2>2. CASE Trigger(j) \/ CallFlow(j) \/ FlowWaits(j) \/ NextModule(j)
    <3>1. job'[Loop].template = job[Loop].template
      BY <1>a, <2>2 DEF Trigger, CallFlow, FlowWaits, NextModule, Move, JobType
    <3> QED
      BY <1>d, <2>1, <3>1
  <2>3. CASE FlowEnds(j)
    <3>1. job' = [job EXCEPT ![j] = Over(j)]
      BY <2>3 DEF FlowEnds
    <3>2. Over(j).template \in {job[j].template, None}
      BY <1>a, <1>b DEF Over, JobType
    <3> QED
      BY <1>a, <1>d, <2>1, <3>1, <3>2
  <2>4. CASE Record(j) \/ RecordFails(j)
    <3>1. job' = [job EXCEPT ![j] = IdleJob]
      BY <2>4 DEF Record, RecordFails, Recorded
    <3> QED
      BY <1>a, <1>b, <1>d, <2>1, <3>1
  <2> QED
    BY <1>1, <2>2, <2>3, <2>4 DEF JobStep
<1>2. ASSUME NEW s \in Schedules, FireNext(s) PROVE GatesEdited'
  <2>1. /\ job' = [job EXCEPT ![Loop] = Triggered(s, tick, chosen[s])]
        /\ tick \in Nat /\ chosen[s] \in Templates
        /\ UNCHANGED <<kind, edited, template, chosen, change>>
    BY <1>2 DEF FireNext, Left, Triggered, Sound, SchedulesTypeOK, rowVars, pageVars
  <2>2. job'[Loop].template = chosen[s]
    BY <1>a, <2>1, TriggeredType
  <2> QED
    BY <1>c, <2>1, <2>2 DEF Used
<1>3. CASE CheckSchedules
  <2>1. UNCHANGED <<kind, edited, template, change, job>> /\ chosen' = template
    BY <1>3 DEF CheckSchedules, rowVars, pageVars, historyVars
  <2> QED
    BY <1>c, <2>1 DEF Used
<1>4. CASE CheckEnds \/ RoundRaises
  <2>1. UNCHANGED <<kind, edited, template, change, job>> /\ chosen' = Unchosen
    BY <1>4 DEF CheckEnds, RoundRaises, LoopSleeps, Forget, rowVars, pageVars
  <2> QED
    BY <1>b, <1>c, <2>1 DEF Used, Unchosen
<1>5. CASE CheckFails \/ Tick \/ ServerStarts
  BY <1>5, <1>d DEF CheckFails, Tick, ServerStarts, loopVars, roundVars, rowVars, pageVars,
                    historyVars
<1>6. CASE ScheduleRequest
  <2>1. ASSUME NEW s \in Schedules, NEW x \in Templates, CheckTemplate(s, x)
        PROVE  GatesEdited'
    <3>1. /\ change' = <<s, x>> /\ kind[x] # "gate"
          /\ UNCHANGED <<kind, edited, template, chosen, job>>
      BY <2>1 DEF CheckTemplate, loopVars, roundVars, historyVars
    <3>2. ASSUME NEW y \in Templates, y # x, Used(y)' PROVE Used(y)
      BY <3>1, <3>2 DEF Used
    <3> QED
      BY <3>1, <3>2
  <2>2. CASE ChangeTemplate
    <3>1. PICK s \in Schedules, x \in Templates : change = <<s, x>>
      BY <1>a, <2>2 DEF ChangeTemplate
    <3>2. /\ template' = [template EXCEPT ![s] = x] /\ change' = None
          /\ UNCHANGED <<kind, edited, chosen, job>>
      BY <2>2, <3>1 DEF ChangeTemplate, loopVars, roundVars, historyVars
    <3>3. Used(x)
      BY <3>1 DEF Used
    <3>4. ASSUME NEW y \in Templates, y # x, Used(y)' PROVE Used(y)
      BY <1>a, <3>2, <3>4 DEF Used
    <3> QED
      BY <3>2, <3>3, <3>4
  <2>3. ASSUME NEW x \in Templates, NEW k \in Kinds, EditTemplate(x, k)
        PROVE  GatesEdited'
    <3>1. /\ kind' = [kind EXCEPT ![x] = k]
          /\ edited' = IF k = "gate" /\ Used(x) THEN edited \cup {x}
                       ELSE IF k = "gate" THEN edited ELSE edited \ {x}
          /\ \A y \in Templates : Used(y)' <=> Used(y)
      BY <2>3 DEF EditTemplate, loopVars, roundVars, Used
    <3> QED
      BY <1>a, <3>1
  <2>4. ASSUME NEW s \in Schedules, Toggle(s) \/ ChangeTime(s) PROVE GatesEdited'
    BY <1>d, <2>4 DEF Toggle, ChangeTime, loopVars, roundVars, pageVars, historyVars
  <2> QED
    BY <1>6, <2>1, <2>2, <2>3, <2>4 DEF ScheduleRequest
<1>7. CASE FlowRequest
  <2>1. UNCHANGED <<kind, edited, template, chosen, change>>
    BY <1>7 DEF FlowRequest, StopAll, AnswerGate, ExecuteFlow, RunNow, loopVars, roundVars,
                rowVars, pageVars, historyVars
  <2>2. CASE StopAll
    BY <1>a, <1>d, <2>1, <2>2, StopAllCuts
  <2>3. ASSUME NEW p \in Projects, AnswerGate(p) PROVE GatesEdited'
    <3>1. job' = [job EXCEPT ![registry[p]].pc = "flow"]
      BY <2>3 DEF AnswerGate, Move
    <3> QED
      BY <1>a, <1>d, <2>1, <3>1 DEF JobType
  <2>4. ASSUME NEW j \in Web,
               \/ \E p \in Projects : ExecuteFlow(j, p)
               \/ \E s \in Schedules : RunNow(j, s)
        PROVE  GatesEdited'
    <3>1. job'[Loop] = job[Loop]
      BY <1>a, <2>4 DEF ExecuteFlow, RunNow
    <3> QED
      BY <1>d, <2>1, <3>1
  <2> QED
    BY <1>7, <2>2, <2>3, <2>4 DEF FlowRequest
<1>8. CASE ServerDies
  <2>1. /\ UNCHANGED <<kind, edited, template>> /\ chosen' = Unchosen /\ change' = None
        /\ job'[Loop] = IdleJob
    BY <1>8, <1>a DEF ServerDies, Forget
  <2> QED
    BY <1>b, <1>c, <2>1 DEF Used, Unchosen
<1>9. CASE UNCHANGED schedulesVars
  BY <1>9, <1>d DEF schedulesVars, loopVars, roundVars, rowVars, pageVars, historyVars
<1> QED
  BY <1>1, <1>2, <1>3, <1>4, <1>5, <1>6, <1>7, <1>8, <1>9 DEF SchedulesNext, LoopStep

SchedulesInv ==
  Sound /\ LoopSound /\ RunKnown /\ FlowReachable /\ Met /\ GatesEdited

(* The invariant of the schedules and flows of core/cron_scheduler.py and  *)
(* core/engine.py, from which the three properties below follow.           *)
THEOREM SchedulesInvariant == SchedulesSpec => []SchedulesInv
<1>1. SchedulesInit => SchedulesInv
  BY InitSound, InitLoopSound, InitReachable, InitGatesEdited DEF SchedulesInv
<1>2. SchedulesInv /\ [SchedulesNext]_schedulesVars => SchedulesInv'
  BY NextSound, NextLoopSound, NextReachable, NextGatesEdited DEF SchedulesInv
<1> QED
  BY <1>1, <1>2, PTL DEF SchedulesSpec

(* Gates and cancellations reach every executing flow that met no other    *)
(* flow of its project, and no flow that has ended is left in the registry *)
(* of execute_flow and resume_flow.                                        *)
THEOREM FlowsReachable == SchedulesSpec => []FlowReachable
<1>1. SchedulesInv => FlowReachable
  BY DEF SchedulesInv
<1> QED
  BY <1>1, SchedulesInvariant, PTL

(* _trigger, which the loop awaits, executes a flow with a gate only if    *)
(* the template got the gate after a schedule had been accepted with it.   *)
THEOREM LoopHeadless == SchedulesSpec => Headless
<1> DEFINE Later == At(Loop, "called") /\ At(Loop, "call")' /\ job'[Loop].kind = "gate" =>
                      job[Loop].template \in edited
<1>1. SchedulesInv /\ [SchedulesNext]_schedulesVars => [Later]_schedulesVars
  <2> SUFFICES ASSUME SchedulesInv, SchedulesNext, At(Loop, "called"), At(Loop, "call")',
                      job'[Loop].kind = "gate"
               PROVE  job[Loop].template \in edited
    BY DEF schedulesVars
  <2>1. /\ job \in [Jobs -> JobType] /\ Loop \in Jobs /\ job[Loop].pc = "called"
        /\ job[Loop].template \in Templates /\ IdleJob.pc = "idle"
        /\ \A j \in Web : j # Loop /\ j \in Jobs
    BY SchedulesAssumption DEF SchedulesInv, Sound, SchedulesTypeOK, JobsSound, Jobs, At, IdleJob
  <2>2. job'[Loop].pc = "call"
    BY DEF At
  <2>3. Trigger(Loop)
    <3>1. ASSUME NEW j \in Jobs, JobStep(j) PROVE Trigger(Loop)
      <4>1. j = Loop
        BY <2>1, <2>2, <3>1 DEF JobStep, Trigger, CallFlow, FlowWaits, NextModule, FlowEnds,
           Record, RecordFails, Recorded, Move
      <4> QED
        BY <2>1, <2>2, <3>1, <4>1 DEF JobStep, CallFlow, FlowWaits, NextModule, FlowEnds,
           Record, RecordFails, At
    <3>2. CASE LoopStep
      <4>1. ASSUME NEW s \in Schedules, FireNext(s) PROVE FALSE
        BY <2>1, <2>2, <4>1 DEF FireNext, IdleJob
      <4> QED
        BY <2>1, <2>2, <3>2, <4>1 DEF LoopStep, CheckSchedules, CheckFails, CheckEnds,
           RoundRaises, LoopSleeps
    <3>3. CASE ScheduleRequest \/ Tick \/ ServerStarts
      BY <2>1, <2>2, <3>3 DEF ScheduleRequest, Toggle, EditTemplate, CheckTemplate,
         ChangeTemplate, ChangeTime, Tick, ServerStarts
    <3>4. CASE ServerDies
      BY <2>1, <2>2, <3>4 DEF ServerDies
    <3>5. CASE FlowRequest
      <4>1. CASE StopAll
        BY <2>1, <2>2, <4>1, StopAllCuts DEF SchedulesInv, Executing
      <4>2. ASSUME NEW p \in Projects, AnswerGate(p) PROVE FALSE
        BY <2>1, <2>2, <4>2 DEF AnswerGate, Move, At, JobType
      <4>3. ASSUME NEW j \in Web,
                   \/ \E p \in Projects : ExecuteFlow(j, p)
                   \/ \E s \in Schedules : RunNow(j, s)
            PROVE  FALSE
        BY <2>1, <2>2, <4>3 DEF ExecuteFlow, RunNow
      <4> QED
        BY <3>5, <4>1, <4>2, <4>3 DEF FlowRequest
    <3> QED
      BY <3>1, <3>2, <3>3, <3>4, <3>5 DEF SchedulesNext
  <2>4. job'[Loop].kind = kind[job[Loop].template]
    BY <2>1, <2>2, <2>3 DEF Trigger, Move, JobType
  <2> QED
    BY <2>1, <2>4 DEF SchedulesInv, GatesEdited, Used
<1>2. SchedulesSpec => [][Later]_schedulesVars
  BY <1>1, SchedulesInvariant, PTL DEF SchedulesSpec
<1> QED
  BY <1>2 DEF Headless

(* _check_schedules triggers no schedule twice within the guard time,      *)
(* unless last_run_at does not tell of the first time.                     *)
THEOREM FiresOnce == SchedulesSpec => NoDoubleFire
<1> DEFINE Once == \A s \in Schedules :
                     fired'[s] # fired[s] => fired'[s] - fired[s] >= Guard \/ s \in lost
<1>1. SchedulesInv /\ [SchedulesNext]_schedulesVars => [Once]_schedulesVars
  <2> SUFFICES ASSUME SchedulesInv, SchedulesNext PROVE Once
    BY DEF schedulesVars
  <2>1. CASE \E r \in Schedules : FireNext(r)
    <3> SUFFICES ASSUME NEW s \in Schedules, fired'[s] # fired[s], s \notin lost
                 PROVE  fired'[s] - fired[s] >= Guard
      OBVIOUS
    <3>1. {seen, fired} \subseteq [Schedules -> Int] /\ tick \in Nat
      BY DEF SchedulesInv, Sound, SchedulesTypeOK
    <3>2. FireNext(s) /\ fired'[s] = tick
      BY <2>1, <3>1 DEF FireNext
    <3>3. s \in batch /\ tick - seen[s] >= Guard
      BY <3>2 DEF FireNext, Left, ShouldRun
    <3>4. seen[s] >= fired[s]
      BY <3>3 DEF SchedulesInv, RunKnown
    <3> QED
      BY <3>1, <3>2, <3>3, <3>4, SchedulesAssumption
  <2>2. CASE ~ \E r \in Schedules : FireNext(r)
    <3>1. UNCHANGED fired
      BY <2>2 DEF SchedulesNext, Tick, LoopStep, CheckSchedules, CheckFails, CheckEnds,
           RoundRaises, LoopSleeps, JobStep, Trigger, CallFlow, FlowWaits, NextModule, FlowEnds, Record, RecordFails,
           Recorded, ScheduleRequest, Toggle, EditTemplate, CheckTemplate, ChangeTemplate,
           ChangeTime, FlowRequest, StopAll, AnswerGate, ExecuteFlow, RunNow, ServerDies, ServerStarts, historyVars
    <3> QED
      BY <3>1
  <2> QED
    BY <2>1, <2>2
<1>2. SchedulesSpec => [][Once]_schedulesVars
  BY <1>1, SchedulesInvariant, PTL DEF SchedulesSpec
<1> QED
  BY <1>2 DEF NoDoubleFire
-----------------------------------------------------------------------------
(* Division by the period: how the place in it changes from tick to tick.  *)
LEMMA Divided ==
  ASSUME NEW n \in Nat, NEW P \in Nat \ {0}
  PROVE  n = P * (n \div P) + (n % P) /\ n \div P \in Nat /\ n % P \in 0 .. P - 1
OBVIOUS

LEMMA OneRemainder ==
  ASSUME NEW P \in Nat \ {0}, NEW q \in Int, NEW r \in 0 .. P - 1,
         NEW k \in Int, NEW s \in 0 .. P - 1, P * q + r = P * k + s
  PROVE  r = s
<1>1. P * (q - k) = s - r
  OBVIOUS
<1>2. q - k >= 1 => P * (q - k) >= P
  OBVIOUS
<1>3. q - k <= -1 => P * (q - k) <= -P
  OBVIOUS
<1> QED
  BY <1>1, <1>2, <1>3

LEMMA NextRemainder ==
  ASSUME NEW n \in Nat, NEW P \in Nat \ {0}
  PROVE  (n + 1) % P = IF (n % P) + 1 < P THEN (n % P) + 1 ELSE 0
<1> DEFINE q == n \div P  r == n % P  k == (n + 1) \div P  s == (n + 1) % P
<1>1. n = P * q + r /\ q \in Nat /\ r \in 0 .. P - 1
  BY Divided
<1>2. n + 1 = P * k + s /\ k \in Nat /\ s \in 0 .. P - 1
  BY Divided, n + 1 \in Nat
<1> HIDE DEF q, r, k, s
<1>3. CASE r + 1 < P
  <2>1. P * q + (r + 1) = P * k + s
    BY <1>1, <1>2
  <2>2. r + 1 \in 0 .. P - 1
    BY <1>1, <1>3
  <2>3. s = r + 1
    BY <1>1, <1>2, <2>1, <2>2, OneRemainder
  <2> QED
    BY <1>3, <2>3 DEF s, r
<1>4. CASE ~ (r + 1 < P)
  <2>1. P * (q + 1) = P * q + P
    BY <1>1
  <2>2. r + 1 = P
    BY <1>1, <1>4
  <2>3. PICK m \in Int, z \in 0 .. P - 1 : m = q + 1 /\ z = 0
    BY <1>1
  <2>4. P * m + z = P * k + s
    BY <1>1, <1>2, <2>1, <2>2, <2>3
  <2>5. k \in Int /\ s \in 0 .. P - 1 /\ P \in Nat \ {0}
    BY <1>2
  <2>6. z = s
    BY <2>4, <2>5, OneRemainder, Zenon
  <2> QED
    BY <1>4, <2>3, <2>6 DEF s, r
<1> QED
  BY <1>1, <1>3, <1>4 DEF s, r

(* The first tick of the current window. *)
Start == now - (now % Period)

(* The loop has triggered s in this window, or may not do so. *)
Served(s) == fired[s] >= Start \/ lastRun[s] + Guard > Start

(* The loop comes to s before the window is over. *)
Awaited(s) ==
  \/ loop = "asleep" /\ wake + Late < Start + Window
  \/ loop \in {"check", "busy"} /\ s \in batch /\ seen[s] <= lastRun[s]

(* The loop wakes up in time, and in a window it has served whom it could  *)
(* judge, or will do so; a check of that window is of this very tick, since *)
(* time goes on during a check only while it awaits a flow.                 *)
WatchInv ==
  /\ wake \in Nat
  /\ loop = "asleep" => now <= wake + Late /\ wake <= now + Interval
  /\ InWindow(now) =>
       /\ loop = "down" => Schedules \subseteq excused
       /\ \A s \in Schedules \ excused :
            /\ s \in enabled
            /\ loop \in {"check", "busy"} => tick = now
            /\ Served(s) \/ Awaited(s)

(* The clock: a window has a first tick, and the next tick is in the same   *)
(* window, in none, or the first of one.                                   *)
LEMMA Clock ==
  ASSUME NEW n \in Nat
  PROVE  /\ n % Period \in 0 .. Period - 1 /\ 0 % Period = 0
         /\ Window \in 1 .. Period /\ Window <= Guard
         /\ \/ (n + 1) % Period = (n % Period) + 1
            \/ (n + 1) % Period = 0 /\ (n % Period) + 1 = Period
<1>1. Period \in Nat \ {0} /\ Window \in 1 .. Period /\ Window <= Guard
  BY SchedulesAssumption
<1>2. n % Period \in 0 .. Period - 1 /\ 0 % Period = 0
  BY <1>1
<1>3. (n + 1) % Period = IF (n % Period) + 1 < Period THEN (n % Period) + 1 ELSE 0
  BY <1>1, NextRemainder
<1> QED
  BY <1>1, <1>2, <1>3

LEMMA InitWatch == SchedulesInit => WatchInv
<1> SUFFICES ASSUME SchedulesInit PROVE WatchInv
  OBVIOUS
<1>1. Start = 0
  BY Clock DEF SchedulesInit, Start
<1> QED
  BY <1>1, SchedulesAssumption DEF SchedulesInit, WatchInv, Awaited

LEMMA TickWatch == Sound /\ WatchInv /\ Tick => WatchInv'
<1> SUFFICES ASSUME Sound, WatchInv, Tick PROVE WatchInv'
  OBVIOUS
<1> USE SchedulesAssumption
<1>1. /\ now \in Nat /\ now' = now + 1 /\ wake \in Nat /\ {lastRun, fired} \subseteq [Schedules -> Int]
      /\ UNCHANGED <<loop, wake, tick, batch, seen, enabled, lastRun, fired>>
      /\ loop \in {"down", "asleep", "busy"}
      /\ loop = "asleep" => now < wake + Late /\ wake <= now + Interval
      /\ excused' = IF ~ InWindow(now') THEN {}
                    ELSE IF loop \in {"busy", "down"} THEN Schedules
                    ELSE IF now' % Period = 0 THEN Schedules \ enabled ELSE excused
  BY DEF Sound, SchedulesTypeOK, WatchInv, Tick, Prompt, loopVars, roundVars, rowVars
<1>2. wake' \in Nat /\ (loop' = "asleep" => now' <= wake' + Late /\ wake' <= now' + Interval)
  BY <1>1
<1>3. CASE ~ InWindow(now') \/ loop # "asleep"
  BY <1>1, <1>2, <1>3 DEF WatchInv, InWindow
<1>4. CASE InWindow(now') /\ loop = "asleep" /\ now' % Period = 0
  <2>1. Start' = now' /\ wake + Late < now' + Window
    BY <1>1, <1>4 DEF Start
  <2>2. \A s \in Schedules \ excused' : s \in enabled' /\ Awaited(s)'
    BY <1>1, <1>4, <2>1 DEF Awaited
  <2> QED
    BY <1>1, <1>2, <1>4, <2>2 DEF WatchInv, InWindow
<1>5. CASE InWindow(now') /\ loop = "asleep" /\ now' % Period # 0
  <2>a. /\ now % Period \in Nat /\ now' % Period = (now % Period) + 1
        /\ now' % Period < Window /\ Window \in Nat
    BY <1>1, <1>5, Clock DEF InWindow
  <2>b. Start' = now' - (now' % Period) /\ Start = now - (now % Period)
    BY DEF Start
  <2>1. InWindow(now) /\ Start' = Start /\ excused' = excused
    BY <1>1, <1>5, <2>a, <2>b DEF InWindow
  <2> QED
    BY <1>1, <1>2, <1>5, <2>1 DEF WatchInv, InWindow, Awaited, Served
<1> QED
  BY <1>1, <1>3, <1>4, <1>5

(* A step that leaves the loop and what it goes by alone: the clock, the    *)
(* triggers, and the rows of those that are not excused.                   *)
LEMMA AsideWatch ==
  ASSUME WatchInv, UNCHANGED <<now, loop, wake, tick, batch, seen, fired>>,
         {lastRun, lastRun', seen, fired} \subseteq [Schedules -> Int], now \in Nat,
         InWindow(now) =>
           /\ excused \subseteq excused'
           /\ \A s \in Schedules \ excused' : (s \in enabled => s \in enabled') /\ lastRun[s] <= lastRun'[s]
  PROVE  WatchInv'
<1>1. InWindow(now') <=> InWindow(now)
  BY DEF InWindow
<1>2. Start' = Start /\ Start \in Int
  BY Clock DEF Start
<1>3. ASSUME InWindow(now), NEW s \in Schedules \ excused'
      PROVE  /\ s \in enabled' /\ (loop' \in {"check", "busy"} => tick' = now')
             /\ Served(s)' \/ Awaited(s)'
  <2>1. /\ s \notin excused /\ s \in enabled /\ (loop \in {"check", "busy"} => tick = now)
        /\ (Served(s) \/ Awaited(s)) /\ lastRun[s] <= lastRun'[s] /\ s \in enabled'
    BY <1>3 DEF WatchInv
  <2>2. lastRun[s] \in Int /\ lastRun'[s] \in Int /\ seen[s] \in Int /\ Guard \in Int
    BY SchedulesAssumption
  <2>3. Served(s) => Served(s)'
    BY <1>2, <2>1, <2>2 DEF Served
  <2>4. Awaited(s) => Awaited(s)'
    BY <1>2, <2>1, <2>2 DEF Awaited
  <2> QED
    BY <2>1, <2>3, <2>4
<1> QED
  BY <1>1, <1>3 DEF WatchInv

LEMMA LoopWatch == Sound /\ WatchInv /\ LoopStep => WatchInv'
<1> SUFFICES ASSUME Sound, WatchInv, LoopStep PROVE WatchInv'
  OBVIOUS
<1> USE SchedulesAssumption
<1>1. /\ now \in Nat /\ wake \in Nat /\ {seen, lastRun, fired} \subseteq [Schedules -> Int]
      /\ tick \in Nat /\ now % Period \in 0 .. Period - 1
  BY Clock DEF Sound, SchedulesTypeOK, WatchInv
<1>2. now' = now => Start' = Start /\ Start \in Int /\ Start <= now /\ (InWindow(now') <=> InWindow(now))
  BY <1>1 DEF Start, InWindow
<1>3. CASE CheckSchedules
  BY <1>1, <1>2, <1>3 DEF CheckSchedules, WatchInv, Awaited, Served, rowVars, historyVars
<1>4. CASE CheckFails
  BY <1>1, <1>2, <1>4 DEF CheckFails, roundVars, WatchInv
<1>5. ASSUME NEW r \in Schedules, FireNext(r) PROVE WatchInv'
  <2>1. /\ loop = "check" /\ loop' = "busy" /\ batch' = batch \ {r} /\ fired' = [fired EXCEPT ![r] = tick]
        /\ UNCHANGED <<now, wake, tick, seen, enabled, lastRun, excused>>
    BY <1>5 DEF FireNext, rowVars
  <2>2. ASSUME NEW s \in Schedules \ excused, InWindow(now)
        PROVE  s \in enabled' /\ tick' = now' /\ (Served(s)' \/ Awaited(s)')
    <3>1. s \in enabled /\ tick = now /\ (Served(s) \/ Awaited(s))
      BY <2>1, <2>2 DEF WatchInv
    <3>2. CASE s = r
      BY <1>1, <1>2, <2>1, <3>1, <3>2 DEF Served
    <3>3. CASE s # r
      BY <1>1, <1>2, <2>1, <3>1, <3>3 DEF Served, Awaited
    <3> QED
      BY <2>1, <3>1, <3>2, <3>3
  <2> QED
    BY <1>1, <1>2, <2>1, <2>2 DEF WatchInv
<1>6. CASE CheckEnds \/ RoundRaises
  <2>1. /\ loop = "check" /\ loop' = "asleep" /\ wake' = now + Interval
        /\ UNCHANGED <<now, enabled, lastRun, fired>>
        /\ InWindow(now) => excused' = excused \cup Left
    BY <1>6 DEF CheckEnds, RoundRaises, LoopSleeps, rowVars
  <2>2. ASSUME NEW s \in Schedules \ excused', InWindow(now)
        PROVE  s \in enabled' /\ Served(s)'
    <3>1. s \in enabled /\ tick = now /\ (Served(s) \/ (s \in batch /\ seen[s] <= lastRun[s]))
      BY <2>1, <2>2 DEF WatchInv, Awaited
    <3>2. s \in batch => ~ ShouldRun(s, seen[s], tick)
      BY <2>1, <2>2 DEF Left
    <3>3. s \in batch => now - seen[s] < Guard
      BY <1>1, <2>2, <3>1, <3>2 DEF ShouldRun
    <3>4. Served(s)
      BY <1>1, <1>2, <2>1, <3>1, <3>3 DEF Served
    <3> QED
      BY <1>2, <2>1, <3>1, <3>4 DEF Served
  <2> QED
    BY <1>1, <1>2, <2>1, <2>2 DEF WatchInv
<1> QED
  BY <1>3, <1>4, <1>5, <1>6 DEF LoopStep

LEMMA RecordWatch ==
  ASSUME Sound, LoopSound, WatchInv, NEW j \in Jobs, Record(j) \/ RecordFails(j)
  PROVE  WatchInv'
<1> DEFINE r == job[j].sched  a == job[j].at
<1>1. /\ now \in Nat /\ {seen, lastRun, fired} \subseteq [Schedules -> Int]
      /\ r \in Schedules /\ a \in Nat
  BY DEF Sound, SchedulesTypeOK, JobsSound, Record, RecordFails, At, JobType
<1>2. /\ UNCHANGED <<now, wake, tick, batch, seen, enabled, fired>>
      /\ loop' = IF j = Loop THEN "check" ELSE loop
      /\ j = Loop => loop = "busy"
  BY DEF Record, RecordFails, Recorded, roundVars, LoopSound, At, IdleJob
<1>3. \/ UNCHANGED <<lastRun, excused>>
      \/ /\ lastRun' = [lastRun EXCEPT ![r] = a]
         /\ excused' = IF InWindow(now) /\ a < lastRun[r] THEN excused \cup {r} ELSE excused
  BY DEF Record, RecordFails, Saved
<1> HIDE DEF r, a
<1>4. lastRun' \in [Schedules -> Int] /\ Start \in Int /\ Guard \in Int
  BY <1>1, <1>3, Clock, SchedulesAssumption DEF Start
<1>5. Start' = Start /\ (InWindow(now)' <=> InWindow(now))
  BY <1>2 DEF Start, InWindow
<1>6. ASSUME InWindow(now), NEW s \in Schedules \ excused'
      PROVE  /\ s \in enabled' /\ (loop' \in {"check", "busy"} => tick' = now')
             /\ Served(s)' \/ Awaited(s)'
  <2>1. s \notin excused /\ lastRun[s] <= lastRun'[s]
    BY <1>1, <1>3, <1>6
  <2>2. s \in enabled /\ (loop \in {"check", "busy"} => tick = now) /\ (Served(s) \/ Awaited(s))
    BY <1>6, <2>1 DEF WatchInv
  <2>3. lastRun[s] \in Int /\ lastRun'[s] \in Int /\ seen[s] \in Int
    BY <1>1, <1>4
  <2>4. Served(s) => Served(s)'
    BY <1>2, <1>4, <1>5, <2>1, <2>3 DEF Served
  <2>5. Awaited(s) => Awaited(s)'
    BY <1>2, <1>5, <2>1, <2>3 DEF Awaited
  <2> QED
    BY <1>2, <2>2, <2>4, <2>5
<1>7. /\ wake' \in Nat /\ loop' = "asleep" => now' <= wake' + Late /\ wake' <= now' + Interval
  BY <1>2 DEF WatchInv
<1>8. InWindow(now) /\ loop' = "down" => Schedules \subseteq excused'
  BY <1>2, <1>3 DEF WatchInv
<1> QED
  BY <1>2, <1>5, <1>6, <1>7, <1>8 DEF WatchInv, InWindow

LEMMA NextWatch == Sound /\ Sound' /\ LoopSound /\ WatchInv /\ [SchedulesNext]_schedulesVars => WatchInv'
<1> SUFFICES ASSUME Sound, Sound', LoopSound, WatchInv, [SchedulesNext]_schedulesVars
             PROVE  WatchInv'
  OBVIOUS
<1>1. /\ now \in Nat /\ {seen, lastRun, lastRun', fired} \subseteq [Schedules -> Int]
  BY DEF Sound, SchedulesTypeOK
<1>2. \A s \in Schedules : lastRun[s] <= lastRun[s]
  BY <1>1
<1>3. ASSUME NEW j \in Jobs, JobStep(j) PROVE WatchInv'
  <2>1. CASE Record(j) \/ RecordFails(j)
    BY <2>1, RecordWatch
  <2>2. CASE ~ (Record(j) \/ RecordFails(j))
    <3>1. UNCHANGED <<now, loop, wake, tick, batch, seen, fired, enabled, lastRun, excused>>
      BY <1>3, <2>2 DEF JobStep, Trigger, CallFlow, FlowWaits, NextModule, FlowEnds, loopVars, roundVars,
                  rowVars, historyVars
    <3> QED
      BY <1>1, <1>2, <3>1, AsideWatch
  <2> QED
    BY <2>1, <2>2
<1>4. CASE ScheduleRequest
  BY <1>1, <1>2, <1>4, AsideWatch DEF ScheduleRequest, Toggle, EditTemplate,
     CheckTemplate, ChangeTemplate, ChangeTime, loopVars, roundVars, historyVars
<1>5. CASE FlowRequest
  <2>1. UNCHANGED <<now, loop, wake, tick, batch, seen, fired, enabled, lastRun, excused>>
    BY <1>5 DEF FlowRequest, StopAll, AnswerGate, ExecuteFlow, RunNow, loopVars, roundVars,
                rowVars, historyVars
  <2> QED
    BY <1>1, <1>2, <2>1, AsideWatch
<1>6. CASE ServerDies
  BY <1>6 DEF ServerDies, WatchInv, InWindow
<1>7. CASE ServerStarts
  BY <1>1, <1>7, SchedulesAssumption DEF ServerStarts, WatchInv, InWindow, historyVars
<1>8. CASE UNCHANGED schedulesVars
  BY <1>1, <1>2, <1>8, AsideWatch DEF schedulesVars, loopVars, roundVars, rowVars, historyVars
<1> QED
  BY <1>3, <1>4, <1>5, <1>6, <1>7, <1>8, TickWatch, LoopWatch DEF SchedulesNext

(* _check_schedules comes to every enabled schedule in each of its windows  *)
(* and triggers it, unless it was just run or the loop was kept from it.    *)
THEOREM NoneMissed == SchedulesSpec => NotMissed
<1> DEFINE Caught == now' # now /\ InWindow(now) /\ ~ InWindow(now') =>
                       LET start == now - (now % Period) IN
                       \A s \in Schedules \ (excused \cup Left) :
                         fired[s] >= start \/ lastRun[s] + Guard > start
<1>1. SchedulesInit => WatchInv
  BY InitWatch
<1>2. SchedulesInv /\ SchedulesInv' /\ WatchInv /\ [SchedulesNext]_schedulesVars => WatchInv'
  BY NextWatch DEF SchedulesInv
<1>3. SchedulesInv /\ WatchInv /\ [SchedulesNext]_schedulesVars => [Caught]_schedulesVars
  <2> SUFFICES ASSUME SchedulesInv, WatchInv, SchedulesNext,
                      now' # now, InWindow(now), ~ InWindow(now'),
                      NEW s \in Schedules, s \notin excused, s \notin Left
               PROVE  Served(s)
    BY DEF schedulesVars, Served, Start
  <2>1. Tick
    BY DEF SchedulesNext, LoopStep, CheckSchedules, CheckFails, CheckEnds, RoundRaises,
       LoopSleeps, FireNext, JobStep, Trigger, CallFlow, FlowWaits, NextModule, FlowEnds, Record, RecordFails,
       Recorded, ScheduleRequest, Toggle, EditTemplate, CheckTemplate, ChangeTemplate,
       ChangeTime, FlowRequest, StopAll, AnswerGate, ExecuteFlow, RunNow, ServerDies, ServerStarts
  <2>2. /\ now \in Nat /\ now' = now + 1 /\ wake \in Nat /\ Late \in Nat /\ loop # "check"
        /\ loop = "asleep" => now < wake + Late
        /\ lastRun[s] \in Int /\ seen[s] \in Int /\ Guard \in Nat /\ Window \in Nat
    BY <2>1, SchedulesAssumption DEF SchedulesInv, Sound, SchedulesTypeOK, WatchInv, Tick, Prompt
  <2>3. /\ loop \in {"check", "busy"} => tick = now
        /\ Served(s) \/ Awaited(s)
    BY DEF WatchInv
  <2>4. now % Period = Window - 1
    BY <2>2, Clock DEF InWindow
  <2>5. CASE loop = "asleep"
    BY <2>2, <2>3, <2>4, <2>5 DEF Awaited, Start
  <2>6. CASE loop # "asleep" /\ ~ Served(s)
    <3>1. s \in batch /\ seen[s] <= lastRun[s] /\ tick = now
      BY <2>2, <2>3, <2>6 DEF Awaited
    <3>2. now - seen[s] < Guard
      BY <2>2, <3>1 DEF Left, ShouldRun
    <3>3. Start \in Int /\ Start <= now
      BY <2>2, Clock DEF Start
    <3>4. lastRun[s] + Guard > Start
      BY <2>2, <3>1, <3>2, <3>3
    <3> QED
      BY <3>4 DEF Served
  <2> QED
    BY <2>5, <2>6
<1>4. SchedulesSpec => []WatchInv
  BY <1>1, <1>2, SchedulesInvariant, PTL DEF SchedulesSpec
<1>5. SchedulesSpec => [][Caught]_schedulesVars
  BY <1>3, <1>4, SchedulesInvariant, PTL DEF SchedulesSpec
<1> QED
  BY <1>5 DEF NotMissed
=============================================================================
