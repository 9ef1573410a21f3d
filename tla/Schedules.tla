----------------------------- MODULE Schedules -----------------------------
(***************************************************************************)
(* Schedules and flows: the background loop of core/cron_scheduler.py, the *)
(* requests of the schedules page (web/app.py), and the registry of active *)
(* flow executors in core/engine.py, through which users answer gates and  *)
(* cancel flows.                                                           *)
(*                                                                         *)
(* A job is a coroutine that executes a flow: the loop's own trigger, a    *)
(* manual trigger of a schedule, or a flow a user executes or resumes.     *)
(* What a flow does inside is GraphExecutor's; here it runs module after   *)
(* module, may wait at a gate, and ends.                                   *)
(*                                                                         *)
(* Time is counted in ticks; a schedule is due in the first Window ticks   *)
(* of every Period.                                                        *)
(***************************************************************************)
EXTENDS Integers, FiniteSets

CONSTANTS
  Schedules, Projects, Templates,
  ProjectOf,    \* the project of each schedule
  Web,          \* the background tasks of web requests
  Loop,         \* the loop, as the job that executes what it triggers
  None,
  Modules,      \* modules of a flow
  Period,       \* how often a schedule is due
  Window,       \* for how many ticks it is (two minutes)
  Guard,        \* not due so soon after the last run (55 minutes of an hour)
  Interval,     \* the loop sleeps so long between two checks
  Late,         \* and may wake up so much later
  Horizon,      \* bound: the last tick
  MaxRequests   \* bound: what users ask for, restarts and faults

Jobs == Web \cup {Loop}
Never == 0 - Guard

ASSUME SchedulesAssumption ==
  /\ ProjectOf \in [Schedules -> Projects]
  /\ Loop \notin Web /\ Templates # {}
  /\ None \notin Jobs \cup Schedules \cup Templates \cup (Schedules \X Templates)
  /\ {Modules, Interval} \subseteq Nat \ {0}
  /\ {Period, Window, Guard, Late, Horizon, MaxRequests} \subseteq Nat
  /\ Interval + Late <= Window /\ Window <= Guard /\ Guard + Window <= Period + 1

VARIABLES
  now,        \* the clock
  loop,       \* down, asleep, check (going through the schedules), busy
  wake,       \* when the loop wakes up
  tick,       \* the time of its current check
  batch,      \* the schedules it has not come to yet
  seen,       \* their last_run_at as the check has read it
  chosen,     \* their template_id as the check has read it
  untimed,    \* those it has read without a time
  enabled,    \* schedules.enabled
  template,   \* schedules.template_id
  timeless,   \* schedules whose time_of_day is null
  kind,       \* what waits for a user in the flow of each template
  change,     \* <<schedule, template>> that was checked but is not written
  lastRun,    \* schedules.last_run_at
  showing,    \* CronScheduler._running_schedule_ids
  job,        \* where each coroutine stands
  registry,   \* Taktis._active_flow_executors
  crossed,    \* history: jobs whose flow met another one of its project
  edited,     \* history: templates that got their gate while they were used
  fired,      \* history: the last check at which the loop triggered
  lost,       \* history: schedules whose last_run_at is not that check
  excused,    \* history: schedules the loop could not judge in this window
  requests

roundVars == <<tick, batch, seen, chosen, untimed>>
loopVars == <<loop, wake, roundVars>>
pageVars == <<template, timeless, kind, change>>
rowVars == <<enabled, lastRun, pageVars>>
flowVars == <<registry, crossed>>
historyVars == <<edited, fired, lost, excused>>
schedulesVars == <<now, loopVars, rowVars, showing, job, flowVars, historyVars, requests>>

(* called: create_task, or the loop is about to await it; call: the flow   *)
(* is about to be registered; flow, gate: it executes; record: over.       *)
JobPcs == {"idle", "called", "call", "flow", "gate", "record"}
Unread == [s \in Schedules |-> Never]
Unchosen == [s \in Schedules |-> None]
IdleJob == [pc |-> "idle", sched |-> None, project |-> None, at |-> 0,
            template |-> None, kind |-> "plain", module |-> 0, cancelled |-> FALSE]

(* gate: with a human gate or an interactive agent; plan: with a plan that *)
(* awaits its approval; plain: with nothing that waits for a user.         *)
Kinds == {"plain", "gate", "plan"}

SchedulesInit ==
  /\ now = 0
  /\ loop = "asleep" /\ wake = 0 /\ tick = 0 /\ batch = {}
  /\ seen = Unread /\ chosen = Unchosen /\ untimed = {}
  /\ enabled = Schedules /\ timeless = {} /\ change = None
  /\ template = [s \in Schedules |-> CHOOSE x \in Templates : TRUE]
  /\ kind = [x \in Templates |-> "plain"]
  /\ lastRun = [s \in Schedules |-> Never]
  /\ showing = {}
  /\ job = [j \in Jobs |-> IdleJob]
  /\ registry = [p \in Projects |-> None]
  /\ crossed = {} /\ edited = {} /\ lost = {} /\ excused = {}
  /\ fired = [s \in Schedules |-> Never]
  /\ requests = 0

At(j, pc) == job[j].pc = pc
Executing(j) == job[j].pc \in {"flow", "gate"}
Move(j, pc) == job' = [job EXCEPT ![j].pc = pc]
Request == requests < MaxRequests /\ requests' = requests + 1
-----------------------------------------------------------------------------
(* Mutant of InWindow: minute < 1. *)
InWindowShort(t) == t % Period < Window - 1

InWindow(t) == t % Period < Window

(* _should_run. *)
ShouldRun(s, last, t) == t - last >= Guard /\ InWindow(t)

(* What the loop does takes less than a tick, unless it awaits a flow.     *)
Prompt ==
  /\ loop # "check"
  /\ loop = "asleep" => now < wake + Late
  /\ \A j \in Jobs : ~ At(j, "called") /\ ~ At(j, "call") /\ ~ At(j, "record")

(* The clock goes on; history: whom the loop could not serve by then.      *)
Tick ==
  /\ now < Horizon
  /\ Prompt
  /\ now' = now + 1
  /\ excused' = IF ~ InWindow(now') THEN {}
                ELSE IF loop \in {"busy", "down"} THEN Schedules
                ELSE IF now' % Period = 0 THEN Schedules \ enabled ELSE excused
  /\ UNCHANGED <<loopVars, rowVars, showing, job, flowVars, edited, fired, lost, requests>>

(* _check_schedules: the rows are read once, for the whole round.          *)
CheckSchedules ==
  /\ loop = "asleep" /\ now >= wake
  /\ loop' = "check"
  /\ tick' = now
  /\ batch' = enabled
  /\ seen' = lastRun /\ chosen' = template /\ untimed' = timeless
  /\ wake' = 0
  /\ UNCHANGED <<now, rowVars, showing, job, flowVars, historyVars, requests>>

(* The rows cannot be read: logged, and the loop sleeps. *)
CheckFails ==
  /\ Request
  /\ loop = "asleep" /\ now >= wake
  /\ wake' = now + Interval
  /\ excused' = IF InWindow(now) THEN Schedules ELSE excused
  /\ UNCHANGED <<now, loop, roundVars, rowVars, showing, job, flowVars, edited,
                 fired, lost>>

(* Those the check still has to trigger, or cannot judge. *)
Left == {s \in batch : s \in untimed \/ ShouldRun(s, seen[s], tick)}

(* One trigger after the other, each awaited. *)
FireNext(s) ==
  /\ loop = "check"
  /\ s \in Left \ untimed
  /\ batch' = batch \ {s}
  /\ loop' = "busy"
  /\ job' = [job EXCEPT ![Loop] = [IdleJob EXCEPT !.pc = "called", !.sched = s,
                                     !.project = ProjectOf[s], !.at = tick,
                                     !.template = chosen[s]]]
  /\ fired' = [fired EXCEPT ![s] = tick]
  /\ UNCHANGED <<now, wake, tick, seen, chosen, untimed, rowVars, showing, flowVars,
                 edited, lost, excused, requests>>

Forget ==
  /\ batch' = {} /\ tick' = 0
  /\ seen' = Unread /\ chosen' = Unchosen /\ untimed' = {}

LoopSleeps ==
  /\ loop' = "asleep"
  /\ wake' = now + Interval
  /\ Forget
  /\ UNCHANGED <<now, rowVars, showing, job, flowVars, edited, fired, lost, requests>>

CheckEnds ==
  /\ loop = "check"
  /\ Left = {}
  /\ LoopSleeps /\ UNCHANGED excused

(* _should_run raises on a null time_of_day, whatever the frequency: the    *)
(* round is over for every schedule behind that one.                        *)
RoundRaises ==
  /\ loop = "check"
  /\ batch \cap untimed # {}
  /\ excused' = IF InWindow(now) THEN excused \cup Left ELSE excused
  /\ LoopSleeps
-----------------------------------------------------------------------------
(* _trigger: the template the caller's row names is loaded as it is now;    *)
(* without it the run is over.                                              *)
Trigger(j) ==
  /\ At(j, "called")
  /\ showing' = showing \cup {job[j].sched}
  /\ \/ job' = [job EXCEPT ![j].pc = "call", ![j].kind = kind[job[j].template]]
     \/ Move(j, "record")
  /\ UNCHANGED <<now, loopVars, rowVars, flowVars, historyVars, requests>>

(* execute_flow and resume_flow register the executor under its project,   *)
(* whatever is there.                                                      *)
CallFlow(j) ==
  LET others == {k \in Jobs \ {j} : Executing(k) /\ job[k].project = job[j].project} IN
  /\ At(j, "call")
  /\ job' = [job EXCEPT ![j].pc = "flow", ![j].module = 1]
  /\ registry' = [registry EXCEPT ![job[j].project] = j]
  /\ crossed' = IF others = {} THEN crossed \ {j} ELSE crossed \cup others \cup {j}
  /\ UNCHANGED <<now, loopVars, rowVars, showing, historyVars, requests>>

FlowWaits(j) ==
  /\ At(j, "flow")
  /\ job[j].kind # "plain" /\ ~ job[j].cancelled
  /\ Move(j, "gate")
  /\ UNCHANGED <<now, loopVars, rowVars, showing, flowVars, historyVars, requests>>

(* execute_multi: the next module, also after one that failed. *)
NextModule(j) ==
  /\ At(j, "flow")
  /\ job[j].module < Modules
  /\ job' = [job EXCEPT ![j].module = @ + 1]
  /\ UNCHANGED <<now, loopVars, rowVars, showing, flowVars, historyVars, requests>>

Over(j) == IF job[j].sched = None THEN IdleJob ELSE [job[j] EXCEPT !.pc = "record"]

(* Mutant of FlowEnds: the registry keeps the executor. *)
FlowEndsRegistered(j) ==
  /\ At(j, "flow")
  /\ job' = [job EXCEPT ![j] = Over(j)]
  /\ UNCHANGED <<now, loopVars, rowVars, showing, flowVars, historyVars, requests>>

(* The flow is over or has raised: the entry of the project is removed,    *)
(* whosever it is.                                                         *)
FlowEnds(j) ==
  /\ At(j, "flow")
  /\ job' = [job EXCEPT ![j] = Over(j)]
  /\ registry' = [registry EXCEPT ![job[j].project] = None]
  /\ UNCHANGED <<now, loopVars, rowVars, showing, crossed, historyVars, requests>>

Recorded(j) ==
  /\ showing' = showing \ {job[j].sched}
  /\ job' = [job EXCEPT ![j] = IdleJob]
  /\ loop' = IF j = Loop THEN "check" ELSE loop
  /\ UNCHANGED <<now, wake, roundVars, enabled, pageVars, flowVars, edited, fired>>

(* History: a run that was called before the latest one and ends after it  *)
(* puts last_run_at back, behind what a check of this window may have read. *)
Saved(j) ==
  LET s == job[j].sched IN
  /\ lastRun' = [lastRun EXCEPT ![s] = job[j].at]
  /\ excused' = IF InWindow(now) /\ job[j].at < lastRun[s] THEN excused \cup {s}
                ELSE excused
  /\ lost' = IF j = Loop THEN lost \ {s}
             ELSE IF job[j].at < fired[s] THEN lost \cup {s} ELSE lost

(* Mutant of Record: only a run that went well is written. *)
RecordSuccess(j) ==
  /\ At(j, "record")
  /\ IF job[j].module = Modules THEN Saved(j) ELSE UNCHANGED <<lastRun, lost, excused>>
  /\ Recorded(j) /\ UNCHANGED requests

(* last_run_at is the time the trigger was called with, written now. *)
Record(j) ==
  /\ At(j, "record")
  /\ Saved(j)
  /\ Recorded(j) /\ UNCHANGED requests

(* It cannot be written; the exception is swallowed. *)
RecordFails(j) ==
  /\ Request
  /\ At(j, "record")
  /\ lost' = IF j = Loop THEN lost \cup {job[j].sched} ELSE lost
  /\ Recorded(j)
  /\ UNCHANGED <<lastRun, excused>>
-----------------------------------------------------------------------------
(* api_run_schedule_now: shown as running before the task has started. *)
RunNow(j, s) ==
  /\ Request
  /\ At(j, "idle")
  /\ showing' = showing \cup {s}
  /\ job' = [job EXCEPT ![j] = [IdleJob EXCEPT !.pc = "called", !.sched = s,
                                  !.project = ProjectOf[s], !.at = now,
                                  !.template = template[s]]]
  /\ UNCHANGED <<now, loopVars, rowVars, flowVars, historyVars>>

(* api_execute_flow and api_resume_pipeline, with any template. *)
ExecuteFlow(j, p) ==
  /\ Request
  /\ At(j, "idle")
  /\ \E k \in Kinds :
       job' = [job EXCEPT ![j] = [IdleJob EXCEPT !.pc = "call", !.project = p, !.kind = k]]
  /\ UNCHANGED <<now, loopVars, rowVars, showing, flowVars, historyVars>>

(* approve_gate, reject_gate and approve_flow_plan, through the registry. *)
AnswerGate(p) ==
  /\ registry[p] # None
  /\ At(registry[p], "gate")
  /\ Move(registry[p], "flow")
  /\ UNCHANGED <<now, loopVars, rowVars, showing, flowVars, historyVars, requests>>

Cancel(jobs) ==
  job' = [j \in Jobs |-> IF j \notin jobs \/ ~ Executing(j) THEN job[j]
                         ELSE [job[j] EXCEPT !.pc = "flow", !.cancelled = TRUE]]

(* stop_all cancels the flows of every project. *)
StopAll ==
  /\ Request
  /\ Cancel({registry[p] : p \in Projects})
  /\ UNCHANGED <<now, loopVars, rowVars, showing, flowVars, historyVars>>

(* Mutant of CheckTemplate: the new template is not looked at. *)
CheckTemplateBlindly(s, x) ==
  /\ Request
  /\ change = None
  /\ change' = <<s, x>>
  /\ UNCHANGED <<now, loopVars, enabled, template, timeless, kind, lastRun, showing, job,
                 flowVars, historyVars>>

(* api_create_schedule and api_update_schedule refuse a template in which  *)
(* detect_interactive_nodes finds a gate or an interactive agent.  Bound:  *)
(* one request at a time is between that and its write.                    *)
CheckTemplate(s, x) ==
  /\ Request
  /\ change = None
  /\ x # template[s] /\ kind[x] # "gate"
  /\ change' = <<s, x>>
  /\ UNCHANGED <<now, loopVars, enabled, template, timeless, kind, lastRun, showing, job,
                 flowVars, historyVars>>

(* They write the row in a session of its own. *)
ChangeTemplate ==
  /\ change # None
  /\ template' = [template EXCEPT ![change[1]] = change[2]]
  /\ change' = None
  /\ UNCHANGED <<now, loopVars, enabled, timeless, kind, lastRun, showing, job, flowVars,
                 historyVars, requests>>

(* A template that a schedule has been accepted with. *)
Used(x) ==
  \/ \E s \in Schedules : template[s] = x \/ chosen[s] = x \/ change = <<s, x>>
  \/ job[Loop].template = x

(* The template itself is edited; nobody asks the schedules that use it.   *)
EditTemplate(x, k) ==
  /\ Request
  /\ kind' = [kind EXCEPT ![x] = k]
  /\ edited' = IF k = "gate" /\ Used(x) THEN edited \cup {x}
               ELSE IF k = "gate" THEN edited ELSE edited \ {x}
  /\ UNCHANGED <<now, loopVars, enabled, template, timeless, change, lastRun, showing,
                 job, flowVars, fired, lost, excused>>

(* Both requests take any JSON for time_of_day; a time is given again.      *)
ChangeTime(s) ==
  /\ Request
  /\ timeless' = IF s \in timeless THEN timeless \ {s} ELSE timeless \cup {s}
  /\ UNCHANGED <<now, loopVars, enabled, template, kind, change, lastRun, showing, job,
                 flowVars, historyVars>>

(* api_toggle_schedule; a schedule that is deleted is never due again.     *)
Toggle(s) ==
  /\ Request
  /\ enabled' = IF s \in enabled THEN enabled \ {s} ELSE enabled \cup {s}
  /\ excused' = IF InWindow(now) THEN excused \cup {s} ELSE excused
  /\ UNCHANGED <<now, loopVars, pageVars, lastRun, showing, job, flowVars, edited, fired,
                 lost>>

(* The server dies; what was not recorded is lost. *)
ServerDies ==
  /\ Request
  /\ loop # "down"
  /\ loop' = "down"
  /\ Forget /\ wake' = 0
  /\ showing' = {} /\ change' = None
  /\ job' = [j \in Jobs |-> IdleJob]
  /\ registry' = [p \in Projects |-> None]
  /\ crossed' = {}
  /\ lost' = IF At(Loop, "idle") THEN lost ELSE lost \cup {job[Loop].sched}
  /\ excused' = IF InWindow(now) THEN Schedules ELSE excused
  /\ UNCHANGED <<now, enabled, template, timeless, kind, lastRun, edited, fired>>

(* initialize starts the loop, which checks at once. *)
ServerStarts ==
  /\ loop = "down"
  /\ loop' = "asleep" /\ wake' = now
  /\ UNCHANGED <<now, roundVars, rowVars, showing, job, flowVars, historyVars, requests>>
-----------------------------------------------------------------------------
JobStep(j) ==
  \/ Trigger(j) \/ CallFlow(j) \/ FlowWaits(j) \/ NextModule(j) \/ FlowEnds(j)
  \/ Record(j) \/ RecordFails(j)

LoopStep ==
  CheckSchedules \/ CheckFails \/ (\E s \in Schedules : FireNext(s)) \/ CheckEnds
  \/ RoundRaises

ScheduleRequest ==
  \/ ChangeTemplate
  \/ \E s \in Schedules : Toggle(s) \/ ChangeTime(s)
  \/ \E x \in Templates :
       \/ \E k \in Kinds : EditTemplate(x, k)
       \/ \E s \in Schedules : CheckTemplate(s, x)

FlowRequest ==
  \/ StopAll
  \/ \E p \in Projects : AnswerGate(p)
  \/ \E j \in Web :
       \/ \E p \in Projects : ExecuteFlow(j, p)
       \/ \E s \in Schedules : RunNow(j, s)

SchedulesNext ==
  \/ Tick \/ LoopStep \/ (\E j \in Jobs : JobStep(j))
  \/ (loop # "down" /\ (ScheduleRequest \/ FlowRequest))
  \/ ServerDies \/ ServerStarts

SchedulesSpec == SchedulesInit /\ [][SchedulesNext]_schedulesVars
-----------------------------------------------------------------------------
(* Users answer and cancel a flow through the registry: as long as it      *)
(* executes it is there, unless it met another flow of its project, and    *)
(* nothing that has ended is.                                              *)
FlowReachable ==
  /\ \A j \in Jobs : Executing(j) => registry[job[j].project] = j \/ j \in crossed
  /\ \A p \in Projects : registry[p] # None =>
       Executing(registry[p]) /\ job[registry[p]].project = p

(* The loop triggers a schedule once in a window: again only when the      *)
(* guard time has passed, or when last_run_at does not tell, because the   *)
(* server died in the flow or a manual run, called earlier, ended later.   *)
NoDoubleFire ==
  [][ \A s \in Schedules : fired'[s] # fired[s] =>
        fired'[s] - fired[s] >= Guard \/ s \in lost ]_schedulesVars

(* No window of an enabled schedule passes without a trigger, unless the   *)
(* loop was held by the flow of another schedule (the schedules of the     *)
(* same check then come late), the server was down, the rows could not be  *)
(* read, a check of the window ended at a schedule without a time, or the  *)
(* schedule has just been run.  (Of two manual runs at once, the one       *)
(* called first may end last and put last_run_at back.)                    *)
NotMissed ==
  [][ now' # now /\ InWindow(now) /\ ~ InWindow(now') =>
        LET start == now - (now % Period) IN
        \A s \in Schedules \ (excused \cup Left) :
          fired[s] >= start \/ lastRun[s] + Guard > start
    ]_schedulesVars

(* The loop, which awaits what it triggers, executes a flow with a gate    *)
(* only if its template got the gate after a schedule was accepted with it: *)
(* while a schedule used it, between a request's check and its write, or   *)
(* when a check had read it.  (detect_interactive_nodes does not look for  *)
(* plans, which await an approval, too.)                                   *)
Headless ==
  [][ At(Loop, "called") /\ At(Loop, "call")' /\ job'[Loop].kind = "gate" =>
        job[Loop].template \in edited
    ]_schedulesVars
=============================================================================
