---------------------------- MODULE PhaseReview ----------------------------
(***************************************************************************)
(* taktis/core/phase_review.py with its callers: the review of a finished  *)
(* phase, the fixes and re-reviews that follow while it names CRITICALs,   *)
(* and what a restarted server does with a cycle that was cut off          *)
(* (core/crash_recovery.py).                                               *)
(*                                                                         *)
(* Three kinds of coroutine ("runners") execute phases or drive a cycle:   *)
(*   Hands     run_phase and resume_phase, one background task per request *)
(*   Project   run_project, which goes through the phases in order         *)
(*   Recovery  recover_unprocessed_reviews, started with the server        *)
(* The waves of a phase are one work row here (WaveScheduler has them      *)
(* apart); of the rows of its reviews and fixes the model keeps what the   *)
(* code reads of them again.                                               *)
(***************************************************************************)
EXTENDS Integers

CONSTANTS
  LastPhase,    \* the phases are 1..LastPhase, in phase_number order
  Reviewed,     \* the phases with phase_review enabled
  MaxAttempts,  \* _MAX_REVIEW_ATTEMPTS
  ByHand,       \* the phases users run and resume by themselves
  Hands,        \* the background tasks of run_phase and resume_phase
  Project,      \* the background task of run_project
  Recovery,     \* the background task of the recovery
  MaxRequests,  \* bound: what users ask for (run, resume, run project, stop)
  MaxCrashes,   \* bound: how often the server dies
  MaxReviews    \* bound: first reviews and fixes of a phase; never reached

Phases == 1..LastPhase
Runners == Hands \cup {Project, Recovery}

ASSUME PhaseReviewAssumption ==
  /\ LastPhase \in Nat \ {0} /\ Reviewed \cup ByHand \subseteq Phases
  /\ {MaxAttempts, MaxRequests, MaxCrashes, MaxReviews} \subseteq Nat
  /\ Project # Recovery /\ {Project, Recovery} \cap Hands = {}

VARIABLES
  status,      \* phases.status
  checkpoint,  \* the phases whose current_wave is set
  work,        \* the status of a phase's own tasks
  loop,        \* the review and fix rows of a phase
  executing,   \* WaveScheduler._executing_phase_ids
  runner,      \* where each coroutine stands
  agenda,      \* what run_project's snapshot leaves to execute
  doubtful,    \* what the recovery's query found and has not come to yet
  overruled,   \* history: phases a resume touched while they were worked on
  crowded,     \* history: phases whose cycle ran beside the recovery's
  requests, crashes

vars == <<status, checkpoint, work, loop, executing, runner, agenda, doubtful,
          overruled, crowded, requests, crashes>>

Verdicts == {"passed", "critical"}

(* failed: some row is failed; left: some row is pending and not awaited;  *)
(* fixes: the completed fixes; reviews: the first reviews; newest: the     *)
(* newest review, open or void (failed, stopped) without a verdict, and    *)
(* first if it is not a re-review; last: the last verdict there is.        *)
Loops == [failed : BOOLEAN, left : BOOLEAN, fixes : Nat, reviews : Nat,
          newest : Verdicts \cup {"none", "open", "void"}, first : BOOLEAN,
          last : Verdicts \cup {"none"}]
NoLoop == [failed |-> FALSE, left |-> FALSE, fixes |-> 0, reviews |-> 0,
           newest |-> "none", first |-> FALSE, last |-> "none"]

(* idle; asked: the coroutine is created; load: it holds the guard; work:  *)
(* the waves run; checkpoint, finalize, abort: they are over; review, fix, *)
(* rereview: the row is to be created; wait: it runs and is awaited;       *)
(* failed, cancelled, passed, critical: so the wait for it has ended;      *)
(* finish: the coroutine returns; next: run_project is between two phases; query, pick: the      *)
(* recovery is before its query, between two phases.                       *)
Pcs == {"idle", "asked", "load", "work", "checkpoint", "finalize", "abort",
        "review", "fix", "rereview", "wait", "failed", "cancelled", "passed",
        "critical", "finish", "next", "query", "pick"}
Kinds == {"none", "review", "fix", "rereview"}
Idle == [pc |-> "idle", phase |-> 1, attempt |-> 0, kind |-> "none", newest |-> FALSE]

Init ==
  /\ status = [p \in Phases |-> "not_started"]
  /\ checkpoint = {}
  /\ work = [p \in Phases |-> "pending"]
  /\ loop = [p \in Phases |-> NoLoop]
  /\ executing = {}
  /\ runner = [c \in Runners |-> Idle]
  /\ agenda = {} /\ doubtful = {} /\ overruled = {} /\ crowded = {}
  /\ requests = 0 /\ crashes = 0

At(c, pc) == runner[c].pc = pc
Goto(c, pc) == runner' = [runner EXCEPT ![c].pc = pc]
PhaseOf(c) == runner[c].phase
Working(c) == runner[c].pc \notin {"idle", "next", "query", "pick"}
On(p) == {c \in Runners : Working(c) /\ PhaseOf(c) = p}
Awaits(c, p) == At(c, "wait") /\ PhaseOf(c) = p
SetStatus(p, s) == status' = [status EXCEPT ![p] = s]
Request == requests < MaxRequests /\ requests' = requests + 1

bookkeeping == <<agenda, doubtful, overruled, crowded, requests, crashes>>
-----------------------------------------------------------------------------
(* on_complete judges the phase once every task of it is over: failed if   *)
(* any of them failed, a review or a fix included.                         *)
Judgement(p, w, l, open) ==
  IF w \notin {"completed", "failed"} \/ l.left \/ open THEN status[p]
  ELSE IF w = "failed" \/ l.failed THEN "failed" ELSE "complete"

(* The last wave ends: its events reach the coroutine that awaits it. *)
WorkEnds(c, outcome) ==
  LET p == PhaseOf(c) IN
  /\ At(c, "work")
  /\ work' = [work EXCEPT ![p] = outcome]
  /\ SetStatus(p, Judgement(p, outcome, loop[p], \E d \in Runners : Awaits(d, p)))
  /\ Goto(c, IF outcome = "completed" THEN "checkpoint" ELSE "abort")
  /\ UNCHANGED <<checkpoint, loop, executing, bookkeeping>>

(* What is read of the rows of a phase once c's row has ended so. *)
Ended(l, c, result) ==
  LET isReview == runner[c].kind # "fix"
      counts == runner[c].newest \/ l.newest \notin Verdicts
  IN [l EXCEPT
       !.failed = @ \/ result = "failed",
       !.fixes = IF ~ isReview /\ result \in Verdicts THEN @ + 1 ELSE @,
       !.newest = IF ~ (isReview /\ runner[c].newest) THEN @
                  ELSE IF result \in Verdicts THEN result ELSE "void",
       !.last = IF isReview /\ result \in Verdicts /\ counts THEN result ELSE @]

(* The process of a review or a fix ends by itself; the event of it        *)
(* reaches the coroutine that awaits the row.                              *)
RowEnds(c, result) ==
  LET p == PhaseOf(c) IN
  /\ At(c, "wait")
  /\ result = "critical" => runner[c].kind # "fix"
  /\ loop' = [loop EXCEPT ![p] = Ended(@, c, result)]
  /\ SetStatus(p, Judgement(p, work[p], loop'[p], \E d \in Runners \ {c} : Awaits(d, p)))
  /\ Goto(c, result)
  /\ UNCHANGED <<checkpoint, work, executing, bookkeeping>>

(* stop_task: no on_complete, so no judgement.  The wait takes "failed"    *)
(* from the event, or "cancelled" from the row when its poll comes between *)
(* the two or the event went to nobody.                                    *)
StopRow(c) ==
  /\ Request
  /\ At(c, "wait")
  /\ loop' = [loop EXCEPT ![PhaseOf(c)] = Ended(@, c, "stopped")]
  /\ \E seen \in {"failed", "cancelled"} : Goto(c, seen)
  /\ UNCHANGED <<status, checkpoint, work, executing, agenda, doubtful, overruled,
                 crowded, crashes>>
-----------------------------------------------------------------------------
Crowd(p) == IF \A c \in On(p) : At(c, "asked") THEN crowded ELSE crowded \cup {p}

(* Mutant of Enter: no guard. *)
EnterAnyway(c, p) ==
  /\ runner' = [runner EXCEPT ![c] = [Idle EXCEPT !.pc = "load", !.phase = p]]
  /\ executing' = executing \cup {p}
  /\ crowded' = Crowd(p)

(* A second execute_phase of a phase returns at once. *)
Enter(c, p) ==
  IF p \in executing
  THEN /\ runner' = [runner EXCEPT ![c] =
            IF c = Project THEN [Idle EXCEPT !.pc = "next", !.phase = p] ELSE Idle]
       /\ UNCHANGED <<executing, crowded>>
  ELSE /\ runner' = [runner EXCEPT ![c] = [Idle EXCEPT !.pc = "load", !.phase = p]]
       /\ executing' = executing \cup {p}
       /\ crowded' = Crowd(p)

RunPhase(h, p) ==
  /\ Request
  /\ At(h, "idle")
  /\ Enter(h, p)
  /\ UNCHANGED <<status, checkpoint, work, loop, agenda, doubtful, overruled, crashes>>

(* resume_phase puts every interrupted row of a later wave back, those of  *)
(* the review loop (wave 999) included, before execute_phase is asked.  A  *)
(* row whose process runs gets its final status all the same.              *)
ResumePhase(h, p) ==
  /\ Request
  /\ At(h, "idle")
  /\ status[p] # "complete"
  /\ \/ p \in checkpoint
     \/ work[p] \in {"running", "failed"}
     \/ loop[p].failed \/ \E c \in Runners : Awaits(c, p)
  /\ loop' = [loop EXCEPT ![p].failed = FALSE, ![p].left = @ \/ loop[p].failed]
  /\ work' = [work EXCEPT ![p] = IF p \notin checkpoint /\ @ = "failed"
                                 THEN "pending" ELSE @]
  /\ SetStatus(p, "in_progress")
  /\ overruled' = IF On(p) = {} THEN overruled ELSE overruled \cup {p}
  /\ runner' = [runner EXCEPT ![h] = [Idle EXCEPT !.pc = "asked", !.phase = p]]
  /\ UNCHANGED <<checkpoint, executing, agenda, doubtful, crowded, crashes>>

Begin(c) ==
  /\ At(c, "asked")
  /\ Enter(c, PhaseOf(c))
  /\ UNCHANGED <<status, checkpoint, work, loop, agenda, doubtful, overruled,
                 requests, crashes>>

(* Mutant of Load: the phase takes the status of its tasks. *)
LoadRunning(c) ==
  LET p == PhaseOf(c) IN
  /\ At(c, "load")
  /\ SetStatus(p, "running")
  /\ work' = [work EXCEPT ![p] = "running"] /\ Goto(c, "work")
  /\ UNCHANGED <<checkpoint, loop, executing, bookkeeping>>

(* The rows of the review loop are of the SKIP_TASK_TYPES. *)
Load(c) ==
  LET p == PhaseOf(c) IN
  /\ At(c, "load")
  /\ SetStatus(p, "in_progress")
  /\ IF work[p] \in {"pending", "failed"}
     THEN work' = [work EXCEPT ![p] = "running"] /\ Goto(c, "work")
     ELSE Goto(c, "finalize") /\ UNCHANGED work
  /\ UNCHANGED <<checkpoint, loop, executing, bookkeeping>>

Checkpoint(c) ==
  /\ At(c, "checkpoint")
  /\ checkpoint' = checkpoint \cup {PhaseOf(c)}
  /\ Goto(c, "finalize")
  /\ UNCHANGED <<status, work, loop, executing, bookkeeping>>

Finalize(c) ==
  LET p == PhaseOf(c) IN
  /\ At(c, "finalize")
  /\ SetStatus(p, "complete")
  /\ Goto(c, IF p \in Reviewed THEN "review" ELSE "finish")
  /\ UNCHANGED <<checkpoint, work, loop, executing, bookkeeping>>

Abort(c) ==
  /\ At(c, "abort")
  /\ SetStatus(PhaseOf(c), "failed")
  /\ Goto(c, "finish")
  /\ UNCHANGED <<checkpoint, work, loop, executing, bookkeeping>>

Finish(c) ==
  /\ At(c, "finish")
  /\ executing' = IF c = Recovery THEN executing ELSE executing \ {PhaseOf(c)}
  /\ runner' = [runner EXCEPT ![c] =
       CASE c = Project  -> [Idle EXCEPT !.pc = "next", !.phase = PhaseOf(c)]
         [] c = Recovery -> [Idle EXCEPT !.pc = "pick"]
         [] OTHER        -> Idle]
  /\ UNCHANGED <<status, checkpoint, work, loop, bookkeeping>>
-----------------------------------------------------------------------------
(* The next row of the cycle: create_task and execute_task, by             *)
(* spawn_phase_review, _fix_and_re_review or _re_review_phase.  A start    *)
(* that fails marks the row and does not judge the phase.                  *)
NewRow(c, kind) ==
  LET p == PhaseOf(c)
      isReview == kind # "fix"
  IN
  /\ loop[p].reviews + loop[p].fixes < MaxReviews
  /\ \E started \in BOOLEAN :
       /\ loop' = [loop EXCEPT
            ![p].failed = @ \/ ~ started,
            ![p].reviews = IF kind = "review" THEN @ + 1 ELSE @,
            ![p].first = IF isReview THEN kind = "review" ELSE @,
            ![p].newest = IF ~ isReview THEN @ ELSE IF started THEN "open" ELSE "void"]
       /\ runner' = [d \in Runners |->
            IF d = c THEN [runner[c] EXCEPT !.pc = IF started THEN "wait" ELSE "failed",
                                            !.kind = kind, !.newest = isReview]
            ELSE IF isReview /\ PhaseOf(d) = p THEN [runner[d] EXCEPT !.newest = FALSE]
            ELSE runner[d]]
  /\ UNCHANGED <<status, checkpoint, work, executing, bookkeeping>>

SpawnReview(c) == At(c, "review") /\ NewRow(c, "review")

SpawnFix(c) ==
  /\ At(c, "fix")
  /\ runner[c].attempt <= MaxAttempts
  /\ NewRow(c, "fix")

SpawnReReview(c) == At(c, "rereview") /\ NewRow(c, "rereview")

GiveUp(c) ==
  /\ At(c, "fix")
  /\ runner[c].attempt > MaxAttempts
  /\ SetStatus(PhaseOf(c), "failed")
  /\ Goto(c, "finish")
  /\ UNCHANGED <<checkpoint, work, loop, executing, bookkeeping>>

Was(c, kind) == runner[c].kind = kind /\ runner[c].pc \in {"failed", "cancelled"} \cup Verdicts

FirstReviewEnds(c) ==
  /\ Was(c, "review")
  /\ runner' = [runner EXCEPT ![c].attempt = 1,
                              ![c].pc = IF @ = "critical" THEN "fix" ELSE "finish"]
  /\ UNCHANGED <<status, checkpoint, work, loop, executing, bookkeeping>>

(* A fix that failed or was stopped is reviewed as well. *)
FixEnds(c) ==
  /\ Was(c, "fix")
  /\ Goto(c, "rereview")
  /\ UNCHANGED <<status, checkpoint, work, loop, executing, bookkeeping>>

(* Mutant of ReReviewUnresolved: the attempt is not counted. *)
ReReviewUncounted(c) ==
  /\ Was(c, "rereview") /\ At(c, "critical")
  /\ Goto(c, "fix")
  /\ UNCHANGED <<status, checkpoint, work, loop, executing, bookkeeping>>

ReReviewUnresolved(c) ==
  /\ Was(c, "rereview") /\ At(c, "critical")
  /\ runner' = [runner EXCEPT ![c].pc = "fix", ![c].attempt = @ + 1]
  /\ UNCHANGED <<status, checkpoint, work, loop, executing, bookkeeping>>

(* Mutant of ReReviewDecides: a review that passed leaves the phase alone. *)
ReReviewDecidesFailure(c) ==
  /\ Was(c, "rereview") /\ ~ At(c, "critical")
  /\ IF At(c, "failed") THEN SetStatus(PhaseOf(c), "failed") ELSE UNCHANGED status
  /\ Goto(c, "finish")
  /\ UNCHANGED <<checkpoint, work, loop, executing, bookkeeping>>

(* Only "failed" counts as a failure: a re-review that was stopped, and    *)
(* has no result to find CRITICALs in, passes.                             *)
ReReviewDecides(c) ==
  /\ Was(c, "rereview") /\ ~ At(c, "critical")
  /\ SetStatus(PhaseOf(c), IF At(c, "failed") THEN "failed" ELSE "complete")
  /\ Goto(c, "finish")
  /\ UNCHANGED <<checkpoint, work, loop, executing, bookkeeping>>
-----------------------------------------------------------------------------
(* run_project: one at a time, by _running_project_ids; the phases that    *)
(* are complete now are not looked at again.                               *)
RunProject ==
  /\ Request
  /\ At(Project, "idle")
  /\ agenda' = {p \in Phases : status[p] # "complete"}
  /\ runner' = [runner EXCEPT ![Project] = [Idle EXCEPT !.pc = "next", !.phase = 0]]
  /\ UNCHANGED <<status, checkpoint, work, loop, executing, doubtful, overruled,
                 crowded, crashes>>

(* Mutant of Broken: the run goes on after a failed phase. *)
BrokenNever == FALSE

(* The phase just run is read again: a failed one ends the run. *)
Broken == PhaseOf(Project) # 0 /\ status[PhaseOf(Project)] = "failed"

NextPhase ==
  /\ At(Project, "next")
  /\ ~ Broken
  /\ \E p \in agenda :
       /\ \A q \in agenda : p <= q
       /\ agenda' = agenda \ {p}
       /\ Enter(Project, p)
  /\ UNCHANGED <<status, checkpoint, work, loop, doubtful, overruled, requests, crashes>>

ProjectEnds ==
  /\ At(Project, "next")
  /\ Broken \/ agenda = {}
  /\ agenda' = {}
  /\ runner' = [runner EXCEPT ![Project] = Idle]
  /\ UNCHANGED <<status, checkpoint, work, loop, executing, doubtful, overruled,
                 crowded, requests, crashes>>
-----------------------------------------------------------------------------
(* The server dies and comes up again; recover_stale_tasks runs before     *)
(* anything else does.                                                     *)
Crash ==
  LET cut(p) == \E c \in Runners : Awaits(c, p) IN
  /\ crashes < MaxCrashes
  /\ crashes' = crashes + 1
  /\ executing' = {} /\ agenda' = {} /\ doubtful' = {}
  /\ runner' = [c \in Runners |->
                 IF c = Recovery THEN [Idle EXCEPT !.pc = "query"] ELSE Idle]
  /\ work' = [p \in Phases |->
       IF work[p] # "running" THEN work[p]
       ELSE IF p \in checkpoint THEN "pending" ELSE "failed"]
  /\ loop' = [p \in Phases |-> [loop[p] EXCEPT
       !.left = @ \/ (cut(p) /\ p \in checkpoint),
       !.failed = @ \/ (cut(p) /\ p \notin checkpoint),
       !.newest = IF @ = "open" THEN "void" ELSE @]]
  /\ UNCHANGED <<status, checkpoint, overruled, crowded, requests>>

(* Mutant of Query: only reviews for which there was no fix at all. *)
QueryUnfixed ==
  /\ At(Recovery, "query")
  /\ doubtful' = {p \in Phases : status[p] = "complete" /\ loop[p].last # "none"
                                /\ loop[p].fixes = 0}
  /\ Goto(Recovery, "pick")
  /\ UNCHANGED <<status, checkpoint, work, loop, executing, agenda, overruled,
                 crowded, requests, crashes>>

Query ==
  /\ At(Recovery, "query")
  /\ doubtful' = {p \in Phases : status[p] = "complete" /\ loop[p].last # "none"}
  /\ Goto(Recovery, "pick")
  /\ UNCHANGED <<status, checkpoint, work, loop, executing, agenda, overruled,
                 crowded, requests, crashes>>

(* Mutant of Pick: the recovery starts counting anew. *)
PickAfresh(p) ==
  /\ At(Recovery, "pick")
  /\ p \in doubtful
  /\ doubtful' = doubtful \ {p}
  /\ loop' = [loop EXCEPT ![p].left = FALSE, ![p].failed = @ \/ loop[p].left]
  /\ IF loop[p].last = "critical"
     THEN /\ runner' = [runner EXCEPT ![Recovery] =
               [Idle EXCEPT !.pc = "fix", !.phase = p, !.attempt = 1]]
          /\ crowded' = Crowd(p)
     ELSE UNCHANGED <<runner, crowded>>
  /\ UNCHANGED <<status, checkpoint, work, executing, agenda, overruled, requests, crashes>>

(* One phase of the query: the rows of the loop that were cut off are      *)
(* failed, and the cycle goes on after the fixes that were finished.       *)
Pick(p) ==
  /\ At(Recovery, "pick")
  /\ p \in doubtful
  /\ doubtful' = doubtful \ {p}
  /\ loop' = [loop EXCEPT ![p].left = FALSE, ![p].failed = @ \/ loop[p].left]
  /\ IF loop[p].last = "critical"
     THEN /\ runner' = [runner EXCEPT ![Recovery] =
               [Idle EXCEPT !.pc = "fix", !.phase = p, !.attempt = loop[p].fixes + 1]]
          /\ crowded' = Crowd(p)
     ELSE UNCHANGED <<runner, crowded>>
  /\ UNCHANGED <<status, checkpoint, work, executing, agenda, overruled, requests, crashes>>

RecoveryEnds ==
  /\ At(Recovery, "pick")
  /\ doubtful = {}
  /\ Goto(Recovery, "idle")
  /\ UNCHANGED <<status, checkpoint, work, loop, executing, bookkeeping>>
-----------------------------------------------------------------------------
RunnerStep(c) ==
  \/ Begin(c) \/ Load(c) \/ Checkpoint(c) \/ Finalize(c) \/ Abort(c) \/ Finish(c)
  \/ SpawnReview(c) \/ SpawnFix(c) \/ SpawnReReview(c) \/ GiveUp(c)
  \/ FirstReviewEnds(c) \/ FixEnds(c) \/ ReReviewUnresolved(c) \/ ReReviewDecides(c)

ProjectStep == NextPhase \/ ProjectEnds
RecoveryStep == Query \/ (\E p \in Phases : Pick(p)) \/ RecoveryEnds

ProcessStep(c) ==
  \/ \E o \in {"completed", "failed"} : WorkEnds(c, o)
  \/ \E r \in {"failed"} \cup Verdicts : RowEnds(c, r)

UserStep ==
  \/ RunProject
  \/ \E h \in Hands, p \in ByHand : RunPhase(h, p) \/ ResumePhase(h, p)
  \/ \E c \in Runners : StopRow(c)

Next ==
  \/ \E c \in Runners : RunnerStep(c) \/ ProcessStep(c)
  \/ ProjectStep \/ RecoveryStep \/ UserStep \/ Crash

(* The event loop runs every coroutine that can go on, and a process ends. *)
(* Users ask when they like.                                               *)
Fairness ==
  /\ \A c \in Runners : WF_vars(RunnerStep(c)) /\ WF_vars(ProcessStep(c))
  /\ WF_vars(ProjectStep) /\ WF_vars(RecoveryStep)

Spec == Init /\ [][Next]_vars /\ Fairness
-----------------------------------------------------------------------------
TypeOK ==
  /\ status \in [Phases -> {"not_started", "in_progress", "complete", "failed"}]
  /\ checkpoint \subseteq Phases /\ executing \subseteq Phases
  /\ doubtful \subseteq Phases /\ agenda \subseteq Phases
  /\ work \in [Phases -> {"pending", "running", "completed", "failed"}]
  /\ loop \in [Phases -> Loops]
  /\ runner \in [Runners -> [pc : Pcs, phase : Phases \cup {0}, attempt : Nat,
                             kind : Kinds, newest : BOOLEAN]]
  /\ overruled \subseteq Phases /\ crowded \subseteq Phases
  /\ requests \in 0..MaxRequests /\ crashes \in 0..MaxCrashes

(* A phase is not shown as complete on top of a review that found          *)
(* CRITICALs unless a cycle works on it or the recovery is about to: over  *)
(* crashes, failed fixes, stops, resumes and new runs of the phase.        *)
(* (The recovery does not ask the guard of execute_phase; where its cycle  *)
(* ran beside another one, the other can turn a phase complete that it has *)
(* given up.)                                                              *)
CriticalsHandled ==
  \A p \in Phases \ crowded : status[p] = "complete" /\ loop[p].newest = "critical" =>
    On(p) # {} \/ p \in doubtful \/ At(Recovery, "query")

(* A run of a phase gets no more than _MAX_REVIEW_ATTEMPTS fixes, however  *)
(* often the server dies in between: the recovery goes on counting from    *)
(* the fixes that were finished.  (A cycle beside the recovery's counts    *)
(* for itself.)                                                            *)
FixesBounded ==
  \A p \in Phases \ crowded : loop[p].fixes <= MaxAttempts * loop[p].reviews

(* Two coroutines work on a phase at once only if one is the recovery's,   *)
(* which does not ask the guard of execute_phase, or has not asked it yet. *)
OneCycle ==
  \A p \in Phases : \A c, d \in On(p) \ {Recovery} :
    c = d \/ At(c, "asked") \/ At(d, "asked")

(* A phase nobody works on whose newest review passed is not left failed,  *)
(* except by the judgement of on_complete: with an older failed review or  *)
(* fix beside a first review, or beside a re-review when the server dies   *)
(* before _re_review_phase overrules the judgement.  (With two cycles side *)
(* by side, the last one to end has the last word.)                        *)
VerdictStands ==
  \A p \in Phases \ crowded :
    On(p) = {} /\ loop[p].newest = "passed" /\ status[p] = "failed" =>
      loop[p].failed /\ (loop[p].first \/ crashes > 0)

(* run_project goes on to a phase only when the one before it is complete  *)
(* with nothing critical open, or somebody else is still executing it.     *)
PhasesInOrder ==
  [][ LET last == runner[Project].phase IN
      At(Project, "next") /\ last # 0 /\ runner'[Project].pc = "load"
        => \/ status[last] = "complete" /\ loop[last].newest # "critical"
           \/ On(last) # {} \/ last \in overruled \cup crowded ]_vars

(* Once users ask no more and the server stays up, every coroutine comes   *)
(* to its end: the cycle of reviews and fixes is finite, and no row is     *)
(* awaited for ever.                                                       *)
CyclesEnd == <>[] (\A c \in Runners : runner[c].pc = "idle")
=============================================================================
