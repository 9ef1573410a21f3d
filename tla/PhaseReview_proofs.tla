-------------------------- MODULE PhaseReview_proofs --------------------------
(***************************************************************************)
(* Proofs about the review cycles, for any number of phases, background    *)
(* tasks, requests, attempts and crashes.                                  *)
(*                                                                         *)
(* CycleInv: the guard of execute_phase keeps the cycles of one phase      *)
(* apart, the recovery's excepted, which does not ask it.                  *)
(* LoopInv: what a cycle knows of its phase at each of its steps, as long  *)
(* as it is alone with it; from it the bound on the fixes, the fate of     *)
(* critical reviews, the standing of verdicts and the order of             *)
(* run_project follow.                                                     *)
(***************************************************************************)
EXTENDS PhaseReview, TLAPS

Guarded == Runners \ {Recovery}

RunnerType == [pc : Pcs, phase : Phases \cup {0}, attempt : Nat, kind : Kinds,
               newest : BOOLEAN]

(* c is past the guard of its phase. *)
Active(c) == Working(c) /\ ~ At(c, "asked")

(* The guard holds the phase of whoever is past it, and of one alone. *)
CycleInv ==
  /\ \A c \in Guarded : Active(c) => PhaseOf(c) \in executing
  /\ \A c, d \in Guarded : Active(c) /\ Active(d) /\ PhaseOf(c) = PhaseOf(d) => c = d

LEMMA IdleType == Idle \in RunnerType /\ Idle.pc = "idle"
BY PhaseReviewAssumption DEF Idle, RunnerType, Pcs, Kinds, Phases

LEMMA PhaseIsNat == \A p \in Phases : p \in Nat \ {0}
BY PhaseReviewAssumption DEF Phases

LEMMA NoLoopType == NoLoop \in Loops
BY DEF NoLoop, Loops, Verdicts

(* What ends in a row of a phase is a loop record again. *)
LEMMA EndedType ==
  ASSUME NEW l \in Loops, NEW c \in Runners,
         NEW result \in {"failed", "stopped"} \cup Verdicts,
         runner \in [Runners -> RunnerType]
  PROVE  Ended(l, c, result) \in Loops
<1> DEFINE review == runner[c].kind # "fix"
           counts == runner[c].newest \/ l.newest \notin Verdicts
           failed == l.failed \/ result = "failed"
           fixes  == IF ~ review /\ result \in Verdicts THEN l.fixes + 1 ELSE l.fixes
           newest == IF ~ (review /\ runner[c].newest) THEN l.newest
                     ELSE IF result \in Verdicts THEN result ELSE "void"
           last   == IF review /\ result \in Verdicts /\ counts THEN result ELSE l.last
<1>1. failed \in BOOLEAN
  OBVIOUS
<1>2. fixes \in Nat
  BY DEF Loops
<1>3. newest \in Verdicts \cup {"none", "open", "void"}
  BY DEF Loops
<1>4. last \in Verdicts \cup {"none"}
  BY DEF Loops
<1>5. Ended(l, c, result) = [l EXCEPT !.failed = failed, !.fixes = fixes,
                                      !.newest = newest, !.last = last]
  BY DEF Ended, Loops
<1> HIDE DEF failed, fixes, newest, last
<1> QED
  BY <1>1, <1>2, <1>3, <1>4, <1>5 DEF Loops

LEMMA JudgementType ==
  ASSUME NEW p \in Phases, NEW w, NEW l, NEW open,
         status \in [Phases -> {"not_started", "in_progress", "complete", "failed"}]
  PROVE  Judgement(p, w, l, open) \in {"not_started", "in_progress", "complete", "failed"}
BY DEF Judgement

(* The phase of a runner that has one. *)
Placed == \A c \in Runners : Working(c) => PhaseOf(c) \in Phases

LEMMA InitTypes == Init => TypeOK /\ Placed
<1> SUFFICES ASSUME Init PROVE TypeOK /\ Placed
  OBVIOUS
<1>1. runner \in [Runners -> RunnerType] /\ Placed
  BY IdleType DEF Init, Placed, Working
<1>2. loop \in [Phases -> Loops]
  BY NoLoopType DEF Init
<1>3. agenda \subseteq Phases
  BY DEF Init
<1> QED
  BY <1>1, <1>2, <1>3, PhaseReviewAssumption DEF Init, TypeOK, RunnerType

(* Goto, and what goes with it, keeps the types of the runners. *)
LEMMA RunnerKept ==
  ASSUME TypeOK, Placed, NEW c \in Runners, NEW new \in RunnerType,
         runner' = [runner EXCEPT ![c] = new],
         new.pc \notin {"idle", "next", "query", "pick"} => new.phase \in Phases
  PROVE  runner' \in [Runners -> RunnerType] /\ Placed'
<1>1. runner \in [Runners -> RunnerType]
  BY DEF TypeOK, RunnerType
<1> QED
  BY <1>1 DEF Placed, Working, PhaseOf

LEMMA GotoKept ==
  ASSUME TypeOK, Placed, NEW c \in Runners, NEW pc \in Pcs, Working(c) \/ c = Recovery,
         Working(c) \/ pc \in {"idle", "pick"}, Goto(c, pc)
  PROVE  runner' \in [Runners -> RunnerType] /\ Placed'
<1>1. runner \in [Runners -> RunnerType] /\ runner[c] \in RunnerType
  BY DEF TypeOK, RunnerType
<1> DEFINE new == [runner[c] EXCEPT !.pc = pc]
<1>2. new \in RunnerType /\ new.pc = pc /\ new.phase = runner[c].phase
  BY <1>1 DEF RunnerType
<1>3. runner' = [runner EXCEPT ![c] = new]
  BY <1>1 DEF Goto
<1> HIDE DEF new
<1> QED
  BY <1>2, <1>3, RunnerKept DEF Placed, PhaseOf, Working

LEMMA EnterTypes ==
  ASSUME TypeOK, Placed, NEW c \in Runners, NEW p \in Phases, Enter(c, p)
  PROVE  /\ runner' \in [Runners -> RunnerType] /\ Placed'
         /\ executing' \subseteq Phases /\ crowded' \subseteq Phases
<1>1. CASE p \in executing
  <2> DEFINE left == IF c = Project THEN [Idle EXCEPT !.pc = "next", !.phase = p] ELSE Idle
  <2>1. runner' = [runner EXCEPT ![c] = left] /\ UNCHANGED <<executing, crowded>>
    BY <1>1 DEF Enter
  <2>2. left \in RunnerType /\ left.pc \in {"next", "idle"}
    BY IdleType DEF RunnerType, Pcs
  <2> HIDE DEF left
  <2> QED
    BY <2>1, <2>2, RunnerKept DEF TypeOK
<1>2. CASE p \notin executing
  <2> DEFINE entered == [Idle EXCEPT !.pc = "load", !.phase = p]
  <2>1. /\ runner' = [runner EXCEPT ![c] = entered]
        /\ executing' = executing \cup {p} /\ crowded' = Crowd(p)
    BY <1>2 DEF Enter
  <2>2. entered \in RunnerType /\ entered.phase = p
    BY IdleType DEF RunnerType, Pcs
  <2> HIDE DEF entered
  <2> QED
    BY <2>1, <2>2, RunnerKept DEF TypeOK, Crowd
<1> QED
  BY <1>1, <1>2

(* A step by which nobody passes the guard or gives it back. *)
LEMMA Quiet ==
  ASSUME CycleInv, executing' = executing,
         \A c \in Guarded : Active(c)' => Active(c) /\ PhaseOf(c)' = PhaseOf(c)
  PROVE  CycleInv'
BY DEF CycleInv

(* Who was not past it asks for the guard of p. *)
LEMMA EnterKeeps ==
  ASSUME CycleInv, TypeOK, NEW c \in Guarded, ~ Active(c), NEW p \in Phases, Enter(c, p)
  PROVE  CycleInv'
<1>a. runner \in [Runners -> RunnerType] /\ c \in Runners
  BY DEF TypeOK, Guarded, RunnerType
<1>1. CASE p \in executing
  <2> DEFINE left == IF c = Project THEN [Idle EXCEPT !.pc = "next", !.phase = p] ELSE Idle
  <2>1. runner' = [runner EXCEPT ![c] = left] /\ executing' = executing
    BY <1>1 DEF Enter
  <2>2. left.pc \in {"next", "idle"}
    BY IdleType DEF RunnerType
  <2> HIDE DEF left
  <2> QED
    BY <1>a, <2>1, <2>2, Quiet DEF Active, Working, At, PhaseOf, Guarded
<1>2. CASE p \notin executing
  <2> DEFINE entered == [Idle EXCEPT !.pc = "load", !.phase = p]
  <2>1. runner' = [runner EXCEPT ![c] = entered] /\ executing' = executing \cup {p}
    BY <1>2 DEF Enter
  <2>2. entered.phase = p
    BY IdleType DEF RunnerType
  <2> HIDE DEF entered
  <2>3. \A d \in Guarded \ {c} : (Active(d)' <=> Active(d)) /\ PhaseOf(d)' = PhaseOf(d)
    BY <1>a, <2>1 DEF Active, Working, At, PhaseOf, Guarded
  <2>4. PhaseOf(c)' = p
    BY <1>a, <2>1, <2>2 DEF PhaseOf
  <2> QED
    BY <1>2, <2>1, <2>3, <2>4 DEF CycleInv
<1> QED
  BY <1>1, <1>2

(* Who is past it gives the guard back and leaves. *)
LEMMA FinishKeeps ==
  ASSUME CycleInv, TypeOK, NEW c \in Runners, Finish(c)
  PROVE  CycleInv'
<1>a. runner \in [Runners -> RunnerType]
  BY DEF TypeOK, RunnerType
<1> DEFINE left == CASE c = Project  -> [Idle EXCEPT !.pc = "next", !.phase = PhaseOf(c)]
                     [] c = Recovery -> [Idle EXCEPT !.pc = "pick"]
                     [] OTHER        -> Idle
<1>1. /\ runner' = [runner EXCEPT ![c] = left]
      /\ executing' = IF c = Recovery THEN executing ELSE executing \ {PhaseOf(c)}
      /\ runner[c].pc = "finish"
  BY DEF Finish, At
<1>2. left.pc \in {"next", "pick", "idle"}
  BY IdleType DEF RunnerType
<1> HIDE DEF left
<1>3. Active(c) /\ ~ Active(c)'
  BY <1>a, <1>1, <1>2 DEF Active, Working, At
<1>4. \A d \in Guarded \ {c} : (Active(d)' <=> Active(d)) /\ PhaseOf(d)' = PhaseOf(d)
  BY <1>a, <1>1 DEF Active, Working, At, PhaseOf, Guarded
<1> QED
  BY <1>1, <1>3, <1>4 DEF CycleInv, Guarded
-----------------------------------------------------------------------------
(* The steps of one coroutine keep the types. *)
LEMMA NewRowTypes ==
  ASSUME TypeOK, Placed, NEW c \in Runners, Working(c),
         NEW kind \in {"review", "fix", "rereview"}, NewRow(c, kind)
  PROVE  TypeOK' /\ Placed'
<1> DEFINE p == PhaseOf(c)
           review == kind # "fix"
<1>a. runner \in [Runners -> RunnerType] /\ p \in Phases /\ review \in BOOLEAN
  BY DEF TypeOK, RunnerType, Placed
<1>1. PICK started \in BOOLEAN :
        /\ loop' = [loop EXCEPT
             ![p].failed = @ \/ ~ started,
             ![p].reviews = IF kind = "review" THEN @ + 1 ELSE @,
             ![p].first = IF review THEN kind = "review" ELSE @,
             ![p].newest = IF ~ review THEN @ ELSE IF started THEN "open" ELSE "void"]
        /\ runner' = [d \in Runners |->
             IF d = c THEN [runner[c] EXCEPT !.pc = IF started THEN "wait" ELSE "failed",
                                             !.kind = kind, !.newest = review]
             ELSE IF review /\ PhaseOf(d) = p THEN [runner[d] EXCEPT !.newest = FALSE]
             ELSE runner[d]]
  BY DEF NewRow
<1>2. loop' \in [Phases -> Loops]
  <2> DEFINE l == loop[p]
             failed  == l.failed \/ ~ started
             reviews == IF kind = "review" THEN l.reviews + 1 ELSE l.reviews
             first   == IF review THEN kind = "review" ELSE l.first
             newest  == IF ~ review THEN l.newest ELSE IF started THEN "open" ELSE "void"
             row     == [l EXCEPT !.failed = failed, !.reviews = reviews, !.first = first,
                                  !.newest = newest]
  <2>1. loop \in [Phases -> Loops] /\ l \in Loops
    BY <1>a DEF TypeOK
  <2>2. loop' = [loop EXCEPT ![p] = row]
    BY <1>1, <1>a, <2>1, Zenon
  <2>3. failed \in BOOLEAN
    OBVIOUS
  <2>4. reviews \in Nat
    BY <2>1 DEF Loops
  <2>5. first \in BOOLEAN
    BY <2>1, Zenon DEF Loops
  <2>6. newest \in Verdicts \cup {"none", "open", "void"}
    BY <2>1 DEF Loops
  <2> HIDE DEF failed, reviews, first, newest
  <2>7. row \in Loops
    BY <2>1, <2>3, <2>4, <2>5, <2>6 DEF Loops
  <2> HIDE DEF row
  <2> QED
    BY <2>1, <2>2, <2>7
<1>3. runner' \in [Runners -> RunnerType] /\ Placed'
  <2> DEFINE pc == IF started THEN "wait" ELSE "failed"
             mine == [runner[c] EXCEPT !.pc = pc, !.kind = kind, !.newest = review]
  <2>1. pc \in Pcs /\ kind \in Kinds
    BY DEF Pcs, Kinds
  <2> HIDE DEF pc
  <2>2. mine \in RunnerType /\ mine.phase = p
    BY <1>a, <2>1 DEF RunnerType, PhaseOf
  <2>3. \A d \in Runners : /\ [runner[d] EXCEPT !.newest = FALSE] \in RunnerType
                           /\ [runner[d] EXCEPT !.newest = FALSE].phase = runner[d].phase
                           /\ [runner[d] EXCEPT !.newest = FALSE].pc = runner[d].pc
    BY <1>a DEF RunnerType
  <2>4. runner' = [d \in Runners |->
          IF d = c THEN mine
          ELSE IF review /\ PhaseOf(d) = p THEN [runner[d] EXCEPT !.newest = FALSE]
          ELSE runner[d]]
    BY <1>1 DEF pc
  <2> HIDE DEF mine, review
  <2> QED
    BY <1>a, <2>2, <2>3, <2>4 DEF Placed, Working, PhaseOf
<1> QED
  BY <1>2, <1>3 DEF NewRow, bookkeeping, TypeOK, RunnerType

LEMMA RowEndsTypes ==
  ASSUME TypeOK, Placed, NEW c \in Runners, NEW r \in {"failed", "stopped"} \cup Verdicts,
         NEW pc \in Pcs, At(c, "wait"), Goto(c, pc),
         loop' = [loop EXCEPT ![PhaseOf(c)] = Ended(@, c, r)]
  PROVE  /\ loop' \in [Phases -> Loops]
         /\ runner' \in [Runners -> RunnerType] /\ Placed'
<1>1. Working(c) /\ PhaseOf(c) \in Phases
  BY DEF At, Working, Placed
<1>2. Ended(loop[PhaseOf(c)], c, r) \in Loops
  BY <1>1, EndedType DEF TypeOK, RunnerType
<1>3. loop' \in [Phases -> Loops]
  BY <1>1, <1>2 DEF TypeOK
<1> QED
  BY <1>1, <1>3, GotoKept

LEMMA RunnerTypes ==
  ASSUME TypeOK, Placed, NEW c \in Runners, RunnerStep(c) \/ ProcessStep(c)
  PROVE  TypeOK' /\ Placed'
<1>a. runner \in [Runners -> RunnerType]
  BY DEF TypeOK, RunnerType
<1>b. Working(c) => PhaseOf(c) \in Phases
  BY DEF Placed
<1>1. CASE Begin(c)
  BY <1>1, <1>b, EnterTypes DEF Begin, At, Working, TypeOK, RunnerType
<1>2. CASE Load(c)
  <2>1. Working(c) /\ \E pc \in Pcs : Goto(c, pc)
    BY <1>2 DEF Load, At, Working, Pcs
  <2> QED
    BY <1>2, <1>b, <2>1, GotoKept DEF Load, SetStatus, bookkeeping, TypeOK, RunnerType
<1>3. CASE Checkpoint(c)
  <2>1. Working(c) /\ "finalize" \in Pcs
    BY <1>3 DEF Checkpoint, At, Working, Pcs
  <2> QED
    BY <1>3, <1>b, <2>1, GotoKept DEF Checkpoint, bookkeeping, TypeOK, RunnerType
<1>4. CASE Finalize(c)
  <2>1. Working(c) /\ \E pc \in Pcs : Goto(c, pc)
    BY <1>4 DEF Finalize, At, Working, Pcs
  <2> QED
    BY <1>4, <1>b, <2>1, GotoKept DEF Finalize, SetStatus, bookkeeping, TypeOK, RunnerType
<1>5. CASE Abort(c) \/ GiveUp(c)
  <2>1. Working(c) /\ Goto(c, "finish") /\ "finish" \in Pcs
    BY <1>5 DEF Abort, GiveUp, At, Working, Pcs
  <2> QED
    BY <1>5, <1>b, <2>1, GotoKept DEF Abort, GiveUp, SetStatus, bookkeeping, TypeOK, RunnerType
<1>6. CASE Finish(c)
  <2> DEFINE left == CASE c = Project  -> [Idle EXCEPT !.pc = "next", !.phase = PhaseOf(c)]
                       [] c = Recovery -> [Idle EXCEPT !.pc = "pick"]
                       [] OTHER        -> Idle
  <2>1. Working(c) /\ runner' = [runner EXCEPT ![c] = left]
    BY <1>6 DEF Finish, At, Working
  <2>2. left \in RunnerType /\ left.pc \in {"next", "pick", "idle"}
    BY <1>b, <2>1, IdleType DEF RunnerType, Pcs
  <2> HIDE DEF left
  <2> QED
    BY <1>6, <2>1, <2>2, RunnerKept DEF Finish, bookkeeping, TypeOK, RunnerType
<1>7. CASE SpawnReview(c)
  BY <1>7, NewRowTypes DEF SpawnReview, At, Working
<1>8. CASE SpawnFix(c)
  BY <1>8, NewRowTypes DEF SpawnFix, At, Working
<1>9. CASE SpawnReReview(c)
  BY <1>9, NewRowTypes DEF SpawnReReview, At, Working
<1>10. CASE FirstReviewEnds(c)
  <2> DEFINE pc == IF runner[c].pc = "critical" THEN "fix" ELSE "finish"
             new == [runner[c] EXCEPT !.attempt = 1, !.pc = pc]
  <2>1. Working(c) /\ runner' = [runner EXCEPT ![c] = new]
    BY <1>10, <1>a DEF FirstReviewEnds, Was, Verdicts, Working
  <2>2. pc \in Pcs
    BY DEF Pcs
  <2> HIDE DEF pc
  <2>3. new \in RunnerType /\ new.phase = PhaseOf(c)
    BY <1>a, <2>2 DEF RunnerType, PhaseOf
  <2> HIDE DEF new
  <2>4. UNCHANGED <<status, checkpoint, work, loop, executing, bookkeeping>>
    BY <1>10 DEF FirstReviewEnds
  <2>5. runner' \in [Runners -> RunnerType] /\ Placed'
    BY <1>b, <2>1, <2>3, RunnerKept
  <2> QED
    BY <2>4, <2>5 DEF bookkeeping, TypeOK, RunnerType
<1>11. CASE FixEnds(c)
  <2>1. Working(c) /\ "rereview" \in Pcs
    BY <1>11 DEF FixEnds, Was, Verdicts, Working, Pcs
  <2> QED
    BY <1>11, <2>1, GotoKept DEF FixEnds, bookkeeping, TypeOK, RunnerType
<1>12. CASE ReReviewUnresolved(c)
  <2> DEFINE new == [runner[c] EXCEPT !.pc = "fix", !.attempt = runner[c].attempt + 1]
  <2>1. Working(c) /\ runner' = [runner EXCEPT ![c] = new]
    BY <1>12, <1>a DEF ReReviewUnresolved, At, Working
  <2>a. runner[c].attempt + 1 \in Nat /\ "fix" \in Pcs
    BY <1>a DEF RunnerType, Pcs
  <2>2. new \in RunnerType /\ new.phase = PhaseOf(c)
    BY <1>a, <2>a DEF RunnerType, PhaseOf
  <2> HIDE DEF new
  <2>3. UNCHANGED <<status, checkpoint, work, loop, executing, bookkeeping>>
    BY <1>12 DEF ReReviewUnresolved
  <2>4. runner' \in [Runners -> RunnerType] /\ Placed'
    BY <1>b, <2>1, <2>2, RunnerKept
  <2> QED
    BY <2>3, <2>4 DEF bookkeeping, TypeOK, RunnerType
<1>13. CASE ReReviewDecides(c)
  <2>1. Working(c) /\ "finish" \in Pcs
    BY <1>13 DEF ReReviewDecides, Was, Verdicts, Working, Pcs
  <2> QED
    BY <1>13, <1>b, <2>1, GotoKept
    DEF ReReviewDecides, SetStatus, bookkeeping, TypeOK, RunnerType
<1>14. ASSUME NEW o \in {"completed", "failed"}, WorkEnds(c, o) PROVE TypeOK' /\ Placed'
  <2>1. Working(c) /\ \E pc \in Pcs : Goto(c, pc)
    BY <1>14 DEF WorkEnds, At, Working, Pcs
  <2>2. status' \in [Phases -> {"not_started", "in_progress", "complete", "failed"}]
    BY <1>14, <1>b, <2>1, JudgementType DEF WorkEnds, SetStatus, TypeOK
  <2> QED
    BY <1>14, <1>b, <2>1, <2>2, GotoKept DEF WorkEnds, bookkeeping, TypeOK, RunnerType
<1>15. ASSUME NEW r \in {"failed"} \cup Verdicts, RowEnds(c, r) PROVE TypeOK' /\ Placed'
  <2>1. At(c, "wait") /\ Working(c) /\ r \in Pcs /\ Goto(c, r)
    BY <1>15 DEF RowEnds, At, Working, Pcs, Verdicts
  <2>2. loop' = [loop EXCEPT ![PhaseOf(c)] = Ended(@, c, r)]
    BY <1>15 DEF RowEnds
  <2>3. status' \in [Phases -> {"not_started", "in_progress", "complete", "failed"}]
    <3> DEFINE open == \E d \in Runners \ {c} : Awaits(d, PhaseOf(c))
    <3>1. SetStatus(PhaseOf(c),
                    Judgement(PhaseOf(c), work[PhaseOf(c)], loop'[PhaseOf(c)], open))
      BY <1>15 DEF RowEnds
    <3> HIDE DEF open
    <3> QED
      BY <1>b, <2>1, <3>1, JudgementType DEF SetStatus, TypeOK
  <2> QED
    BY <1>15, <2>1, <2>2, <2>3, RowEndsTypes DEF RowEnds, bookkeeping, TypeOK, RunnerType
<1> QED
  BY <1>1, <1>2, <1>3, <1>4, <1>5, <1>6, <1>7, <1>8, <1>9, <1>10, <1>11, <1>12, <1>13,
     <1>14, <1>15 DEF RunnerStep, ProcessStep
-----------------------------------------------------------------------------
(* So do what users ask for, run_project, the recovery and a crash. *)
LEMMA UserTypes ==
  ASSUME TypeOK, Placed, UserStep
  PROVE  TypeOK' /\ Placed'
<1>a. runner \in [Runners -> RunnerType]
  BY DEF TypeOK, RunnerType
<1>b. Request => requests' \in 0..MaxRequests
  BY PhaseReviewAssumption DEF Request, TypeOK
<1>1. CASE RunProject
  <2> DEFINE new == [Idle EXCEPT !.pc = "next", !.phase = 0]
  <2>1. runner' = [runner EXCEPT ![Project] = new] /\ Project \in Runners
    BY <1>1 DEF RunProject, Runners
  <2>2. new \in RunnerType /\ new.pc = "next"
    BY IdleType DEF RunnerType, Pcs
  <2> HIDE DEF new
  <2>3. runner' \in [Runners -> RunnerType] /\ Placed'
    BY <2>1, <2>2, RunnerKept
  <2> QED
    BY <1>1, <1>b, <2>3 DEF RunProject, TypeOK, RunnerType
<1>2. ASSUME NEW h \in Hands, NEW p \in ByHand, RunPhase(h, p)
      PROVE  TypeOK' /\ Placed'
  <2>1. h \in Runners /\ p \in Phases
    BY PhaseReviewAssumption DEF Runners
  <2> QED
    BY <1>2, <1>b, <2>1, EnterTypes DEF RunPhase, TypeOK, RunnerType
<1>3. ASSUME NEW h \in Hands, NEW p \in ByHand, ResumePhase(h, p)
      PROVE  TypeOK' /\ Placed'
  <2>1. h \in Runners /\ p \in Phases
    BY PhaseReviewAssumption DEF Runners
  <2> DEFINE new == [Idle EXCEPT !.pc = "asked", !.phase = p]
             left == loop[p].left \/ loop[p].failed
             row == [loop[p] EXCEPT !.failed = FALSE, !.left = left]
  <2>2. new \in RunnerType /\ new.phase = p
    BY <2>1, IdleType DEF RunnerType, Pcs
  <2>3. runner' = [runner EXCEPT ![h] = new]
    BY <1>3 DEF ResumePhase
  <2> HIDE DEF new
  <2>4. runner' \in [Runners -> RunnerType] /\ Placed'
    BY <2>1, <2>2, <2>3, RunnerKept
  <2>5. loop' = [loop EXCEPT ![p] = row]
    BY <1>3, <2>1 DEF ResumePhase, TypeOK
  <2>6. left \in BOOLEAN /\ loop[p] \in Loops
    BY <2>1, Zenon DEF TypeOK
  <2> HIDE DEF left
  <2>7. row \in Loops
    BY <2>6 DEF Loops
  <2> HIDE DEF row
  <2>8. loop' \in [Phases -> Loops]
    BY <2>1, <2>5, <2>7 DEF TypeOK
  <2>9. work' \in [Phases -> {"pending", "running", "completed", "failed"}]
    BY <1>3, <2>1 DEF ResumePhase, TypeOK
  <2>10. /\ status' \in [Phases -> {"not_started", "in_progress", "complete", "failed"}]
         /\ overruled' \subseteq Phases
    BY <1>3, <2>1 DEF ResumePhase, SetStatus, TypeOK
  <2>11. /\ requests' \in 0..MaxRequests
         /\ UNCHANGED <<checkpoint, executing, agenda, doubtful, crowded, crashes>>
    BY <1>3, <1>b DEF ResumePhase
  <2> QED
    BY <2>4, <2>8, <2>9, <2>10, <2>11 DEF TypeOK, RunnerType
<1>4. ASSUME NEW c \in Runners, StopRow(c) PROVE TypeOK' /\ Placed'
  <2>1. /\ \E seen \in Pcs : Goto(c, seen)
        /\ loop' = [loop EXCEPT ![PhaseOf(c)] = Ended(@, c, "stopped")]
    BY <1>4 DEF StopRow, Pcs
  <2>2. /\ loop' \in [Phases -> Loops]
        /\ runner' \in [Runners -> RunnerType] /\ Placed'
    BY <1>4, <2>1, RowEndsTypes DEF StopRow
  <2> QED
    BY <1>4, <1>b, <2>2 DEF StopRow, TypeOK, RunnerType
<1> QED
  BY <1>1, <1>2, <1>3, <1>4 DEF UserStep

LEMMA ProjectTypes ==
  ASSUME TypeOK, Placed, ProjectStep
  PROVE  TypeOK' /\ Placed'
<1>1. CASE NextPhase
  <2>1. PICK p \in agenda : agenda' = agenda \ {p} /\ Enter(Project, p)
    BY <1>1 DEF NextPhase
  <2>2. Project \in Runners /\ p \in Phases
    BY DEF Runners, TypeOK
  <2> QED
    BY <1>1, <2>1, <2>2, EnterTypes DEF NextPhase, TypeOK, RunnerType
<1>2. CASE ProjectEnds
  <2>1. runner' = [runner EXCEPT ![Project] = Idle] /\ Project \in Runners
    BY <1>2 DEF ProjectEnds, Runners
  <2>2. runner' \in [Runners -> RunnerType] /\ Placed'
    BY <2>1, IdleType, RunnerKept
  <2> QED
    BY <1>2, <2>2 DEF ProjectEnds, TypeOK, RunnerType
<1> QED
  BY <1>1, <1>2 DEF ProjectStep

LEMMA RecoveryTypes ==
  ASSUME TypeOK, Placed, RecoveryStep
  PROVE  TypeOK' /\ Placed'
<1>a. Recovery \in Runners
  BY DEF Runners
<1>1. CASE Query
  <2>1. ~ Working(Recovery) /\ "pick" \in Pcs /\ Goto(Recovery, "pick")
    BY <1>1 DEF Query, At, Working, Pcs
  <2>2. runner' \in [Runners -> RunnerType] /\ Placed'
    BY <1>a, <2>1, GotoKept
  <2> QED
    BY <1>1, <2>2 DEF Query, TypeOK, RunnerType
<1>2. ASSUME NEW p \in Phases, Pick(p) PROVE TypeOK' /\ Placed'
  <2> DEFINE failed == loop[p].failed \/ loop[p].left
             row == [loop[p] EXCEPT !.left = FALSE, !.failed = failed]
  <2>1. loop' \in [Phases -> Loops]
    <3>1. loop' = [loop EXCEPT ![p] = row]
      BY <1>2 DEF Pick, TypeOK
    <3>2. failed \in BOOLEAN /\ loop[p] \in Loops
      BY Zenon DEF TypeOK
    <3> HIDE DEF failed
    <3>3. row \in Loops
      BY <3>2 DEF Loops
    <3> HIDE DEF row
    <3> QED
      BY <3>1, <3>3 DEF TypeOK
  <2>2. /\ runner' \in [Runners -> RunnerType] /\ Placed'
        /\ crowded' \subseteq Phases
    <3>1. CASE loop[p].last = "critical"
      <4> DEFINE attempt == loop[p].fixes + 1
                 new == [Idle EXCEPT !.pc = "fix", !.phase = p, !.attempt = attempt]
      <4>1. runner' = [runner EXCEPT ![Recovery] = new] /\ crowded' = Crowd(p)
        BY <1>2, <3>1 DEF Pick
      <4>2. attempt \in Nat
        BY DEF TypeOK, Loops
      <4> HIDE DEF attempt
      <4>3. new \in RunnerType /\ new.phase = p
        BY <4>2, IdleType DEF RunnerType, Pcs
      <4> HIDE DEF new
      <4>4. runner' \in [Runners -> RunnerType] /\ Placed'
        BY <1>a, <4>1, <4>3, RunnerKept
      <4> QED
        BY <4>1, <4>4 DEF Crowd, TypeOK
    <3>2. CASE loop[p].last # "critical"
      BY <1>2, <3>2 DEF Pick, TypeOK, RunnerType, Placed, Working, PhaseOf
    <3> QED
      BY <3>1, <3>2
  <2>3. doubtful' \subseteq Phases
    BY <1>2 DEF Pick, TypeOK
  <2>4. UNCHANGED <<status, checkpoint, work, executing, agenda, overruled, requests, crashes>>
    BY <1>2 DEF Pick
  <2> QED
    BY <2>1, <2>2, <2>3, <2>4 DEF TypeOK, RunnerType
<1>3. CASE RecoveryEnds
  <2>1. ~ Working(Recovery) /\ "idle" \in Pcs /\ Goto(Recovery, "idle")
    BY <1>3 DEF RecoveryEnds, At, Working, Pcs
  <2>2. runner' \in [Runners -> RunnerType] /\ Placed'
    BY <1>a, <2>1, GotoKept
  <2> QED
    BY <1>3, <2>2 DEF RecoveryEnds, bookkeeping, TypeOK, RunnerType
<1> QED
  BY <1>1, <1>2, <1>3 DEF RecoveryStep

LEMMA CrashTypes ==
  ASSUME TypeOK, Placed, Crash
  PROVE  TypeOK' /\ Placed'
<1>1. runner' \in [Runners -> RunnerType] /\ Placed'
  <2> DEFINE up == [Idle EXCEPT !.pc = "query"]
  <2>1. runner' = [c \in Runners |-> IF c = Recovery THEN up ELSE Idle]
    BY DEF Crash
  <2>2. up \in RunnerType /\ up.pc = "query"
    BY IdleType DEF RunnerType, Pcs
  <2> HIDE DEF up
  <2> QED
    BY <2>1, <2>2, IdleType DEF Placed, Working
<1>2. loop' \in [Phases -> Loops]
  <2> DEFINE cut(p) == \E c \in Runners : Awaits(c, p)
             left(p) == loop[p].left \/ (cut(p) /\ p \in checkpoint)
             failed(p) == loop[p].failed \/ (cut(p) /\ p \notin checkpoint)
             newest(p) == IF loop[p].newest = "open" THEN "void" ELSE loop[p].newest
  <2>1. loop' = [p \in Phases |-> [loop[p] EXCEPT !.left = left(p), !.failed = failed(p),
                                                 !.newest = newest(p)]]
    BY DEF Crash, TypeOK, Loops
  <2>2. \A p \in Phases : left(p) \in BOOLEAN /\ failed(p) \in BOOLEAN
    OBVIOUS
  <2>3. \A p \in Phases : newest(p) \in Verdicts \cup {"none", "open", "void"}
    BY DEF TypeOK, Loops
  <2> HIDE DEF left, failed, newest
  <2>4. ASSUME NEW p \in Phases
        PROVE  [loop[p] EXCEPT !.left = left(p), !.failed = failed(p),
                               !.newest = newest(p)] \in Loops
    <3>1. loop[p] \in Loops
      BY DEF TypeOK
    <3> QED
      BY <2>2, <2>3, <3>1 DEF Loops
  <2> QED
    BY <2>1, <2>4
<1>3. work' \in [Phases -> {"pending", "running", "completed", "failed"}]
  <2>1. work' = [p \in Phases |->
                  IF work[p] # "running" THEN work[p]
                  ELSE IF p \in checkpoint THEN "pending" ELSE "failed"]
    BY DEF Crash
  <2> QED
    BY <2>1 DEF TypeOK
<1>4. /\ executing' = {} /\ doubtful' = {} /\ agenda' = {}
      /\ UNCHANGED <<status, checkpoint, overruled, crowded, requests>>
      /\ crashes < MaxCrashes /\ crashes' = crashes + 1
  BY DEF Crash
<1>5. crashes' \in 0..MaxCrashes
  BY <1>4, PhaseReviewAssumption DEF TypeOK
<1> QED
  BY <1>1, <1>2, <1>3, <1>4, <1>5 DEF TypeOK, RunnerType

LEMMA NextTypes ==
  ASSUME TypeOK, Placed, [Next]_vars
  PROVE  TypeOK' /\ Placed'
<1>1. CASE UNCHANGED vars
  BY <1>1 DEF vars, TypeOK, Placed, Working, PhaseOf
<1> QED
  BY <1>1, RunnerTypes, UserTypes, ProjectTypes, RecoveryTypes, CrashTypes DEF Next
-----------------------------------------------------------------------------
(* A step of one that is past the guard and stays with its phase. *)
LEMMA Onward ==
  ASSUME CycleInv, NEW c \in Runners, Active(c), executing' = executing,
         PhaseOf(c)' = PhaseOf(c),
         \A d \in Guarded \ {c} : runner'[d].pc = runner[d].pc /\ PhaseOf(d)' = PhaseOf(d)
  PROVE  CycleInv'
BY Quiet DEF Active, Working, At, PhaseOf

LEMMA OnwardGoto ==
  ASSUME CycleInv, TypeOK, NEW c \in Runners, NEW pc, Active(c), Goto(c, pc),
         executing' = executing
  PROVE  CycleInv'
BY Onward DEF Goto, PhaseOf, TypeOK, Guarded

LEMMA NewRowKeeps ==
  ASSUME CycleInv, TypeOK, NEW c \in Runners, Active(c), NEW kind, NewRow(c, kind)
  PROVE  CycleInv'
<1>a. runner \in [Runners -> RunnerType]
  BY DEF TypeOK, RunnerType
<1> DEFINE review == kind # "fix"
<1>1. PICK pc :
        runner' = [d \in Runners |->
             IF d = c THEN [runner[c] EXCEPT !.pc = pc, !.kind = kind, !.newest = review]
             ELSE IF review /\ PhaseOf(d) = PhaseOf(c) THEN [runner[d] EXCEPT !.newest = FALSE]
             ELSE runner[d]]
  <2>1. PICK started \in BOOLEAN :
        runner' = [d \in Runners |->
             IF d = c THEN [runner[c] EXCEPT !.pc = IF started THEN "wait" ELSE "failed",
                                             !.kind = kind, !.newest = review]
             ELSE IF review /\ PhaseOf(d) = PhaseOf(c) THEN [runner[d] EXCEPT !.newest = FALSE]
             ELSE runner[d]]
    BY DEF NewRow
  <2> QED
    BY <2>1
<1>2. [runner[c] EXCEPT !.pc = pc, !.kind = kind, !.newest = review].phase = runner[c].phase
  BY <1>a DEF RunnerType
<1>3. \A d \in Runners : /\ [runner[d] EXCEPT !.newest = FALSE].pc = runner[d].pc
                         /\ [runner[d] EXCEPT !.newest = FALSE].phase = runner[d].phase
  BY <1>a DEF RunnerType
<1>4. PhaseOf(c)' = PhaseOf(c)
  BY <1>1, <1>2 DEF PhaseOf
<1>5. \A d \in Guarded \ {c} : runner'[d].pc = runner[d].pc /\ PhaseOf(d)' = PhaseOf(d)
  BY <1>1, <1>3 DEF PhaseOf, Guarded
<1>6. executing' = executing
  BY DEF NewRow
<1> QED
  BY <1>4, <1>5, <1>6, Onward

LEMMA RunnerCycle ==
  ASSUME CycleInv, TypeOK, Placed, NEW c \in Runners, RunnerStep(c) \/ ProcessStep(c)
  PROVE  CycleInv'
<1>a. runner \in [Runners -> RunnerType]
  BY DEF TypeOK, RunnerType
<1>1. CASE Begin(c) /\ c # Recovery
  <2>1. c \in Guarded /\ ~ Active(c) /\ PhaseOf(c) \in Phases /\ Enter(c, PhaseOf(c))
    BY <1>1 DEF Begin, At, Active, Working, Placed, Guarded
  <2> QED
    BY <2>1, EnterKeeps
<1>2. CASE Begin(c) /\ c = Recovery
  <2>1. \A d \in Guarded : runner'[d] = runner[d]
    BY <1>a, <1>2 DEF Begin, Enter, Guarded
  <2>2. PhaseOf(c) \notin executing => executing' = executing \cup {PhaseOf(c)}
    BY <1>2 DEF Begin, Enter
  <2>3. PhaseOf(c) \in executing => executing' = executing
    BY <1>2 DEF Begin, Enter
  <2> QED
    BY <2>1, <2>2, <2>3 DEF CycleInv, Active, Working, At, PhaseOf
<1>3. CASE Load(c) \/ Checkpoint(c) \/ Finalize(c) \/ Abort(c) \/ GiveUp(c)
  <2>1. Active(c) /\ executing' = executing /\ \E pc : Goto(c, pc)
    BY <1>3 DEF Load, Checkpoint, Finalize, Abort, GiveUp, Active, Working, At
  <2> QED
    BY <2>1, OnwardGoto
<1>4. CASE FixEnds(c) \/ ReReviewDecides(c)
  <2>1. Active(c) /\ executing' = executing /\ \E pc : Goto(c, pc)
    BY <1>4 DEF FixEnds, ReReviewDecides, Was, Verdicts, Active, Working, At
  <2> QED
    BY <2>1, OnwardGoto
<1>5. CASE Finish(c)
  BY <1>5, FinishKeeps
<1>6. CASE SpawnReview(c) \/ SpawnFix(c) \/ SpawnReReview(c)
  <2>1. Active(c) /\ \E kind : NewRow(c, kind)
    BY <1>6 DEF SpawnReview, SpawnFix, SpawnReReview, Active, Working, At
  <2> QED
    BY <2>1, NewRowKeeps
<1>7. CASE FirstReviewEnds(c)
  <2> DEFINE pc == IF runner[c].pc = "critical" THEN "fix" ELSE "finish"
             new == [runner[c] EXCEPT !.attempt = 1, !.pc = pc]
  <2>1. runner' = [runner EXCEPT ![c] = new]
    BY <1>7, <1>a DEF FirstReviewEnds
  <2>2. new.phase = PhaseOf(c)
    BY <1>a DEF RunnerType, PhaseOf
  <2>3. Active(c) /\ executing' = executing
    BY <1>7 DEF FirstReviewEnds, Was, Verdicts, Active, Working, At
  <2> HIDE DEF new
  <2>4. PhaseOf(c)' = PhaseOf(c) /\ \A d \in Guarded \ {c} : runner'[d] = runner[d]
    BY <1>a, <2>1, <2>2 DEF PhaseOf, Guarded
  <2> QED
    BY <2>3, <2>4, Onward DEF PhaseOf
<1>8. CASE ReReviewUnresolved(c)
  <2> DEFINE new == [runner[c] EXCEPT !.pc = "fix", !.attempt = runner[c].attempt + 1]
  <2>1. runner' = [runner EXCEPT ![c] = new]
    BY <1>8, <1>a DEF ReReviewUnresolved
  <2>2. new.phase = PhaseOf(c)
    BY <1>a DEF RunnerType, PhaseOf
  <2>3. Active(c) /\ executing' = executing
    BY <1>8 DEF ReReviewUnresolved, Active, Working, At
  <2> HIDE DEF new
  <2>4. PhaseOf(c)' = PhaseOf(c) /\ \A d \in Guarded \ {c} : runner'[d] = runner[d]
    BY <1>a, <2>1, <2>2 DEF PhaseOf, Guarded
  <2> QED
    BY <2>3, <2>4, Onward DEF PhaseOf
<1>9. ASSUME NEW o \in {"completed", "failed"}, WorkEnds(c, o) PROVE CycleInv'
  <2>1. Active(c) /\ executing' = executing /\ \E pc : Goto(c, pc)
    BY <1>9 DEF WorkEnds, Active, Working, At
  <2> QED
    BY <2>1, OnwardGoto
<1>10. ASSUME NEW r \in {"failed"} \cup Verdicts, RowEnds(c, r) PROVE CycleInv'
  <2>1. Active(c) /\ executing' = executing /\ Goto(c, r)
    BY <1>10 DEF RowEnds, Active, Working, At
  <2> QED
    BY <2>1, OnwardGoto
<1> QED
  BY <1>1, <1>2, <1>3, <1>4, <1>5, <1>6, <1>7, <1>8, <1>9, <1>10 DEF RunnerStep, ProcessStep

LEMMA NextCycle ==
  ASSUME CycleInv, TypeOK, Placed, [Next]_vars
  PROVE  CycleInv'
<1>a. runner \in [Runners -> RunnerType]
  BY DEF TypeOK, RunnerType
<1>1. ASSUME NEW c \in Runners, RunnerStep(c) \/ ProcessStep(c) PROVE CycleInv'
  BY <1>1, RunnerCycle
<1>2. CASE NextPhase
  <2>1. Project \in Guarded /\ ~ Active(Project)
    BY <1>2, PhaseReviewAssumption DEF NextPhase, At, Active, Working, Guarded, Runners
  <2>2. PICK p \in Phases : Enter(Project, p)
    BY <1>2 DEF NextPhase, TypeOK
  <2> QED
    BY <2>1, <2>2, EnterKeeps
<1>3. CASE ProjectEnds \/ RunProject
  <2>1. PICK new : runner' = [runner EXCEPT ![Project] = new] /\ new.pc \in {"idle", "next"}
    <3> DEFINE between == [Idle EXCEPT !.pc = "next", !.phase = 0]
    <3>1. \/ runner' = [runner EXCEPT ![Project] = Idle]
          \/ runner' = [runner EXCEPT ![Project] = between]
      BY <1>3 DEF ProjectEnds, RunProject
    <3>2. between.pc = "next"
      BY IdleType DEF RunnerType
    <3> HIDE DEF between
    <3> QED
      BY <3>1, <3>2, IdleType
  <2>2. executing' = executing
    BY <1>3 DEF ProjectEnds, RunProject
  <2> QED
    BY <1>a, <2>1, <2>2, Quiet DEF Active, Working, At, PhaseOf, Guarded
<1>4. CASE RecoveryStep
  <2>1. PICK new : runner' = [runner EXCEPT ![Recovery] = new] \/ runner' = runner
    BY <1>4 DEF RecoveryStep, Query, Pick, RecoveryEnds, Goto
  <2>2. executing' = executing
    BY <1>4 DEF RecoveryStep, Query, Pick, RecoveryEnds
  <2>3. \A d \in Guarded : runner'[d] = runner[d]
    BY <1>a, <2>1 DEF Guarded
  <2> QED
    BY <2>2, <2>3, Quiet DEF Active, Working, At, PhaseOf
<1>5. ASSUME NEW h \in Hands, NEW p \in ByHand, RunPhase(h, p) PROVE CycleInv'
  <2>1. h \in Guarded /\ p \in Phases
    BY PhaseReviewAssumption DEF Runners, Guarded
  <2>2. ~ Active(h) /\ Enter(h, p)
    BY <1>5 DEF RunPhase, At, Active, Working
  <2> QED
    BY <2>1, <2>2, EnterKeeps
<1>6. ASSUME NEW h \in Hands, NEW p \in ByHand, ResumePhase(h, p) PROVE CycleInv'
  <2> DEFINE new == [Idle EXCEPT !.pc = "asked", !.phase = p]
  <2>1. runner' = [runner EXCEPT ![h] = new] /\ executing' = executing
    BY <1>6 DEF ResumePhase
  <2>2. new.pc = "asked"
    BY IdleType DEF RunnerType
  <2> HIDE DEF new
  <2> QED
    BY <1>a, <2>1, <2>2, Quiet DEF Active, Working, At, PhaseOf, Guarded
<1>7. ASSUME NEW c \in Runners, StopRow(c) PROVE CycleInv'
  <2>1. /\ Active(c) /\ executing' = executing
        /\ Goto(c, "failed") \/ Goto(c, "cancelled")
    BY <1>7 DEF StopRow, Active, Working, At
  <2> QED
    BY <2>1, OnwardGoto
<1>8. CASE Crash
  <2> DEFINE up == [Idle EXCEPT !.pc = "query"]
  <2>1. runner' = [c \in Runners |-> IF c = Recovery THEN up ELSE Idle]
    BY <1>8 DEF Crash
  <2> HIDE DEF up
  <2>2. \A c \in Guarded : ~ Active(c)'
    BY <2>1, IdleType DEF Active, Working, Guarded
  <2> QED
    BY <2>2 DEF CycleInv
<1>9. CASE UNCHANGED vars
  BY <1>9 DEF vars, CycleInv, Active, Working, At, PhaseOf
<1> QED
  BY <1>1, <1>2, <1>3, <1>4, <1>5, <1>6, <1>7, <1>8, <1>9
  DEF Next, ProjectStep, UserStep
-----------------------------------------------------------------------------
ReviewInv == TypeOK /\ Placed /\ CycleInv

(* Types, and the guard's account of who executes what, hold always. *)
THEOREM ReviewInvariant == Spec => []ReviewInv
<1>1. Init => ReviewInv
  <2> SUFFICES ASSUME Init PROVE ReviewInv
    OBVIOUS
  <2>1. \A c \in Runners : ~ Active(c)
    BY IdleType DEF Init, Active, Working
  <2> QED
    BY <2>1, InitTypes DEF ReviewInv, CycleInv, Guarded
<1>2. ReviewInv /\ [Next]_vars => ReviewInv'
  BY NextTypes, NextCycle DEF ReviewInv
<1> QED
  BY <1>1, <1>2, PTL DEF Spec

(* The rows, the guard and the coroutines keep their types. *)
THEOREM ReviewTypes == Spec => []TypeOK
<1>1. ReviewInv => TypeOK
  BY DEF ReviewInv
<1> QED
  BY <1>1, ReviewInvariant, PTL

(* No two coroutines are past the guard of execute_phase for one phase, so *)
(* of the cycles that ask it a phase has one at a time: with any number of *)
(* background tasks, requests, resumes, stops and crashes.                 *)
THEOREM OneCycleAlways == Spec => []OneCycle
<1>1. ReviewInv => OneCycle
  <2> SUFFICES ASSUME ReviewInv, NEW p \in Phases,
                      NEW c \in On(p) \ {Recovery}, NEW d \in On(p) \ {Recovery},
                      ~ At(c, "asked"), ~ At(d, "asked")
               PROVE  c = d
    BY DEF OneCycle
  <2>1. c \in Guarded /\ d \in Guarded /\ Active(c) /\ Active(d) /\ PhaseOf(c) = PhaseOf(d)
    BY DEF On, Guarded, Active
  <2> QED
    BY <2>1 DEF ReviewInv, CycleInv
<1> QED
  BY <1>1, ReviewInvariant, PTL
-----------------------------------------------------------------------------
(* What the rows of a phase, and whoever works on it, know of each other,  *)
(* as long as one cycle at a time works on it.                             *)

RowPcs  == {"wait", "failed", "cancelled", "passed", "critical"}
LoopPcs == {"fix", "rereview"} \cup RowPcs
RecoveryPcs == {"idle", "query", "pick", "finish"} \cup LoopPcs

(* c has created, or awaits, a row of these kinds. *)
InRow(c, kinds) == runner[c].pc \in RowPcs /\ runner[c].kind \in kinds

Holds(c, p) == Active(c) /\ PhaseOf(c) = p

(* The guard is held by somebody at work; the recovery does not ask it.    *)
GuardHeld ==
  /\ runner[Recovery].pc \in RecoveryPcs
  /\ \A p \in executing : \E c \in Guarded : Holds(c, p)

(* Only reviewed phases have rows of the cycle, and these begin with a     *)
(* first review; the newest verdict is the last one.                       *)
Begun(p) == p \in Reviewed /\ loop[p].reviews >= 1

RunnerBegun(c) ==
  /\ At(c, "review") => PhaseOf(c) \in Reviewed
  /\ runner[c].pc \in LoopPcs => Begun(PhaseOf(c))
  /\ runner[c].pc \in RowPcs => runner[c].kind # "none"

PhaseBegun(p) ==
  /\ loop[p].newest # "none" => Begun(p)
  /\ loop[p].reviews >= 1 => loop[p].newest # "none"
  /\ loop[p].last # "none" => loop[p].newest # "none"
  /\ loop[p].newest \in Verdicts => loop[p].last = loop[p].newest

RowsBegun == /\ \A c \in Runners : RunnerBegun(c)
             /\ \A p \in Phases : PhaseBegun(p)

Alone ==
  \A p \in Phases \ crowded : \A c, d \in Runners :
    Holds(c, p) /\ Holds(d, p) => c = d

(* The fixes before the latest first review, and those that it may get.    *)
Earlier(p) == MaxAttempts * (loop[p].reviews - 1)

(* Attempts, in the cycle of c. *)
Counted(c) ==
  LET p == PhaseOf(c)
      attempt == runner[c].attempt
  IN
  /\ InRow(c, {"review"}) => loop[p].fixes <= Earlier(p)
  /\ At(c, "fix") => attempt >= 1 /\ loop[p].fixes <= Earlier(p) + attempt - 1
  /\ At(c, "wait") /\ InRow(c, {"fix"}) =>
       attempt \in 1 .. MaxAttempts /\ loop[p].fixes <= Earlier(p) + attempt - 1
  /\ \/ At(c, "rereview") \/ InRow(c, {"rereview"})
     \/ InRow(c, {"fix"}) /\ ~ At(c, "wait")
     => attempt \in 1 .. MaxAttempts /\ loop[p].fixes <= Earlier(p) + attempt

(* The phase's own tasks, where c is. *)
Worked(c) ==
  LET p == PhaseOf(c) IN
  /\ At(c, "work") => work[p] = "running"
  /\ runner[c].pc \in {"work", "abort"} => loop[p].newest = "none"
  /\ runner[c].pc \in {"checkpoint", "finalize", "review"} \cup LoopPcs =>
       work[p] = "completed"

(* The newest review, where c is. *)
Told(c) ==
  LET p == PhaseOf(c) IN
  /\ InRow(c, {"review", "rereview"}) =>
       /\ At(c, "wait") => runner[c].newest = TRUE
       /\ At(c, "passed") => loop[p].newest = "passed"
       /\ At(c, "critical") => loop[p].newest = "critical"
       /\ At(c, "failed") \/ At(c, "cancelled") => loop[p].newest = "void"
  /\ InRow(c, {"review"}) => loop[p].first = TRUE
  /\ InRow(c, {"fix"}) \/ runner[c].pc \in {"fix", "rereview"} => loop[p].newest # "passed"

(* The status of the phase, where c is: a failure before the cycle is over *)
(* is the judgement of on_complete.                                        *)
Judged(c) ==
  LET p == PhaseOf(c) IN
  /\ At(c, "review") => status[p] # "failed"
  /\ runner[c].pc \in LoopPcs /\ status[p] = "failed" =>
       loop[p].failed = TRUE \/ loop[p].left = FALSE
  /\ At(c, "passed") /\ status[p] = "failed" => loop[p].failed = TRUE
  /\ At(c, "review") \/ InRow(c, {"review"}) \/ At(c, "finish") =>
       p \in overruled \/ status[p] \in {"complete", "failed"}
  /\ At(c, "finish") => ~ (status[p] = "complete" /\ loop[p].newest = "critical")

CycleSound(c) == Counted(c) /\ Worked(c) /\ Told(c) /\ Judged(c)

(* Somebody is at work on p and has not come to its end. *)
Minded(p) == \E c \in Runners : Holds(c, p) /\ ~ At(c, "finish")

WorkSound(p) ==
  /\ work[p] = "running" => \E c \in Runners : At(c, "work") /\ PhaseOf(c) = p
  /\ loop[p].newest # "none" => work[p] = "completed"

CriticalSound(p) ==
  status[p] = "complete" /\ loop[p].newest = "critical" =>
    Minded(p) \/ p \in doubtful \/ At(Recovery, "query")

VerdictSound(p) ==
  loop[p].newest = "passed" /\ status[p] = "failed" =>
    /\ loop[p].failed = TRUE
    /\ \/ loop[p].first = TRUE \/ crashes > 0
       \/ \E c \in Runners : Holds(c, p) /\ At(c, "passed") /\ InRow(c, {"rereview"})

(* run_project has left p. *)
LeftSound(p) ==
  At(Project, "next") /\ PhaseOf(Project) = p =>
    /\ status[p] = "complete" /\ loop[p].newest = "critical" => Minded(p)
    /\ p \in overruled \/ status[p] \in {"complete", "failed"} \/ On(p) # {}

PhaseSound(p) ==
  /\ WorkSound(p) /\ CriticalSound(p) /\ VerdictSound(p) /\ LeftSound(p)
  /\ loop[p].fixes <= MaxAttempts * loop[p].reviews

(* What else is needed of c's phase when c has gone a step on. *)
StepSound(c) ==
  /\ CycleSound(c) /\ WorkSound(PhaseOf(c)) /\ VerdictSound(PhaseOf(c))
  /\ loop[PhaseOf(c)].fixes <= MaxAttempts * loop[PhaseOf(c)].reviews

LoopInv ==
  /\ GuardHeld /\ RowsBegun /\ Alone
  /\ \A c \in Runners : Active(c) /\ PhaseOf(c) \notin crowded => CycleSound(c)
  /\ \A p \in Phases \ crowded : PhaseSound(p)

(* c is past the guard and goes on with its phase; of the other coroutines *)
(* only those of its phase lose a claim to the newest review.              *)
Advance(c) ==
  /\ Active(c) /\ Active(c)' /\ PhaseOf(c)' = PhaseOf(c)
  /\ c = Recovery => runner'[c].pc \in RecoveryPcs
  /\ \A d \in Runners \ {c} :
       /\ runner'[d].pc = runner[d].pc /\ runner'[d].phase = runner[d].phase
       /\ runner'[d].kind = runner[d].kind
       /\ PhaseOf(d) # PhaseOf(c) => runner'[d] = runner[d]
  /\ \A p \in Phases \ {PhaseOf(c)} :
       status'[p] = status[p] /\ work'[p] = work[p] /\ loop'[p] = loop[p]
  /\ loop'[PhaseOf(c)].reviews >= loop[PhaseOf(c)].reviews
  /\ UNCHANGED <<executing, doubtful, overruled, crowded, crashes>>

LEMMA LoopFields ==
  ASSUME TypeOK, NEW p \in Phases
  PROVE  /\ loop[p] \in Loops
         /\ loop[p].fixes \in Nat /\ loop[p].reviews \in Nat
         /\ MaxAttempts \in Nat /\ crashes \in Nat
         /\ loop[p].failed \in BOOLEAN /\ loop[p].left \in BOOLEAN
         /\ loop[p].first \in BOOLEAN
         /\ loop[p].newest \in Verdicts \cup {"none", "open", "void"}
         /\ loop[p].last \in Verdicts \cup {"none"}
BY PhaseReviewAssumption DEF TypeOK, Loops

LEMMA RunnerFields ==
  ASSUME TypeOK, NEW c \in Runners
  PROVE  /\ runner[c] \in RunnerType
         /\ runner[c].pc \in Pcs /\ runner[c].attempt \in Nat
         /\ runner[c].kind \in Kinds /\ runner[c].newest \in BOOLEAN
BY DEF TypeOK, RunnerType

(* A step onward keeps the invariant if it leaves c and its phase sound.   *)
LEMMA AdvanceKeeps ==
  ASSUME LoopInv, TypeOK, TypeOK', Placed, NEW c \in Runners, Advance(c),
         RunnerBegun(c)', PhaseBegun(PhaseOf(c))',
         PhaseOf(c) \notin crowded => StepSound(c)'
  PROVE  LoopInv'
<1> DEFINE p0 == PhaseOf(c)
<1>a. p0 \in Phases /\ Recovery \in Runners
  BY DEF Advance, Active, Placed, Runners
<1>1. /\ Holds(c, p0) /\ Holds(c, p0)' /\ Active(c) /\ Active(c)'
      /\ \A d \in Runners, p \in Phases : Holds(d, p)' <=> Holds(d, p)
      /\ \A d \in Runners \ {c} :
           /\ Active(d)' <=> Active(d)
           /\ PhaseOf(d)' = PhaseOf(d)
           /\ runner'[d].pc = runner[d].pc /\ runner'[d].kind = runner[d].kind
  BY DEF Advance, Holds, Active, Working, At, PhaseOf
<1>2. GuardHeld'
  <2>1. runner'[Recovery].pc \in RecoveryPcs
    BY <1>1, <1>a DEF LoopInv, GuardHeld, Advance
  <2>2. executing' = executing /\ executing \subseteq Phases
    BY DEF Advance, TypeOK
  <2> QED
    BY <1>1, <2>1, <2>2 DEF LoopInv, GuardHeld, Guarded
<1>3. RowsBegun'
  <2>1. \A p \in Phases : Begun(p) => Begun(p)'
    <3>1. \A p \in Phases : loop[p].reviews \in Nat /\ loop'[p].reviews \in Nat
      BY LoopFields DEF TypeOK, Loops
    <3>2. \A p \in Phases : loop'[p].reviews >= loop[p].reviews
      BY <3>1 DEF Advance
    <3> QED
      BY <3>1, <3>2 DEF Begun
  <2>2. ASSUME NEW d \in Runners \ {c} PROVE RunnerBegun(d)'
    <3>1. runner[d].pc \in LoopPcs => PhaseOf(d) \in Phases
      BY DEF Placed, Working, LoopPcs, RowPcs
    <3> QED
      BY <1>1, <2>1, <3>1 DEF LoopInv, RowsBegun, RunnerBegun, At
  <2>3. ASSUME NEW p \in Phases \ {p0} PROVE PhaseBegun(p)'
    BY DEF LoopInv, RowsBegun, PhaseBegun, Advance, Begun
  <2>4. ASSUME NEW p \in Phases, p = p0 PROVE PhaseBegun(p)'
    BY <2>4 DEF Advance
  <2>5. RunnerBegun(c)'
    OBVIOUS
  <2> QED
    BY <2>2, <2>3, <2>4, <2>5 DEF RowsBegun
<1>4. Alone'
  BY <1>1 DEF LoopInv, Alone, Advance
<1>5. ASSUME NEW d \in Runners, Active(d)', PhaseOf(d)' \notin crowded'
      PROVE  CycleSound(d)'
  <2>1. CASE d = c
    BY <1>1, <1>5, <2>1 DEF StepSound, Advance
  <2>2. CASE d # c
    <3>1. Active(d) /\ PhaseOf(d) \notin crowded /\ PhaseOf(d) \in Phases
      BY <1>1, <1>5, <2>2 DEF Advance, Active, Placed
    <3>2. PhaseOf(d) # p0
      BY <1>1, <2>2, <3>1 DEF LoopInv, Alone, Holds
    <3>3. /\ runner'[d] = runner[d] /\ UNCHANGED overruled
          /\ status'[PhaseOf(d)] = status[PhaseOf(d)]
          /\ work'[PhaseOf(d)] = work[PhaseOf(d)]
          /\ loop'[PhaseOf(d)] = loop[PhaseOf(d)]
      BY <2>2, <3>1, <3>2 DEF Advance
    <3>4. CycleSound(d)
      BY <3>1 DEF LoopInv
    <3>5. Counted(d)' /\ Worked(d)'
      BY <3>3, <3>4 DEF CycleSound, Counted, Worked, At, InRow, PhaseOf, Earlier
    <3>6. Told(d)' /\ Judged(d)'
      BY <3>3, <3>4 DEF CycleSound, Told, Judged, At, InRow, PhaseOf
    <3> QED
      BY <3>5, <3>6 DEF CycleSound
  <2> QED
    BY <2>1, <2>2
<1>6. ASSUME NEW p \in Phases \ crowded' PROVE PhaseSound(p)'
  <2>a. p \in Phases \ crowded /\ PhaseSound(p)
    BY DEF LoopInv, Advance
  <2>1. CASE p # p0
    <3>1. /\ status'[p] = status[p] /\ work'[p] = work[p] /\ loop'[p] = loop[p]
          /\ UNCHANGED <<doubtful, overruled, crashes>>
      BY <2>1 DEF Advance
    <3>2. \A d \in Runners : PhaseOf(d) = p \/ PhaseOf(d)' = p =>
            /\ runner'[d].pc = runner[d].pc /\ runner'[d].kind = runner[d].kind
            /\ PhaseOf(d) = p /\ PhaseOf(d)' = p
            /\ Working(d) <=> Working(d)'
      BY <2>1 DEF Advance, Working, PhaseOf
    <3>3. WorkSound(p)'
      BY <2>a, <3>1, <3>2 DEF PhaseSound, WorkSound, At
    <3>4. Minded(p) => Minded(p)'
      BY <1>1, <3>2 DEF Minded, At, Holds
    <3>5. At(Recovery, "query") => At(Recovery, "query")'
      BY <1>1, <1>a DEF At, Advance, LoopInv, Active, Working
    <3>6. CriticalSound(p)'
      BY <2>a, <3>1, <3>4, <3>5 DEF PhaseSound, CriticalSound
    <3>7. VerdictSound(p)'
      <4>1. ASSUME NEW d \in Runners, Holds(d, p), At(d, "passed"), InRow(d, {"rereview"})
            PROVE  Holds(d, p)' /\ At(d, "passed")' /\ InRow(d, {"rereview"})'
        BY <1>1, <3>2, <4>1 DEF Holds, At, InRow
      <4> QED
        BY <2>a, <3>1, <4>1 DEF PhaseSound, VerdictSound
    <3>8. On(p) # {} => On(p)' # {}
      BY <3>2 DEF On
    <3>9. LeftSound(p)'
      <4>1. At(Project, "next")' /\ PhaseOf(Project)' = p
            => At(Project, "next") /\ PhaseOf(Project) = p
        BY <3>2 DEF At, Runners
      <4> QED
        BY <2>a, <3>1, <3>4, <3>8, <4>1 DEF PhaseSound, LeftSound
    <3> QED
      BY <2>a, <3>1, <3>3, <3>6, <3>7, <3>9 DEF PhaseSound
  <2>2. CASE p = p0
    <3>1. StepSound(c)' /\ PhaseOf(c)' = p
      BY <1>1, <2>a, <2>2 DEF Advance
    <3>2. /\ WorkSound(p)' /\ VerdictSound(p)' /\ CycleSound(c)'
          /\ loop'[p].fixes <= MaxAttempts * loop'[p].reviews
      BY <3>1 DEF StepSound
    <3>3. status'[p] = "complete" /\ loop'[p].newest = "critical" => Minded(p)'
      BY <1>1, <2>2, <3>1, <3>2 DEF CycleSound, Judged, Minded
    <3>4. On(p)' # {}
      BY <1>1, <2>2 DEF Holds, Active, On
    <3> QED
      BY <3>2, <3>3, <3>4 DEF PhaseSound, CriticalSound, LeftSound
  <2> QED
    BY <2>1, <2>2
<1> QED
  BY <1>2, <1>3, <1>4, <1>5, <1>6 DEF LoopInv

(* A step by which c alone moves, past the guard and with its phase.       *)
LEMMA MovesOn ==
  ASSUME TypeOK, NEW c \in Runners, Active(c), NEW new,
         runner' = [runner EXCEPT ![c] = new], new.phase = PhaseOf(c),
         new.pc \in Pcs \ {"idle", "next", "query", "pick", "asked"},
         c = Recovery => new.pc \in RecoveryPcs,
         \A p \in Phases \ {PhaseOf(c)} :
           status'[p] = status[p] /\ work'[p] = work[p] /\ loop'[p] = loop[p],
         loop'[PhaseOf(c)].reviews >= loop[PhaseOf(c)].reviews,
         UNCHANGED <<executing, doubtful, overruled, crowded, crashes>>
  PROVE  Advance(c) /\ runner'[c] = new /\ PhaseOf(c)' = PhaseOf(c)
<1>1. runner \in [Runners -> RunnerType]
  BY DEF TypeOK, RunnerType
<1>2. runner'[c] = new /\ \A d \in Runners \ {c} : runner'[d] = runner[d]
  BY <1>1
<1>3. Active(c)' /\ PhaseOf(c)' = PhaseOf(c)
  BY <1>2 DEF Active, Working, At, PhaseOf
<1> QED
  BY <1>2, <1>3 DEF Advance

(* The same of a Goto. *)
LEMMA GoesOn ==
  ASSUME TypeOK, NEW c \in Runners, Active(c), NEW pc, Goto(c, pc),
         pc \in Pcs \ {"idle", "next", "query", "pick", "asked"},
         c = Recovery => pc \in RecoveryPcs,
         \A p \in Phases \ {PhaseOf(c)} :
           status'[p] = status[p] /\ work'[p] = work[p] /\ loop'[p] = loop[p],
         loop'[PhaseOf(c)].reviews >= loop[PhaseOf(c)].reviews,
         UNCHANGED <<executing, doubtful, overruled, crowded, crashes>>
  PROVE  /\ Advance(c) /\ PhaseOf(c)' = PhaseOf(c)
         /\ runner'[c].pc = pc /\ runner'[c].kind = runner[c].kind
         /\ runner'[c].attempt = runner[c].attempt /\ runner'[c].newest = runner[c].newest
<1> DEFINE new == [runner[c] EXCEPT !.pc = pc]
<1>1. new.pc = pc /\ new.phase = PhaseOf(c) /\ new.kind = runner[c].kind
      /\ new.attempt = runner[c].attempt /\ new.newest = runner[c].newest
  BY RunnerFields DEF RunnerType, PhaseOf
<1>2. runner' = [runner EXCEPT ![c] = new]
  BY DEF Goto
<1> HIDE DEF new
<1>3. Advance(c) /\ runner'[c] = new /\ PhaseOf(c)' = PhaseOf(c)
  BY <1>1, <1>2, MovesOn
<1> QED
  BY <1>1, <1>3

(* What holds where c is, on a phase that nobody else works on. *)
LEMMA Sound ==
  ASSUME LoopInv, TypeOK, Placed, NEW c \in Runners, Active(c)
  PROVE  /\ PhaseOf(c) \in Phases /\ loop[PhaseOf(c)].reviews \in Nat
         /\ RunnerBegun(c) /\ PhaseBegun(PhaseOf(c))
         /\ c = Recovery => runner[c].pc \in RecoveryPcs
         /\ PhaseOf(c) \notin crowded =>
              /\ CycleSound(c) /\ PhaseSound(PhaseOf(c))
              /\ \A d \in Runners : Holds(d, PhaseOf(c)) => d = c
<1>1. PhaseOf(c) \in Phases
  BY DEF Active, Placed
<1> QED
  BY <1>1, LoopFields DEF LoopInv, RowsBegun, GuardHeld, Alone, Holds

(* The fixes before the latest first review, in numbers. *)
LEMMA EarlierFixes ==
  ASSUME TypeOK, NEW p \in Phases, loop[p].reviews >= 1
  PROVE  /\ Earlier(p) \in Nat /\ Earlier(p) + MaxAttempts = MaxAttempts * loop[p].reviews
<1>1. loop[p].reviews \in Nat \ {0} /\ MaxAttempts \in Nat
  BY LoopFields
<1>2. \A m \in Nat, r \in Nat \ {0} : m * (r - 1) \in Nat /\ m * (r - 1) + m = m * r
  OBVIOUS
<1> QED
  BY <1>1, <1>2 DEF Earlier

(* Load finds the phase's tasks over, or starts them.                      *)
LEMMA LoadKeeps ==
  ASSUME LoopInv, TypeOK, TypeOK', Placed, NEW c \in Runners, Load(c)
  PROVE  LoopInv'
<1> DEFINE p == PhaseOf(c)
<1>1. Active(c) /\ runner[c].pc = "load" /\ c # Recovery
  BY DEF Load, At, Active, Working, LoopInv, GuardHeld, RecoveryPcs, LoopPcs, RowPcs
<1>2. PICK pc \in {"work", "finalize"} :
        /\ Goto(c, pc) /\ status' = [status EXCEPT ![p] = "in_progress"]
        /\ pc = "work" => work[p] \in {"pending", "failed"}
                          /\ work' = [work EXCEPT ![p] = "running"]
        /\ pc = "finalize" => work[p] \notin {"pending", "failed"} /\ work' = work
  BY DEF Load, SetStatus
<1>3. UNCHANGED <<loop, executing, doubtful, overruled, crowded, crashes>>
  BY DEF Load, bookkeeping
<1>4. /\ p \in Phases /\ loop[p].reviews \in Nat
      /\ status \in [Phases -> {"not_started", "in_progress", "complete", "failed"}]
      /\ work \in [Phases -> {"pending", "running", "completed", "failed"}]
  BY <1>1, Sound DEF TypeOK
<1>5. /\ Advance(c) /\ PhaseOf(c)' = p /\ runner'[c].pc = pc
      /\ runner'[c].kind = runner[c].kind
  BY <1>1, <1>2, <1>3, <1>4, GoesOn DEF Pcs
<1>6. RunnerBegun(c)' /\ PhaseBegun(PhaseOf(c))'
  BY <1>1, <1>3, <1>5, Sound DEF RunnerBegun, PhaseBegun, Begun, At, LoopPcs, RowPcs
<1>7. ASSUME PhaseOf(c) \notin crowded PROVE StepSound(c)'
  <2>1. status'[p] = "in_progress" /\ loop'[p] = loop[p]
    BY <1>2, <1>3, <1>4
  <2>2. PhaseSound(p) /\ \A d \in Runners : Holds(d, p) => d = c
    BY <1>1, <1>7, Sound
  <2>3. /\ pc = "work" => work'[p] = "running" /\ loop[p].newest = "none"
        /\ pc = "finalize" => work'[p] = "completed"
    <3>1. work[p] = "running" => \E d \in Runners : Holds(d, p) /\ At(d, "work")
      BY <2>2 DEF PhaseSound, WorkSound, Holds, Active, Working, At
    <3>2. work[p] # "running"
      BY <1>1, <2>2, <3>1 DEF At
    <3> QED
      BY <1>2, <1>4, <2>2, <3>2 DEF PhaseSound, WorkSound
  <2>4. CycleSound(c)'
    BY <1>5, <2>1, <2>3
    DEF CycleSound, Counted, Worked, Told, Judged, At, InRow, LoopPcs, RowPcs
  <2>5. WorkSound(p)' /\ VerdictSound(p)'
    BY <1>5, <2>1, <2>3 DEF WorkSound, VerdictSound, At
  <2> QED
    BY <1>5, <2>1, <2>2, <2>4, <2>5 DEF StepSound, PhaseSound
<1> QED
  BY <1>1, <1>5, <1>6, <1>7, AdvanceKeeps

(* The steps between two rows: only the status of the phase may change.    *)
LEMMA Turns ==
  ASSUME LoopInv, TypeOK, TypeOK', Placed, NEW c \in Runners, Active(c),
         ~ At(c, "work"), NEW new, runner' = [runner EXCEPT ![c] = new],
         new.phase = PhaseOf(c), new.kind = runner[c].kind,
         new.pc \in {"checkpoint", "finalize", "abort", "review", "fix", "rereview", "finish"},
         c = Recovery => new.pc \in RecoveryPcs,
         new.pc = "review" => PhaseOf(c) \in Reviewed,
         new.pc \in {"fix", "rereview"} => runner[c].pc \in LoopPcs,
         \A p \in Phases \ {PhaseOf(c)} : status'[p] = status[p],
         UNCHANGED <<work, loop, executing, doubtful, overruled, crowded, crashes>>,
         PhaseOf(c) \notin crowded =>
           \A p \in Phases : p = PhaseOf(c) /\ PhaseOf(c)' = p /\ runner'[c] = new =>
             CycleSound(c)' /\ VerdictSound(p)'
  PROVE  LoopInv'
<1> DEFINE p == PhaseOf(c)
<1>1. p \in Phases /\ loop[p].reviews \in Nat
  BY Sound
<1>2. Advance(c) /\ runner'[c] = new /\ PhaseOf(c)' = p
  <2>1. new.pc \in Pcs \ {"idle", "next", "query", "pick", "asked"}
    BY DEF Pcs
  <2>2. loop'[p].reviews >= loop[p].reviews
    BY <1>1
  <2> QED
    BY <2>1, <2>2, MovesOn
<1>3. RunnerBegun(c)' /\ PhaseBegun(PhaseOf(c))'
  BY <1>2, Sound DEF RunnerBegun, PhaseBegun, Begun, At, LoopPcs, RowPcs
<1>4. ASSUME PhaseOf(c) \notin crowded PROVE StepSound(c)'
  <2>1. PhaseSound(p) /\ \A d \in Runners : Holds(d, p) => d = c
    BY <1>4, Sound
  <2>2. CycleSound(c)' /\ VerdictSound(p)'
    BY <1>1, <1>2, <1>4
  <2>3. WorkSound(p)'
    <3>1. ~ \E d \in Runners : At(d, "work") /\ PhaseOf(d) = p
      BY <2>1 DEF At, Holds, Active, Working
    <3> QED
      BY <1>2, <2>1, <3>1 DEF PhaseSound, WorkSound
  <2>4. loop'[p].fixes <= MaxAttempts * loop'[p].reviews
    BY <2>1 DEF PhaseSound
  <2> QED
    BY <1>2, <2>2, <2>3, <2>4 DEF StepSound
<1> QED
  BY <1>2, <1>3, <1>4, AdvanceKeeps

LEMMA GotoTurns ==
  ASSUME LoopInv, TypeOK, TypeOK', Placed, NEW c \in Runners, Active(c),
         ~ At(c, "work"), NEW pc, Goto(c, pc),
         pc \in {"checkpoint", "finalize", "abort", "review", "fix", "rereview", "finish"},
         c = Recovery => pc \in RecoveryPcs,
         pc = "review" => PhaseOf(c) \in Reviewed,
         pc \in {"fix", "rereview"} => runner[c].pc \in LoopPcs,
         \A p \in Phases \ {PhaseOf(c)} : status'[p] = status[p],
         UNCHANGED <<work, loop, executing, doubtful, overruled, crowded, crashes>>,
         PhaseOf(c) \notin crowded =>
           \A p \in Phases :
             /\ p = PhaseOf(c) /\ PhaseOf(c)' = p /\ runner'[c].pc = pc
             /\ runner'[c].kind = runner[c].kind /\ runner'[c].attempt = runner[c].attempt
             /\ runner'[c].newest = runner[c].newest
             => CycleSound(c)' /\ VerdictSound(p)'
  PROVE  LoopInv'
<1> DEFINE new == [runner[c] EXCEPT !.pc = pc]
<1>1. /\ new.pc = pc /\ new.phase = PhaseOf(c) /\ new.kind = runner[c].kind
      /\ new.attempt = runner[c].attempt /\ new.newest = runner[c].newest
  BY RunnerFields DEF RunnerType, PhaseOf
<1>2. runner' = [runner EXCEPT ![c] = new]
  BY DEF Goto
<1> HIDE DEF new
<1> QED
  BY <1>1, <1>2, Turns

(* Nobody is at the end of a re-review of p but c. *)
LEMMA NotOverruled ==
  ASSUME LoopInv, TypeOK, Placed, NEW c \in Runners, Active(c),
         PhaseOf(c) \notin crowded,
         loop[PhaseOf(c)].newest = "passed", status[PhaseOf(c)] = "failed"
  PROVE  /\ loop[PhaseOf(c)].failed = TRUE
         /\ \/ loop[PhaseOf(c)].first = TRUE \/ crashes > 0
            \/ At(c, "passed") /\ InRow(c, {"rereview"})
BY Sound DEF PhaseSound, VerdictSound

LEMMA CheckpointKeeps ==
  ASSUME LoopInv, TypeOK, TypeOK', Placed, NEW c \in Runners, Checkpoint(c)
  PROVE  LoopInv'
<1> DEFINE p == PhaseOf(c)
<1>1. /\ Active(c) /\ runner[c].pc = "checkpoint" /\ Goto(c, "finalize") /\ c # Recovery
      /\ UNCHANGED <<status, work, loop, executing, doubtful, overruled, crowded, crashes>>
  BY DEF Checkpoint, bookkeeping, At, Active, Working, LoopInv, GuardHeld,
         RecoveryPcs, LoopPcs, RowPcs
<1>2. ASSUME p \notin crowded, PhaseOf(c)' = p, runner'[c].pc = "finalize"
      PROVE  CycleSound(c)' /\ VerdictSound(p)'
  <2>1. work[p] = "completed"
    BY <1>1, <1>2, Sound DEF CycleSound, Worked
  <2>2. CycleSound(c)'
    BY <1>1, <1>2, <2>1
    DEF CycleSound, Counted, Worked, Told, Judged, At, InRow, LoopPcs, RowPcs
  <2>3. VerdictSound(p)'
    BY <1>1, <1>2, NotOverruled DEF VerdictSound, At
  <2> QED
    BY <2>2, <2>3
<1> QED
  BY <1>1, <1>2, GotoTurns DEF At

LEMMA FinalizeKeeps ==
  ASSUME LoopInv, TypeOK, TypeOK', Placed, NEW c \in Runners, Finalize(c)
  PROVE  LoopInv'
<1> DEFINE p == PhaseOf(c)
<1>1. /\ Active(c) /\ runner[c].pc = "finalize" /\ c # Recovery
      /\ UNCHANGED <<work, loop, executing, doubtful, overruled, crowded, crashes>>
  BY DEF Finalize, bookkeeping, At, Active, Working, LoopInv, GuardHeld,
         RecoveryPcs, LoopPcs, RowPcs
<1>2. PICK pc \in {"review", "finish"} :
        /\ Goto(c, pc) /\ status' = [status EXCEPT ![p] = "complete"]
        /\ pc = "review" <=> p \in Reviewed
  BY DEF Finalize, SetStatus
<1>3. /\ p \in Phases /\ \A q \in Phases \ {p} : status'[q] = status[q]
      /\ status'[p] = "complete"
  BY <1>1, <1>2, Sound DEF TypeOK
<1>4. ASSUME p \notin crowded, PhaseOf(c)' = p, runner'[c].pc = pc
      PROVE  CycleSound(c)' /\ VerdictSound(p)'
  <2>1. work[p] = "completed"
    BY <1>1, <1>4, Sound DEF CycleSound, Worked
  <2>2. pc = "finish" => loop[p].newest = "none"
    BY <1>1, <1>2, Sound DEF PhaseBegun, Begun
  <2>3. CycleSound(c)'
    BY <1>1, <1>2, <1>3, <1>4, <2>1, <2>2
    DEF CycleSound, Counted, Worked, Told, Judged, At, InRow, LoopPcs, RowPcs
  <2>4. VerdictSound(p)'
    BY <1>3, <1>4 DEF VerdictSound
  <2> QED
    BY <2>3, <2>4
<1> QED
  BY <1>1, <1>2, <1>3, <1>4, GotoTurns DEF At

LEMMA GivesUpKeeps ==
  ASSUME LoopInv, TypeOK, TypeOK', Placed, NEW c \in Runners, Abort(c) \/ GiveUp(c)
  PROVE  LoopInv'
<1> DEFINE p == PhaseOf(c)
<1>1. /\ Active(c) /\ runner[c].pc \in {"abort", "fix"} /\ Goto(c, "finish")
      /\ status' = [status EXCEPT ![p] = "failed"]
      /\ UNCHANGED <<work, loop, executing, doubtful, overruled, crowded, crashes>>
  BY DEF Abort, GiveUp, bookkeeping, At, Active, Working, SetStatus
<1>2. /\ p \in Phases /\ \A q \in Phases \ {p} : status'[q] = status[q]
      /\ status'[p] = "failed"
  BY <1>1, Sound DEF TypeOK
<1>3. ASSUME p \notin crowded, PhaseOf(c)' = p, runner'[c].pc = "finish"
      PROVE  CycleSound(c)' /\ VerdictSound(p)'
  <2>1. loop[p].newest # "passed"
    BY <1>1, <1>3, Sound DEF CycleSound, Worked, Told
  <2>2. CycleSound(c)'
    BY <1>2, <1>3
    DEF CycleSound, Counted, Worked, Told, Judged, At, InRow, LoopPcs, RowPcs
  <2>3. VerdictSound(p)'
    BY <1>1, <1>3, <2>1 DEF VerdictSound
  <2> QED
    BY <2>2, <2>3
<1> QED
  BY <1>1, <1>2, <1>3, GotoTurns DEF At, RecoveryPcs

LEMMA FixEndsKeeps ==
  ASSUME LoopInv, TypeOK, TypeOK', Placed, NEW c \in Runners, FixEnds(c)
  PROVE  LoopInv'
<1> DEFINE p == PhaseOf(c)
<1>1. /\ Active(c) /\ runner[c].pc \in {"failed", "cancelled", "passed", "critical"}
      /\ runner[c].kind = "fix" /\ Goto(c, "rereview")
      /\ UNCHANGED <<status, work, loop, executing, doubtful, overruled, crowded, crashes>>
  BY DEF FixEnds, Was, Verdicts, bookkeeping, At, Active, Working
<1>2. ASSUME p \notin crowded, PhaseOf(c)' = p, runner'[c].pc = "rereview",
             runner'[c].kind = "fix", runner'[c].attempt = runner[c].attempt
      PROVE  CycleSound(c)' /\ VerdictSound(p)'
  <2>1. Counted(c) /\ Worked(c) /\ Told(c) /\ Judged(c)
    BY <1>1, <1>2, Sound DEF CycleSound
  <2>2. Counted(c)' /\ Worked(c)'
    BY <1>1, <1>2, <2>1 DEF Counted, Worked, Earlier, At, InRow, LoopPcs, RowPcs
  <2>3. Told(c)' /\ Judged(c)' /\ loop[p].newest # "passed"
    BY <1>1, <1>2, <2>1 DEF Told, Judged, At, InRow, LoopPcs, RowPcs
  <2>4. VerdictSound(p)'
    BY <1>1, <1>2, <2>3 DEF VerdictSound
  <2> QED
    BY <2>2, <2>3, <2>4 DEF CycleSound
<1> QED
  BY <1>1, <1>2, GotoTurns DEF At, RecoveryPcs, LoopPcs, RowPcs

LEMMA FirstReviewEndsKeeps ==
  ASSUME LoopInv, TypeOK, TypeOK', Placed, NEW c \in Runners, FirstReviewEnds(c)
  PROVE  LoopInv'
<1> DEFINE p == PhaseOf(c)
           pc == IF runner[c].pc = "critical" THEN "fix" ELSE "finish"
           new == [runner[c] EXCEPT !.attempt = 1, !.pc = pc]
<1>1. /\ Active(c) /\ runner[c].pc \in {"failed", "cancelled", "passed", "critical"}
      /\ runner[c].kind = "review"
      /\ UNCHANGED <<status, work, loop, executing, doubtful, overruled, crowded, crashes>>
  BY DEF FirstReviewEnds, Was, Verdicts, bookkeeping, At, Active, Working
<1>2. /\ runner' = [runner EXCEPT ![c] = new]
      /\ new.phase = p /\ new.pc = pc /\ new.kind = "review" /\ new.attempt = 1
  BY <1>1, RunnerFields DEF FirstReviewEnds, RunnerType, PhaseOf, TypeOK
<1>3. pc \in {"fix", "finish"} /\ (pc = "fix" <=> runner[c].pc = "critical")
  OBVIOUS
<1> HIDE DEF new, pc
<1>4. ASSUME p \notin crowded, PhaseOf(c)' = p, runner'[c] = new
      PROVE  CycleSound(c)' /\ VerdictSound(p)'
  <2>1. Counted(c) /\ Worked(c) /\ Told(c) /\ Judged(c) /\ Earlier(p) \in Nat
    BY <1>1, <1>4, Sound, EarlierFixes
    DEF CycleSound, RunnerBegun, Begun, LoopPcs, RowPcs
  <2>2. Counted(c)' /\ Worked(c)'
    BY <1>1, <1>2, <1>3, <1>4, <2>1, LoopFields, Sound
    DEF Counted, Worked, Earlier, At, InRow, LoopPcs, RowPcs
  <2>3. Told(c)' /\ Judged(c)'
    BY <1>1, <1>2, <1>3, <1>4, <2>1 DEF Told, Judged, At, InRow, LoopPcs, RowPcs
  <2>4. VerdictSound(p)'
    BY <1>1, <1>4, NotOverruled DEF VerdictSound, At, InRow
  <2> QED
    BY <2>2, <2>3, <2>4 DEF CycleSound
<1> QED
  BY <1>1, <1>2, <1>3, <1>4, Turns DEF At, RecoveryPcs, LoopPcs, RowPcs

LEMMA UnresolvedKeeps ==
  ASSUME LoopInv, TypeOK, TypeOK', Placed, NEW c \in Runners, ReReviewUnresolved(c)
  PROVE  LoopInv'
<1> DEFINE p == PhaseOf(c)
           attempt == runner[c].attempt + 1
           new == [runner[c] EXCEPT !.pc = "fix", !.attempt = attempt]
<1>1. /\ Active(c) /\ runner[c].pc = "critical" /\ runner[c].kind = "rereview"
      /\ UNCHANGED <<status, work, loop, executing, doubtful, overruled, crowded, crashes>>
  BY DEF ReReviewUnresolved, Was, bookkeeping, At, Active, Working
<1>2. /\ runner' = [runner EXCEPT ![c] = new]
      /\ new.phase = p /\ new.pc = "fix" /\ new.kind = "rereview" /\ new.attempt = attempt
  BY <1>1, RunnerFields DEF ReReviewUnresolved, RunnerType, PhaseOf, TypeOK
<1> HIDE DEF new
<1>3. ASSUME p \notin crowded, PhaseOf(c)' = p, runner'[c] = new
      PROVE  CycleSound(c)' /\ VerdictSound(p)'
  <2>1. Counted(c) /\ Worked(c) /\ Told(c) /\ Judged(c) /\ runner[c].attempt \in Nat
    BY <1>1, <1>3, Sound, RunnerFields DEF CycleSound
  <2>2. Counted(c)' /\ Worked(c)'
    <3>1. Earlier(p) + attempt - 1 = Earlier(p) + runner[c].attempt
      BY <1>1, <1>3, <2>1, Sound, EarlierFixes DEF RunnerBegun, Begun, LoopPcs, RowPcs
    <3>2. loop[p].fixes <= Earlier(p) + runner[c].attempt /\ runner[c].attempt >= 1
      BY <1>1, <2>1 DEF Counted, At, InRow, RowPcs
    <3>3. Counted(c)'
      BY <1>1, <1>2, <1>3, <2>1, <3>1, <3>2 DEF Counted, Earlier, At, InRow, RowPcs
    <3>4. Worked(c)'
      BY <1>1, <1>2, <1>3, <2>1 DEF Worked, At, LoopPcs, RowPcs
    <3> QED
      BY <3>3, <3>4
  <2>3. Told(c)' /\ Judged(c)' /\ loop[p].newest = "critical"
    BY <1>1, <1>2, <1>3, <2>1 DEF Told, Judged, At, InRow, LoopPcs, RowPcs
  <2>4. VerdictSound(p)'
    BY <1>1, <1>3, <2>3 DEF VerdictSound
  <2> QED
    BY <2>2, <2>3, <2>4 DEF CycleSound
<1> QED
  BY <1>1, <1>2, <1>3, Turns DEF At, RecoveryPcs, LoopPcs, RowPcs

LEMMA DecidesKeeps ==
  ASSUME LoopInv, TypeOK, TypeOK', Placed, NEW c \in Runners, ReReviewDecides(c)
  PROVE  LoopInv'
<1> DEFINE p == PhaseOf(c)
<1>1. /\ Active(c) /\ runner[c].pc \in {"failed", "cancelled", "passed"}
      /\ runner[c].kind = "rereview" /\ Goto(c, "finish")
      /\ UNCHANGED <<work, loop, executing, doubtful, overruled, crowded, crashes>>
  BY DEF ReReviewDecides, Was, Verdicts, bookkeeping, At, Active, Working
<1>2. /\ p \in Phases /\ \A q \in Phases \ {p} : status'[q] = status[q]
      /\ status'[p] = IF runner[c].pc = "failed" THEN "failed" ELSE "complete"
  BY <1>1, Sound DEF ReReviewDecides, SetStatus, TypeOK, At
<1>3. ASSUME p \notin crowded, PhaseOf(c)' = p, runner'[c].pc = "finish"
      PROVE  CycleSound(c)' /\ VerdictSound(p)'
  <2>1. Worked(c) /\ Told(c)
    BY <1>1, <1>3, Sound DEF CycleSound
  <2>2. Counted(c)' /\ Worked(c)'
    BY <1>1, <1>3, <2>1 DEF Counted, Worked, At, InRow, LoopPcs, RowPcs
  <2>3. Told(c)' /\ Judged(c)'
    BY <1>1, <1>2, <1>3, <2>1 DEF Told, Judged, At, InRow, LoopPcs, RowPcs
  <2>4. VerdictSound(p)'
    BY <1>1, <1>2, <1>3, <2>1 DEF VerdictSound, Told, At, InRow, RowPcs
  <2> QED
    BY <2>2, <2>3, <2>4 DEF CycleSound
<1> QED
  BY <1>1, <1>2, <1>3, GotoTurns DEF At, RecoveryPcs

(* c, its phase and the rows of that, once a row of this kind is created.  *)
RowCreated(c, kind, started) ==
  LET p == PhaseOf(c)
      isReview == kind # "fix"
  IN
  /\ Active(c) /\ p \in Phases /\ Advance(c) /\ PhaseOf(c)' = p
  /\ runner[c].pc = kind
  /\ kind = "fix" => runner[c].attempt <= MaxAttempts
  /\ runner'[c].pc = IF started THEN "wait" ELSE "failed"
  /\ runner'[c].kind = kind /\ runner'[c].newest = isReview
  /\ runner'[c].attempt = runner[c].attempt
  /\ UNCHANGED <<status, work, crashes, overruled>>
  /\ loop'[p].failed = (loop[p].failed \/ ~ started)
  /\ loop'[p].left = loop[p].left /\ loop'[p].fixes = loop[p].fixes
  /\ loop'[p].last = loop[p].last
  /\ loop'[p].reviews = IF kind = "review" THEN loop[p].reviews + 1 ELSE loop[p].reviews
  /\ loop'[p].first = IF isReview THEN kind = "review" ELSE loop[p].first
  /\ loop'[p].newest = IF ~ isReview THEN loop[p].newest
                       ELSE IF started THEN "open" ELSE "void"

(* A row is created: the fix or review that c wants next.                  *)
LEMMA NewRowAdvances ==
  ASSUME LoopInv, TypeOK, TypeOK', Placed, NEW c \in Runners,
         SpawnReview(c) \/ SpawnFix(c) \/ SpawnReReview(c)
  PROVE  \E kind \in {"review", "fix", "rereview"}, started \in BOOLEAN :
           RowCreated(c, kind, started)
<1> DEFINE p == PhaseOf(c)
<1>1. PICK kind \in {"review", "fix", "rereview"} :
        /\ runner[c].pc = kind /\ NewRow(c, kind)
        /\ kind = "fix" => runner[c].attempt <= MaxAttempts
  BY DEF SpawnReview, SpawnFix, SpawnReReview, At
<1> DEFINE isReview == kind # "fix"
<1>2. /\ Active(c) /\ p \in Phases /\ loop[p].reviews \in Nat
      /\ loop \in [Phases -> Loops] /\ loop[p] \in Loops
      /\ runner \in [Runners -> RunnerType] /\ runner[c] \in RunnerType
  <2>1. Active(c)
    BY <1>1 DEF At, Active, Working
  <2> QED
    BY <2>1, Sound DEF TypeOK, RunnerType
<1>3. PICK started \in BOOLEAN :
        /\ loop' = [loop EXCEPT
             ![p].failed = @ \/ ~ started,
             ![p].reviews = IF kind = "review" THEN @ + 1 ELSE @,
             ![p].first = IF isReview THEN kind = "review" ELSE @,
             ![p].newest = IF ~ isReview THEN @ ELSE IF started THEN "open" ELSE "void"]
        /\ runner' = [d \in Runners |->
             IF d = c THEN [runner[c] EXCEPT !.pc = IF started THEN "wait" ELSE "failed",
                                             !.kind = kind, !.newest = isReview]
             ELSE IF isReview /\ PhaseOf(d) = p THEN [runner[d] EXCEPT !.newest = FALSE]
             ELSE runner[d]]
  BY <1>1 DEF NewRow
<1> DEFINE failed  == loop[p].failed \/ ~ started
           reviews == IF kind = "review" THEN loop[p].reviews + 1 ELSE loop[p].reviews
           first   == IF isReview THEN kind = "review" ELSE loop[p].first
           newest  == IF ~ isReview THEN loop[p].newest ELSE IF started THEN "open" ELSE "void"
           row     == [loop[p] EXCEPT !.failed = failed, !.reviews = reviews,
                                      !.first = first, !.newest = newest]
           pc      == IF started THEN "wait" ELSE "failed"
           mine    == [runner[c] EXCEPT !.pc = pc, !.kind = kind, !.newest = isReview]
<1>4. loop' = [loop EXCEPT ![p] = row]
  BY <1>2, <1>3, Zenon
<1>5. runner' = [d \in Runners |->
          IF d = c THEN mine
          ELSE IF isReview /\ PhaseOf(d) = p THEN [runner[d] EXCEPT !.newest = FALSE]
          ELSE runner[d]]
  BY <1>3
<1>6. reviews >= loop[p].reviews
  BY <1>2
<1>7. pc \in {"wait", "failed"}
  OBVIOUS
<1> HIDE DEF failed, reviews, first, newest, pc, isReview
<1>8. /\ row.failed = failed /\ row.reviews = reviews /\ row.first = first
      /\ row.newest = newest /\ row.left = loop[p].left
      /\ row.fixes = loop[p].fixes /\ row.last = loop[p].last
  BY <1>2 DEF Loops
<1>9. /\ mine.pc = pc /\ mine.kind = kind /\ mine.newest = isReview
      /\ mine.phase = p /\ mine.attempt = runner[c].attempt
  BY <1>2 DEF RunnerType, PhaseOf
<1>10. \A d \in Runners : /\ [runner[d] EXCEPT !.newest = FALSE].pc = runner[d].pc
                          /\ [runner[d] EXCEPT !.newest = FALSE].phase = runner[d].phase
                          /\ [runner[d] EXCEPT !.newest = FALSE].kind = runner[d].kind
  BY <1>2 DEF RunnerType
<1> HIDE DEF row, mine
<1>11. loop'[p] = row /\ \A q \in Phases \ {p} : loop'[q] = loop[q]
  BY <1>2, <1>4
<1>12. /\ runner'[c] = mine /\ PhaseOf(c)' = p
       /\ \A d \in Runners \ {c} :
            /\ runner'[d].pc = runner[d].pc /\ runner'[d].phase = runner[d].phase
            /\ runner'[d].kind = runner[d].kind
            /\ PhaseOf(d) # p => runner'[d] = runner[d]
  BY <1>5, <1>9, <1>10 DEF PhaseOf
<1>13. UNCHANGED <<status, work, executing, doubtful, overruled, crowded, crashes>>
  BY <1>1 DEF NewRow, bookkeeping
<1>14. Active(c)' /\ (c = Recovery => runner'[c].pc \in RecoveryPcs)
  BY <1>7, <1>9, <1>12 DEF Active, Working, At, RecoveryPcs, LoopPcs, RowPcs
<1>15. Advance(c)
  BY <1>2, <1>6, <1>8, <1>11, <1>12, <1>13, <1>14 DEF Advance
<1> WITNESS kind \in {"review", "fix", "rereview"}, started \in BOOLEAN
<1> QED
  BY <1>1, <1>2, <1>8, <1>9, <1>11, <1>12, <1>13, <1>15
  DEF RowCreated, failed, reviews, first, newest, pc, isReview

LEMMA NewRowSound ==
  ASSUME LoopInv, TypeOK, TypeOK', Placed, NEW c \in Runners,
         SpawnReview(c) \/ SpawnFix(c) \/ SpawnReReview(c)
  PROVE  LoopInv'
<1> DEFINE p == PhaseOf(c)
<1>a. PICK kind \in {"review", "fix", "rereview"}, started \in BOOLEAN :
        RowCreated(c, kind, started)
  BY NewRowAdvances
<1>1. /\ Active(c) /\ p \in Phases /\ Advance(c) /\ PhaseOf(c)' = p
      /\ runner[c].pc = kind
      /\ kind = "fix" => runner[c].attempt <= MaxAttempts
      /\ runner'[c].pc = IF started THEN "wait" ELSE "failed"
      /\ runner'[c].kind = kind /\ runner'[c].newest = (kind # "fix")
      /\ runner'[c].attempt = runner[c].attempt
      /\ UNCHANGED <<status, work, crashes, overruled>>
      /\ loop'[p].failed = (loop[p].failed \/ ~ started)
      /\ loop'[p].left = loop[p].left /\ loop'[p].fixes = loop[p].fixes
      /\ loop'[p].last = loop[p].last
      /\ loop'[p].reviews = IF kind = "review" THEN loop[p].reviews + 1 ELSE loop[p].reviews
      /\ loop'[p].first = IF kind # "fix" THEN kind = "review" ELSE loop[p].first
      /\ loop'[p].newest = IF kind = "fix" THEN loop[p].newest
                           ELSE IF started THEN "open" ELSE "void"
  BY <1>a DEF RowCreated
<1>2. /\ loop[p].reviews \in Nat /\ loop[p].fixes \in Nat /\ MaxAttempts \in Nat
      /\ runner[c].attempt \in Nat /\ loop'[p].reviews \in Nat
      /\ loop[p].last \in Verdicts \cup {"none"}
  BY <1>1, LoopFields, RunnerFields DEF TypeOK, Loops
<1>3. RunnerBegun(c) /\ PhaseBegun(p)
  BY <1>1, Sound
<1>4. p \in Reviewed /\ loop'[p].reviews >= 1 /\ (kind # "review" => loop[p].reviews >= 1)
  BY <1>1, <1>2, <1>3 DEF RunnerBegun, Begun, At, LoopPcs
<1>5. RunnerBegun(c)'
  BY <1>1, <1>4 DEF RunnerBegun, Begun, At
<1>6. PhaseBegun(PhaseOf(c))'
  <2>1. loop'[p].newest # "none"
    BY <1>1, <1>3, <1>4 DEF PhaseBegun
  <2>2. loop'[p].newest \in Verdicts => loop'[p].last = loop'[p].newest
    BY <1>1, <1>3 DEF PhaseBegun, Verdicts
  <2> QED
    BY <1>1, <1>4, <2>1, <2>2 DEF PhaseBegun, Begun
<1>7. ASSUME p \notin crowded PROVE StepSound(c)'
  <2>1. /\ Counted(c) /\ Worked(c) /\ Told(c) /\ Judged(c) /\ PhaseSound(p)
        /\ \A d \in Runners : Holds(d, p) => d = c
    BY <1>1, <1>7, Sound DEF CycleSound
  <2>2. Counted(c)'
    <3>1. CASE kind = "review"
      <4>1. Earlier(p)' = MaxAttempts * loop[p].reviews
        BY <1>1, <1>2, <3>1 DEF Earlier
      <4>2. loop'[p].fixes <= Earlier(p)'
        BY <1>1, <2>1, <4>1 DEF PhaseSound
      <4> QED
        BY <1>1, <3>1, <4>2 DEF Counted, At, InRow, RowPcs
    <3>2. CASE kind # "review"
      <4>1. Earlier(p)' = Earlier(p) /\ Earlier(p) \in Nat
        BY <1>1, <1>4, <3>2, EarlierFixes DEF Earlier
      <4> QED
        BY <1>1, <1>2, <2>1, <3>2, <4>1 DEF Counted, At, InRow, RowPcs
    <3> QED
      BY <3>1, <3>2
  <2>3. Worked(c)' /\ work[p] = "completed"
    BY <1>1, <2>1 DEF Worked, At, LoopPcs, RowPcs
  <2>4. Told(c)'
    BY <1>1, <2>1 DEF Told, At, InRow, RowPcs
  <2>5. Judged(c)'
    BY <1>1, <2>1 DEF Judged, At, InRow, LoopPcs, RowPcs
  <2>6. WorkSound(p)'
    BY <1>1, <2>3 DEF WorkSound
  <2>7. VerdictSound(p)'
    <3>1. loop'[p].newest # "passed"
      BY <1>1, <2>1 DEF Told
    <3> QED
      BY <1>1, <3>1 DEF VerdictSound
  <2>8. loop'[p].fixes <= MaxAttempts * loop'[p].reviews
    <3>1. \A m, r \in Nat : m * r <= m * (r + 1) /\ m * r \in Nat /\ m * (r + 1) \in Nat
      OBVIOUS
    <3>2. loop'[p].reviews \in {loop[p].reviews, loop[p].reviews + 1}
      BY <1>1
    <3>3. /\ MaxAttempts * loop[p].reviews <= MaxAttempts * loop'[p].reviews
          /\ MaxAttempts * loop[p].reviews \in Nat
          /\ MaxAttempts * loop'[p].reviews \in Nat
      BY <1>2, <3>1, <3>2
    <3> QED
      BY <1>1, <1>2, <2>1, <3>3 DEF PhaseSound
  <2> QED
    BY <1>1, <2>2, <2>3, <2>4, <2>5, <2>6, <2>7, <2>8 DEF StepSound, CycleSound
<1> QED
  BY <1>1, <1>5, <1>6, <1>7, AdvanceKeeps

(* The last wave of c's phase ends. *)
LEMMA WorkEndsKeeps ==
  ASSUME LoopInv, TypeOK, TypeOK', Placed, NEW c \in Runners,
         NEW o \in {"completed", "failed"}, WorkEnds(c, o)
  PROVE  LoopInv'
<1> DEFINE p == PhaseOf(c)
<1>1. PICK pc \in {"checkpoint", "abort"} :
        Goto(c, pc) /\ (pc = "checkpoint" <=> o = "completed")
  BY DEF WorkEnds
<1>2. /\ Active(c) /\ runner[c].pc = "work" /\ c # Recovery
      /\ work' = [work EXCEPT ![p] = o]
      /\ UNCHANGED <<loop, executing, doubtful, overruled, crowded, crashes>>
  BY DEF WorkEnds, bookkeeping, At, Active, Working, LoopInv, GuardHeld,
         RecoveryPcs, LoopPcs, RowPcs
<1>3. /\ p \in Phases /\ loop[p].reviews \in Nat
      /\ work'[p] = o /\ \A q \in Phases \ {p} : work'[q] = work[q] /\ status'[q] = status[q]
  BY <1>2, Sound DEF WorkEnds, SetStatus, TypeOK
<1>4. /\ Advance(c) /\ PhaseOf(c)' = p /\ runner'[c].pc = pc
      /\ runner'[c].kind = runner[c].kind
  BY <1>1, <1>2, <1>3, GoesOn DEF Pcs
<1>5. RunnerBegun(c)' /\ PhaseBegun(PhaseOf(c))'
  BY <1>2, <1>4, Sound DEF RunnerBegun, PhaseBegun, Begun, At, LoopPcs, RowPcs
<1>6. ASSUME p \notin crowded PROVE StepSound(c)'
  <2>1. PhaseSound(p) /\ loop[p].newest = "none"
    BY <1>2, <1>6, Sound DEF CycleSound, Worked
  <2>2. CycleSound(c)'
    BY <1>1, <1>2, <1>3, <1>4, <2>1
    DEF CycleSound, Counted, Worked, Told, Judged, At, InRow, LoopPcs, RowPcs
  <2>3. WorkSound(p)' /\ VerdictSound(p)'
    <3>1. loop'[p].newest = "none" /\ work'[p] # "running"
      BY <1>2, <1>3, <2>1
    <3> QED
      BY <1>4, <3>1 DEF WorkSound, VerdictSound
  <2> QED
    BY <1>2, <1>4, <2>1, <2>2, <2>3 DEF StepSound, PhaseSound
<1> QED
  BY <1>2, <1>4, <1>5, <1>6, AdvanceKeeps

(* What a row that has ended leaves behind. *)
LEMMA EndedFields ==
  ASSUME NEW l \in Loops, NEW c \in Runners, NEW result
  PROVE  LET isReview == runner[c].kind # "fix"
             l2 == Ended(l, c, result)
         IN
         /\ l2.left = l.left /\ l2.reviews = l.reviews /\ l2.first = l.first
         /\ l2.failed = (l.failed \/ result = "failed")
         /\ l2.fixes = IF ~ isReview /\ result \in Verdicts THEN l.fixes + 1 ELSE l.fixes
         /\ l2.newest = IF ~ (isReview /\ runner[c].newest) THEN l.newest
                        ELSE IF result \in Verdicts THEN result ELSE "void"
         /\ l2.last = IF /\ isReview /\ result \in Verdicts
                         /\ runner[c].newest \/ l.newest \notin Verdicts
                      THEN result ELSE l.last
BY DEF Ended, Loops

(* The row that c awaits ends: by itself, with the judgement of            *)
(* on_complete, or stopped, without.                                       *)
RowOver(c, result) ==
  /\ At(c, "wait")
  /\ loop' = [loop EXCEPT ![PhaseOf(c)] = Ended(@, c, result)]
  /\ \/ /\ result \in {"failed"} \cup Verdicts /\ Goto(c, result)
        /\ result = "critical" => runner[c].kind # "fix"
        /\ SetStatus(PhaseOf(c), Judgement(PhaseOf(c), work[PhaseOf(c)],
                                           loop'[PhaseOf(c)],
                                           \E d \in Runners \ {c} : Awaits(d, PhaseOf(c))))
     \/ /\ result = "stopped" /\ status' = status
        /\ \E seen \in {"failed", "cancelled"} : Goto(c, seen)
  /\ UNCHANGED <<work, executing, doubtful, overruled, crowded, crashes>>

LEMMA RowOverKeeps ==
  ASSUME LoopInv, TypeOK, TypeOK', Placed, NEW c \in Runners,
         NEW result \in {"failed", "stopped"} \cup Verdicts, RowOver(c, result)
  PROVE  LoopInv'
<1> DEFINE p == PhaseOf(c)
           isReview == runner[c].kind # "fix"
<1>0. PICK pc \in {"failed", "cancelled", "passed", "critical"} :
        /\ Goto(c, pc)
        /\ IF result = "stopped" THEN pc \in {"failed", "cancelled"} ELSE pc = result
  BY DEF RowOver, Verdicts
<1>1. /\ Active(c) /\ runner[c].pc = "wait" /\ Goto(c, pc)
      /\ UNCHANGED <<work, executing, doubtful, overruled, crowded, crashes>>
  BY <1>0 DEF RowOver, At, Active, Working
<1>2. p \in Phases /\ loop[p] \in Loops /\ loop \in [Phases -> Loops]
      /\ status \in [Phases -> {"not_started", "in_progress", "complete", "failed"}]
  BY <1>1, Sound DEF TypeOK
<1>3. loop'[p] = Ended(loop[p], c, result) /\ \A q \in Phases \ {p} : loop'[q] = loop[q]
  BY <1>2 DEF RowOver
<1>4. /\ loop'[p].left = loop[p].left /\ loop'[p].reviews = loop[p].reviews
      /\ loop'[p].first = loop[p].first
      /\ loop'[p].failed = (loop[p].failed \/ result = "failed")
      /\ loop'[p].fixes = IF ~ isReview /\ result \in Verdicts THEN loop[p].fixes + 1
                          ELSE loop[p].fixes
      /\ loop'[p].newest = IF ~ (isReview /\ runner[c].newest) THEN loop[p].newest
                           ELSE IF result \in Verdicts THEN result ELSE "void"
      /\ loop'[p].last = IF /\ isReview /\ result \in Verdicts
                            /\ runner[c].newest \/ loop[p].newest \notin Verdicts
                         THEN result ELSE loop[p].last
  BY <1>2, <1>3, EndedFields
<1>5. /\ loop[p].reviews \in Nat /\ loop[p].fixes \in Nat /\ MaxAttempts \in Nat
      /\ runner[c].attempt \in Nat /\ runner[c].newest \in BOOLEAN
      /\ loop[p].failed \in BOOLEAN /\ loop[p].left \in BOOLEAN
  BY <1>2, LoopFields, RunnerFields
<1>6. \A q \in Phases \ {p} : status'[q] = status[q]
  BY <1>2 DEF RowOver, SetStatus
<1>7. /\ pc \in {"failed", "cancelled", "passed", "critical"}
      /\ pc \in Verdicts <=> result \in Verdicts
      /\ pc \in Verdicts => pc = result
      /\ pc # "failed" => result # "failed"
  BY <1>0 DEF Verdicts
<1>8. /\ Advance(c) /\ PhaseOf(c)' = p /\ runner'[c].pc = pc
      /\ runner'[c].kind = runner[c].kind /\ runner'[c].attempt = runner[c].attempt
  <2>1. pc \in Pcs \ {"idle", "next", "query", "pick", "asked"} /\ pc \in RecoveryPcs
    BY <1>7 DEF Pcs, RecoveryPcs, LoopPcs, RowPcs
  <2>2. loop'[p].reviews >= loop[p].reviews
    BY <1>4, <1>5
  <2> QED
    BY <1>1, <1>3, <1>6, <2>1, <2>2, GoesOn
<1>9. RunnerBegun(c) /\ PhaseBegun(p)
  BY <1>1, Sound
<1>10. p \in Reviewed /\ loop[p].reviews >= 1 /\ loop[p].newest # "none"
       /\ runner[c].kind \in {"review", "fix", "rereview"}
  BY <1>1, <1>9, RunnerFields DEF RunnerBegun, PhaseBegun, Begun, LoopPcs, RowPcs, Kinds
<1>11. RunnerBegun(c)'
  BY <1>4, <1>7, <1>8, <1>10 DEF RunnerBegun, Begun, At
<1>12. PhaseBegun(PhaseOf(c))'
  <2>1. loop'[p].newest # "none"
    BY <1>4, <1>10 DEF Verdicts
  <2>2. loop'[p].newest \in Verdicts => loop'[p].last = loop'[p].newest
    BY <1>4, <1>9 DEF PhaseBegun, Verdicts
  <2> QED
    BY <1>4, <1>8, <1>10, <2>1, <2>2 DEF PhaseBegun, Begun
<1>13. ASSUME p \notin crowded PROVE StepSound(c)'
  <2>1. /\ Counted(c) /\ Worked(c) /\ Told(c) /\ Judged(c) /\ PhaseSound(p)
        /\ \A d \in Runners : Holds(d, p) => d = c
    BY <1>1, <1>13, Sound DEF CycleSound
  <2>2. work'[p] = "completed" /\ work[p] = "completed"
    BY <1>1, <2>1 DEF Worked, LoopPcs, RowPcs
  <2>3. isReview => runner[c].newest = TRUE
    BY <1>1, <1>10, <2>1 DEF Told, At, InRow, RowPcs
  <2>4. Earlier(p)' = Earlier(p) /\ Earlier(p) \in Nat
        /\ Earlier(p) + MaxAttempts = MaxAttempts * loop[p].reviews
    BY <1>2, <1>4, <1>8, <1>10, EarlierFixes DEF Earlier
  <2>5. ~ isReview => /\ runner[c].attempt \in 1 .. MaxAttempts
                      /\ loop'[p].fixes <= Earlier(p) + runner[c].attempt
    BY <1>1, <1>4, <1>5, <1>10, <2>1, <2>4 DEF Counted, At, InRow, RowPcs
  <2>6. Counted(c)'
    <3>1. isReview => loop'[p].fixes = loop[p].fixes
      BY <1>4
    <3> QED
      BY <1>1, <1>4, <1>7, <1>8, <2>1, <2>4, <2>5, <3>1 DEF Counted, At, InRow, RowPcs
  <2>7. Worked(c)' /\ WorkSound(p)'
    BY <1>7, <1>8, <2>2 DEF Worked, WorkSound, At
  <2>8. Told(c)'
    BY <1>1, <1>4, <1>7, <1>8, <2>1, <2>3
    DEF Told, At, InRow, LoopPcs, RowPcs, Verdicts
  <2>9. \/ result # "stopped" /\ loop'[p].left = FALSE
           /\ status'[p] = IF loop'[p].failed THEN "failed" ELSE "complete"
        \/ status'[p] = status[p] /\ (result = "stopped" \/ loop'[p].left = TRUE)
    <3>1. CASE result = "stopped"
      BY <3>1 DEF RowOver, Verdicts
    <3>2. CASE result # "stopped"
      <4>1. ~ \E d \in Runners \ {c} : Awaits(d, p)
        BY <2>1 DEF Awaits, At, Holds, Active, Working
      <4>2. status'[p] = Judgement(p, "completed", loop'[p], FALSE)
        BY <1>2, <2>2, <3>2, <4>1 DEF RowOver, SetStatus
      <4> QED
        BY <1>4, <1>5, <3>2, <4>2 DEF Judgement
    <3> QED
      BY <3>1, <3>2
  <2>10. Judged(c)'
    <3>1. status'[p] = "failed" => loop'[p].failed = TRUE \/ loop'[p].left = FALSE
      BY <1>1, <1>4, <1>5, <2>1, <2>9 DEF Judged, LoopPcs, RowPcs
    <3>2. pc = "passed" /\ status'[p] = "failed" => loop'[p].failed = TRUE
      BY <1>1, <1>4, <1>5, <1>7, <2>1, <2>9 DEF Judged, LoopPcs, RowPcs, Verdicts
    <3>3. runner[c].kind = "review" =>
            p \in overruled \/ status'[p] \in {"complete", "failed"}
      BY <1>1, <2>1, <2>9 DEF Judged, InRow, RowPcs
    <3> QED
      BY <1>1, <1>7, <1>8, <3>1, <3>2, <3>3 DEF Judged, At, InRow, RowPcs
  <2>11. VerdictSound(p)'
    <3>1. ASSUME loop'[p].newest = "passed", status'[p] = "failed"
          PROVE  isReview /\ pc = "passed"
      BY <1>1, <1>4, <1>7, <2>1, <2>3, <3>1 DEF Told, At, InRow, RowPcs, Verdicts
    <3>2. ASSUME loop'[p].newest = "passed", status'[p] = "failed"
          PROVE  loop'[p].failed = TRUE
      BY <1>8, <2>10, <3>1, <3>2 DEF Judged, At
    <3>3. ASSUME loop'[p].newest = "passed", status'[p] = "failed"
          PROVE  loop'[p].first = TRUE \/ (At(c, "passed")' /\ InRow(c, {"rereview"})')
      BY <1>1, <1>4, <1>8, <1>10, <2>1, <3>1, <3>3 DEF Told, At, InRow, RowPcs
    <3>4. Holds(c, p)'
      BY <1>7, <1>8 DEF Holds, Active, Working, At
    <3> QED
      BY <1>8, <3>2, <3>3, <3>4 DEF VerdictSound
  <2>12. loop'[p].fixes <= MaxAttempts * loop'[p].reviews
    <3>1. CASE isReview
      BY <1>4, <2>1, <3>1 DEF PhaseSound
    <3>2. CASE ~ isReview
      BY <1>4, <1>5, <2>4, <2>5, <3>2
    <3> QED
      BY <3>1, <3>2
  <2> QED
    BY <1>8, <2>6, <2>7, <2>8, <2>10, <2>11, <2>12 DEF StepSound, CycleSound
<1> QED
  BY <1>1, <1>8, <1>11, <1>12, <1>13, AdvanceKeeps

LEMMA RowEndsKeeps ==
  ASSUME LoopInv, TypeOK, TypeOK', Placed, NEW c \in Runners,
         NEW r \in {"failed"} \cup Verdicts, RowEnds(c, r)
  PROVE  LoopInv'
<1>1. RowOver(c, r)
  BY DEF RowEnds, RowOver, bookkeeping
<1> QED
  BY <1>1, RowOverKeeps

LEMMA StopRowKeeps ==
  ASSUME LoopInv, TypeOK, TypeOK', Placed, NEW c \in Runners, StopRow(c)
  PROVE  LoopInv'
<1>1. RowOver(c, "stopped")
  BY DEF StopRow, RowOver
<1> QED
  BY <1>1, RowOverKeeps

-----------------------------------------------------------------------------
(* The steps by which a coroutine comes to a phase, or leaves it, and      *)
(* those of the two that stand between two phases.                         *)
Comes(c, new) ==
  /\ runner' = [runner EXCEPT ![c] = new]
  /\ Active(c) => At(c, "finish")
  /\ new.pc \in {"idle", "next", "query", "pick", "load"}
  /\ UNCHANGED <<status, work, loop, overruled, crashes>>
  /\ crowded \subseteq crowded'

LEMMA Others ==
  ASSUME TypeOK, NEW c \in Runners, NEW new, Comes(c, new)
  PROVE  /\ runner'[c] = new /\ \A d \in Runners \ {c} : runner'[d] = runner[d]
         /\ \A p \in Phases : Minded(p) => Minded(p)'
         /\ \A p \in Phases : On(p) \ {c} # {} => On(p)' # {}
         /\ \A d \in Runners \ {c}, p \in Phases : Holds(d, p)' <=> Holds(d, p)
         /\ \A p \in Phases : Holds(c, p)' => new.pc = "load" /\ new.phase = p
<1>1. runner'[c] = new /\ \A d \in Runners \ {c} : runner'[d] = runner[d]
  BY DEF TypeOK, Comes
<1>2. \A d \in Runners \ {c}, p \in Phases : Holds(d, p)' <=> Holds(d, p)
  BY <1>1 DEF Holds, Active, Working, At, PhaseOf
<1>3. ASSUME NEW p \in Phases, Minded(p) PROVE Minded(p)'
  <2>1. PICK d \in Runners : Holds(d, p) /\ ~ At(d, "finish")
    BY <1>3 DEF Minded
  <2>2. d # c
    BY <2>1 DEF Holds, Comes
  <2> QED
    BY <1>1, <1>2, <2>1, <2>2 DEF Minded, At
<1>4. ASSUME NEW p \in Phases, On(p) \ {c} # {} PROVE On(p)' # {}
  BY <1>1, <1>4 DEF On, Working, PhaseOf
<1>5. \A p \in Phases : Holds(c, p)' => new.pc = "load" /\ new.phase = p
  BY <1>1 DEF Holds, Active, Working, At, PhaseOf, Comes
<1> QED
  BY <1>1, <1>2, <1>3, <1>4, <1>5

LEMMA ComesKeeps ==
  ASSUME LoopInv, TypeOK, TypeOK', Placed, Placed', NEW c \in Runners, NEW new,
         Comes(c, new), GuardHeld',
         \A p \in Phases \ crowded' : new.pc = "load" /\ new.phase = p =>
           \A d \in Runners \ {c} : ~ Holds(d, p),
         \A p \in Phases \ crowded' : LeftSound(p)',
         \A p \in Phases \ crowded' :
           /\ status[p] = "complete" /\ loop[p].newest = "critical"
           /\ p \in doubtful \/ At(Recovery, "query")
           => p \in doubtful' \/ At(Recovery, "query")'
  PROVE  LoopInv'
<1>1. /\ runner'[c] = new /\ \A d \in Runners \ {c} : runner'[d] = runner[d]
      /\ \A p \in Phases : Minded(p) => Minded(p)'
      /\ \A d \in Runners \ {c}, p \in Phases : Holds(d, p)' <=> Holds(d, p)
      /\ \A p \in Phases : Holds(c, p)' => new.pc = "load" /\ new.phase = p
  BY Others
<1>2. RowsBegun'
  <2>1. ASSUME NEW d \in Runners \ {c} PROVE RunnerBegun(d)'
    <3>1. RunnerBegun(d)
      BY DEF LoopInv, RowsBegun
    <3> QED
      BY <1>1, <3>1 DEF Comes, RunnerBegun, Begun, At, PhaseOf
  <2>2. RunnerBegun(c)'
    BY <1>1 DEF Comes, RunnerBegun, At, LoopPcs, RowPcs
  <2>3. ASSUME NEW p \in Phases PROVE PhaseBegun(p)'
    BY DEF Comes, LoopInv, RowsBegun, PhaseBegun, Begun
  <2> QED
    BY <2>1, <2>2, <2>3 DEF RowsBegun
<1>3. Alone'
  <2> SUFFICES ASSUME NEW p \in Phases \ crowded', NEW d \in Runners, NEW e \in Runners,
                      Holds(d, p)', Holds(e, p)'
               PROVE  d = e
    BY DEF Alone
  <2>1. p \in Phases \ crowded
    BY DEF Comes
  <2>2. CASE Holds(c, p)'
    BY <1>1, <2>2
  <2>3. CASE ~ Holds(c, p)'
    BY <1>1, <2>1, <2>3 DEF LoopInv, Alone
  <2> QED
    BY <2>2, <2>3
<1>4. ASSUME NEW d \in Runners, Active(d)', PhaseOf(d)' \notin crowded'
      PROVE  CycleSound(d)'
  <2>1. CASE d = c
    <3>1. runner'[c].pc = "load"
      BY <1>1, <1>4, <2>1 DEF Comes, Active, Working, At
    <3> QED
      BY <2>1, <3>1
      DEF CycleSound, Counted, Worked, Told, Judged, At, InRow, LoopPcs, RowPcs
  <2>2. CASE d # c
    <3>1. Active(d) /\ PhaseOf(d) \notin crowded
      BY <1>1, <1>4, <2>2 DEF Comes, Active, Working, At, PhaseOf
    <3>2. CycleSound(d)
      BY <3>1 DEF LoopInv
    <3>3. runner'[d] = runner[d] /\ UNCHANGED <<status, work, loop, overruled>>
      BY <1>1, <2>2 DEF Comes
    <3>4. Counted(d)' /\ Worked(d)'
      BY <3>2, <3>3 DEF CycleSound, Counted, Worked, Earlier, At, InRow, PhaseOf
    <3>5. Told(d)' /\ Judged(d)'
      BY <3>2, <3>3 DEF CycleSound, Told, Judged, At, InRow, PhaseOf
    <3> QED
      BY <3>4, <3>5 DEF CycleSound
  <2> QED
    BY <2>1, <2>2
<1>5. ASSUME NEW p \in Phases \ crowded' PROVE PhaseSound(p)'
  <2>1. p \in Phases \ crowded /\ PhaseSound(p)
    BY DEF LoopInv, Comes
  <2>2. UNCHANGED <<status, work, loop, overruled, crashes>>
    BY DEF Comes
  <2>3. WorkSound(p)'
    <3>1. ASSUME NEW d \in Runners, At(d, "work"), PhaseOf(d) = p
          PROVE  At(d, "work")' /\ PhaseOf(d)' = p
      <4>1. d # c
        BY <3>1 DEF Comes, At, Active, Working
      <4> QED
        BY <1>1, <3>1, <4>1 DEF At, PhaseOf
    <3> QED
      BY <2>1, <2>2, <3>1 DEF PhaseSound, WorkSound
  <2>4. CriticalSound(p)'
    BY <1>1, <2>1, <2>2 DEF PhaseSound, CriticalSound
  <2>5. VerdictSound(p)'
    <3>1. ASSUME NEW d \in Runners, Holds(d, p), At(d, "passed"), InRow(d, {"rereview"})
          PROVE  Holds(d, p)' /\ At(d, "passed")' /\ InRow(d, {"rereview"})'
      <4>1. d # c
        BY <3>1 DEF Comes, At, Holds
      <4> QED
        BY <1>1, <3>1, <4>1 DEF At, InRow
    <3> QED
      BY <2>1, <2>2, <3>1 DEF PhaseSound, VerdictSound
  <2> QED
    BY <2>1, <2>2, <2>3, <2>4, <2>5 DEF PhaseSound
<1> QED
  BY <1>2, <1>3, <1>4, <1>5 DEF LoopInv

(* run_project and the recovery between two phases: nobody's claim to one  *)
(* changes.                                                                *)
LEMMA BetweenKeeps ==
  ASSUME LoopInv, TypeOK, TypeOK', Placed, Placed',
         NEW c \in {Project, Recovery}, NEW new, Comes(c, new), ~ Working(c),
         new.pc \in {"idle", "next", "pick"}, c = Recovery => new.pc # "next",
         c = Project => new.pc = "idle" \/ new.phase = 0,
         UNCHANGED <<executing, crowded>>,
         \A p \in Phases \ crowded' :
           /\ status[p] = "complete" /\ loop[p].newest = "critical"
           /\ p \in doubtful \/ At(Recovery, "query")
           => p \in doubtful' \/ At(Recovery, "query")'
  PROVE  LoopInv'
<1>a. c \in Runners /\ Recovery \in Runners /\ Project \in Runners /\ Project # Recovery
      /\ 0 \notin Phases
  BY PhaseReviewAssumption DEF Runners, Phases
<1>1. /\ runner'[c] = new /\ \A d \in Runners \ {c} : runner'[d] = runner[d]
      /\ \A p \in Phases : Minded(p) => Minded(p)'
      /\ \A p \in Phases : On(p) \ {c} # {} => On(p)' # {}
      /\ \A d \in Runners \ {c}, p \in Phases : Holds(d, p)' <=> Holds(d, p)
  BY <1>a, Others
<1>2. GuardHeld'
  <2>1. runner'[Recovery].pc \in RecoveryPcs
    BY <1>a, <1>1 DEF LoopInv, GuardHeld, RecoveryPcs
  <2>2. \A p \in executing : \E d \in Guarded : Holds(d, p) /\ d # c /\ p \in Phases
    BY DEF LoopInv, GuardHeld, Holds, Active, TypeOK
  <2> QED
    BY <1>1, <2>1, <2>2 DEF GuardHeld, Guarded
<1>3. ASSUME NEW p \in Phases \ crowded' PROVE LeftSound(p)'
  <2>1. At(Project, "next")' /\ PhaseOf(Project)' = p
        => c # Project /\ At(Project, "next") /\ PhaseOf(Project) = p
    BY <1>a, <1>1 DEF At, PhaseOf
  <2>2. LeftSound(p)
    BY DEF LoopInv, PhaseSound
  <2>3. On(p) \ {c} = On(p)
    BY DEF On
  <2> QED
    BY <1>1, <2>1, <2>2, <2>3 DEF LeftSound, Comes
<1> QED
  BY <1>a, <1>2, <1>3, ComesKeeps

LEMMA ProjectBetween ==
  ASSUME LoopInv, TypeOK, TypeOK', Placed, Placed', RunProject \/ ProjectEnds
  PROVE  LoopInv'
<1> DEFINE between == [Idle EXCEPT !.pc = "next", !.phase = 0]
<1>a. Project \in Runners /\ Recovery \in Runners /\ Project # Recovery
  BY PhaseReviewAssumption DEF Runners
<1>b. between.pc = "next" /\ between.phase = 0
  BY IdleType DEF RunnerType
<1>1. PICK new \in {Idle, between} : runner' = [runner EXCEPT ![Project] = new]
  BY DEF RunProject, ProjectEnds
<1> HIDE DEF between
<1>2. /\ ~ Working(Project) /\ ~ Active(Project)
      /\ UNCHANGED <<status, work, loop, overruled, crashes, executing, crowded, doubtful>>
  BY DEF RunProject, ProjectEnds, At, Working, Active
<1>3. Comes(Project, new) /\ new.pc \in {"idle", "next"} /\ (new.pc = "idle" \/ new.phase = 0)
  BY <1>1, <1>2, <1>b, IdleType DEF Comes
<1>4. At(Recovery, "query")' <=> At(Recovery, "query")
  BY <1>a, <1>1 DEF At, TypeOK
<1> QED
  BY <1>a, <1>2, <1>3, <1>4, BetweenKeeps

LEMMA RecoveryBetween ==
  ASSUME LoopInv, TypeOK, TypeOK', Placed, Placed', Query \/ RecoveryEnds
  PROVE  LoopInv'
<1>a. Recovery \in Runners /\ Project # Recovery
  BY PhaseReviewAssumption DEF Runners
<1>1. PICK pc \in {"pick", "idle"} : Goto(Recovery, pc)
  BY DEF Query, RecoveryEnds
<1> DEFINE new == [runner[Recovery] EXCEPT !.pc = pc]
<1>2. new.pc = pc
  BY <1>a, RunnerFields DEF RunnerType
<1>3. runner' = [runner EXCEPT ![Recovery] = new]
  BY <1>1 DEF Goto
<1> HIDE DEF new
<1>4. /\ ~ Working(Recovery) /\ ~ Active(Recovery)
      /\ UNCHANGED <<status, work, loop, overruled, crashes, executing, crowded>>
  BY DEF Query, RecoveryEnds, bookkeeping, At, Working, Active
<1>5. Comes(Recovery, new)
  BY <1>2, <1>3, <1>4 DEF Comes
<1>6. ASSUME NEW p \in Phases, status[p] = "complete", loop[p].newest = "critical",
             p \in doubtful \/ At(Recovery, "query")
      PROVE  p \in doubtful'
  <2>1. CASE Query
    <3>1. loop[p].last = "critical"
      BY <1>6 DEF LoopInv, RowsBegun, PhaseBegun, Verdicts
    <3> QED
      BY <1>6, <2>1, <3>1 DEF Query
  <2>2. CASE RecoveryEnds
    BY <1>6, <2>2 DEF RecoveryEnds, At
  <2> QED
    BY <2>1, <2>2
<1> QED
  BY <1>a, <1>2, <1>4, <1>5, <1>6, BetweenKeeps

(* c, which is not past the guard, asks for it. *)
LEMMA EnterLoop ==
  ASSUME LoopInv, TypeOK, TypeOK', Placed, Placed', NEW c \in Runners \ {Recovery},
         ~ Active(c), NEW p \in Phases, Working(c) => PhaseOf(c) = p, Enter(c, p),
         UNCHANGED <<status, work, loop, overruled, crashes, doubtful>>
  PROVE  LoopInv'
<1>a. Recovery \in Runners /\ Project \in Runners
  BY DEF Runners
<1> DEFINE left == IF c = Project THEN [Idle EXCEPT !.pc = "next", !.phase = p] ELSE Idle
           entered == [Idle EXCEPT !.pc = "load", !.phase = p]
           new == IF p \in executing THEN left ELSE entered
<1>1. /\ runner' = [runner EXCEPT ![c] = new]
      /\ p \in executing => UNCHANGED <<executing, crowded>>
      /\ p \notin executing => executing' = executing \cup {p} /\ crowded' = Crowd(p)
  BY DEF Enter
<1>2. /\ p \in executing => /\ new.pc \in {"idle", "next"}
                            /\ new.pc = "next" => c = Project /\ new.phase = p
      /\ p \notin executing => new.pc = "load" /\ new.phase = p
  BY IdleType DEF RunnerType
<1> HIDE DEF new
<1>3. Comes(c, new)
  BY <1>1, <1>2 DEF Comes, Crowd
<1>4. /\ runner'[c] = new /\ \A d \in Runners \ {c} : runner'[d] = runner[d]
      /\ \A q \in Phases : Minded(q) => Minded(q)'
      /\ \A q \in Phases : On(q) \ {c} # {} => On(q)' # {}
      /\ \A d \in Runners \ {c}, q \in Phases : Holds(d, q)' <=> Holds(d, q)
  BY <1>3, Others
<1>5. GuardHeld'
  <2>1. runner'[Recovery].pc \in RecoveryPcs
    BY <1>a, <1>4 DEF LoopInv, GuardHeld
  <2>2. ASSUME NEW q \in executing' PROVE \E d \in Guarded : Holds(d, q)'
    <3>1. CASE q \in executing
      <4>1. PICK d \in Guarded : Holds(d, q)
        BY <3>1 DEF LoopInv, GuardHeld
      <4>2. d # c /\ q \in Phases
        BY <3>1, <4>1 DEF Holds, TypeOK
      <4> QED
        BY <1>4, <4>1, <4>2 DEF Guarded
    <3>2. CASE q \notin executing
      <4>1. q = p /\ new.pc = "load" /\ new.phase = p
        BY <1>1, <1>2, <3>2
      <4>2. Holds(c, q)'
        BY <1>4, <4>1 DEF Holds, Active, Working, At, PhaseOf
      <4> QED
        BY <4>2 DEF Guarded
    <3> QED
      BY <3>1, <3>2
  <2> QED
    BY <2>1, <2>2 DEF GuardHeld
<1>6. ASSUME NEW q \in Phases \ crowded', new.pc = "load", new.phase = q,
             NEW d \in Runners \ {c}
      PROVE  ~ Holds(d, q)
  <2>1. p = q /\ p \notin executing
    BY <1>2, <1>6
  <2>2. \A e \in On(p) : At(e, "asked")
    BY <1>1, <1>6, <2>1 DEF Crowd
  <2> QED
    BY <2>1, <2>2 DEF Holds, Active, On
(* Of a phase that is executed, somebody is at work. *)
<1>7. ASSUME p \in executing, p \notin crowded
      PROVE  /\ On(p) \ {c} # {}
             /\ status[p] = "complete" /\ loop[p].newest = "critical" => Minded(p)
  <2>1. PICK d \in Guarded : Holds(d, p)
    BY <1>7 DEF LoopInv, GuardHeld
  <2>2. d \in Runners /\ d # c /\ Active(d) /\ PhaseOf(d) = p
    BY <2>1 DEF Guarded, Holds
  <2>3. Judged(d)
    BY <1>7, <2>2 DEF LoopInv, CycleSound
  <2> QED
    BY <2>1, <2>2, <2>3 DEF On, Active, Minded, Judged
<1>8. ASSUME NEW q \in Phases \ crowded' PROVE LeftSound(q)'
  <2>1. q \notin crowded /\ LeftSound(q)
    BY <1>3 DEF Comes, LoopInv, PhaseSound
  <2> SUFFICES ASSUME At(Project, "next")', PhaseOf(Project)' = q
               PROVE  /\ status'[q] = "complete" /\ loop'[q].newest = "critical" => Minded(q)'
                      /\ q \in overruled' \/ status'[q] \in {"complete", "failed"}
                         \/ On(q)' # {}
    BY DEF LeftSound
  <2>2. CASE c = Project
    <3>1. new.pc = "next" /\ new.phase = q
      BY <1>4, <2>2 DEF At, PhaseOf
    <3>2. p \in executing /\ p = q
      BY <1>2, <3>1
    <3> QED
      BY <1>4, <1>7, <2>1, <3>2 DEF Comes
  <2>3. CASE c # Project
    <3>1. At(Project, "next") /\ PhaseOf(Project) = q
      BY <1>a, <1>4, <2>3 DEF At, PhaseOf
    <3>2. On(q) # {} => On(q)' # {}
      <4>1. CASE On(q) \ {c} # {}
        BY <1>4, <4>1
      <4>2. CASE c \in On(q) /\ p \in executing
        BY <1>4, <1>7, <2>1, <4>2 DEF On
      <4>3. CASE c \in On(q) /\ p \notin executing
        <5>1. c \in On(q)'
          BY <1>2, <1>4, <4>3 DEF On, Working, PhaseOf
        <5> QED
          BY <5>1
      <4> QED
        BY <4>1, <4>2, <4>3
    <3> QED
      BY <1>4, <2>1, <3>1, <3>2 DEF LeftSound
  <2> QED
    BY <2>2, <2>3
<1>9. At(Recovery, "query")' <=> At(Recovery, "query")
  BY <1>a, <1>4 DEF At
<1> QED
  BY <1>3, <1>5, <1>6, <1>8, <1>9, ComesKeeps

LEMMA EntersKeeps ==
  ASSUME LoopInv, TypeOK, TypeOK', Placed, Placed',
         \/ NextPhase \/ \E c \in Runners : Begin(c)
         \/ \E h \in Hands, p \in ByHand : RunPhase(h, p)
  PROVE  LoopInv'
<1>1. CASE NextPhase
  <2>1. PICK p \in Phases : Enter(Project, p)
    BY <1>1 DEF NextPhase, TypeOK
  <2>2. Project \in Runners \ {Recovery} /\ ~ Active(Project) /\ ~ Working(Project)
    BY <1>1, PhaseReviewAssumption DEF NextPhase, Runners, At, Active, Working
  <2>3. UNCHANGED <<status, work, loop, overruled, crashes, doubtful>>
    BY <1>1 DEF NextPhase
  <2> QED
    BY <2>1, <2>2, <2>3, EnterLoop
<1>2. ASSUME NEW c \in Runners, Begin(c) PROVE LoopInv'
  <2>1. c # Recovery
    BY <1>2 DEF Begin, At, LoopInv, GuardHeld, RecoveryPcs, LoopPcs, RowPcs
  <2>2. ~ Active(c) /\ PhaseOf(c) \in Phases /\ Enter(c, PhaseOf(c))
    BY <1>2 DEF Begin, Active, At, Working, Placed
  <2>3. UNCHANGED <<status, work, loop, overruled, crashes, doubtful>>
    BY <1>2 DEF Begin
  <2> QED
    BY <2>1, <2>2, <2>3, EnterLoop
<1>3. ASSUME NEW h \in Hands, NEW p \in ByHand, RunPhase(h, p) PROVE LoopInv'
  <2>1. h \in Runners \ {Recovery} /\ p \in Phases
    BY PhaseReviewAssumption DEF Runners
  <2>2. ~ Active(h) /\ ~ Working(h) /\ Enter(h, p)
    BY <1>3 DEF RunPhase, At, Active, Working
  <2>3. UNCHANGED <<status, work, loop, overruled, crashes, doubtful>>
    BY <1>3 DEF RunPhase
  <2> QED
    BY <2>1, <2>2, <2>3, EnterLoop
<1> QED
  BY <1>1, <1>2, <1>3

(* c returns; what it leaves is judged. *)
LEMMA FinishLoop ==
  ASSUME LoopInv, TypeOK, TypeOK', Placed, Placed', NEW c \in Runners, Finish(c)
  PROVE  LoopInv'
<1>a. Recovery \in Runners /\ Project \in Runners /\ Project # Recovery
  BY PhaseReviewAssumption DEF Runners
<1> DEFINE p == PhaseOf(c)
           new == CASE c = Project  -> [Idle EXCEPT !.pc = "next", !.phase = PhaseOf(c)]
                    [] c = Recovery -> [Idle EXCEPT !.pc = "pick"]
                    [] OTHER        -> Idle
<1>1. /\ runner' = [runner EXCEPT ![c] = new]
      /\ executing' = IF c = Recovery THEN executing ELSE executing \ {p}
      /\ runner[c].pc = "finish" /\ Active(c)
      /\ UNCHANGED <<status, work, loop, overruled, crashes, doubtful, crowded>>
  BY DEF Finish, bookkeeping, At, Active, Working
<1>2. /\ c = Project => new.pc = "next" /\ new.phase = p
      /\ c = Recovery => new.pc = "pick"
      /\ c \notin {Project, Recovery} => new.pc = "idle"
  BY <1>a, IdleType DEF RunnerType
<1> HIDE DEF new
<1>3. Comes(c, new)
  BY <1>1, <1>2 DEF Comes, At
<1>4. /\ runner'[c] = new /\ \A d \in Runners \ {c} : runner'[d] = runner[d]
      /\ \A q \in Phases : Minded(q) => Minded(q)'
      /\ \A q \in Phases : On(q) \ {c} # {} => On(q)' # {}
      /\ \A d \in Runners \ {c}, q \in Phases : Holds(d, q)' <=> Holds(d, q)
  BY <1>3, Others
<1>5. GuardHeld'
  <2>1. runner'[Recovery].pc \in RecoveryPcs
    BY <1>a, <1>2, <1>4 DEF LoopInv, GuardHeld, RecoveryPcs
  <2>2. ASSUME NEW q \in executing' PROVE \E d \in Guarded : Holds(d, q)'
    <3>1. q \in executing /\ (c # Recovery => q # p) /\ q \in Phases
      BY <1>1 DEF TypeOK
    <3>2. PICK d \in Guarded : Holds(d, q)
      BY <3>1 DEF LoopInv, GuardHeld
    <3>3. d \in Runners \ {c}
      BY <3>1, <3>2 DEF Holds, Guarded
    <3> QED
      BY <1>4, <3>1, <3>2, <3>3
  <2> QED
    BY <2>1, <2>2 DEF GuardHeld
<1>6. p \notin crowded => Judged(c)
  BY <1>1, Sound DEF CycleSound
<1>7. ASSUME NEW q \in Phases \ crowded' PROVE LeftSound(q)'
  <2>1. q \notin crowded /\ LeftSound(q)
    BY <1>1 DEF LoopInv, PhaseSound
  <2> SUFFICES ASSUME At(Project, "next")', PhaseOf(Project)' = q
               PROVE  /\ status'[q] = "complete" /\ loop'[q].newest = "critical" => Minded(q)'
                      /\ q \in overruled' \/ status'[q] \in {"complete", "failed"}
                         \/ On(q)' # {}
    BY DEF LeftSound
  <2>2. CASE q = p
    <3>1. p \in overruled \/ status[p] \in {"complete", "failed"}
      BY <1>1, <1>6, <2>1, <2>2 DEF Judged, At
    <3>2. ~ (status[p] = "complete" /\ loop[p].newest = "critical")
      BY <1>1, <1>6, <2>1, <2>2 DEF Judged, At
    <3> QED
      BY <1>1, <2>2, <3>1, <3>2
  <2>3. CASE q # p
    <3>1. At(Project, "next") /\ PhaseOf(Project) = q
      BY <1>a, <1>2, <1>4, <2>3 DEF At, PhaseOf
    <3>2. On(q) \ {c} = On(q)
      BY <2>3 DEF On
    <3> QED
      BY <1>1, <1>4, <2>1, <3>1, <3>2 DEF LeftSound
  <2> QED
    BY <2>2, <2>3
<1>8. At(Recovery, "query") => At(Recovery, "query")'
  BY <1>a, <1>1, <1>4 DEF At
<1> QED
  BY <1>1, <1>2, <1>3, <1>5, <1>7, <1>8, ComesKeeps

(* A resume puts the phase back to in_progress, whoever works on it, and   *)
(* is about to ask for the guard.                                          *)
LEMMA ResumeKeeps ==
  ASSUME LoopInv, TypeOK, TypeOK', Placed, NEW h \in Hands, NEW p0 \in ByHand,
         ResumePhase(h, p0)
  PROVE  LoopInv'
<1> DEFINE new == [Idle EXCEPT !.pc = "asked", !.phase = p0]
           failed == FALSE
           left == loop[p0].left \/ loop[p0].failed
           row == [loop[p0] EXCEPT !.failed = failed, !.left = left]
           again == IF p0 \notin checkpoint /\ work[p0] = "failed" THEN "pending"
                    ELSE work[p0]
<1>a. /\ h \in Runners \ {Project, Recovery} /\ Recovery \in Runners /\ Project \in Runners
      /\ p0 \in Phases
  BY PhaseReviewAssumption DEF Runners
<1>1. /\ runner' = [runner EXCEPT ![h] = new] /\ new.pc = "asked" /\ new.phase = p0
      /\ runner[h].pc = "idle"
  BY IdleType DEF ResumePhase, RunnerType, At
<1>2. /\ loop' = [loop EXCEPT ![p0] = row] /\ loop[p0] \in Loops
      /\ loop \in [Phases -> Loops]
  BY <1>a DEF ResumePhase, TypeOK
<1>3. /\ row.left = left /\ row.fixes = loop[p0].fixes /\ row.reviews = loop[p0].reviews
      /\ row.newest = loop[p0].newest /\ row.first = loop[p0].first
      /\ row.last = loop[p0].last
  BY <1>2 DEF Loops
<1>4. /\ work' = [work EXCEPT ![p0] = again]
      /\ status' = [status EXCEPT ![p0] = "in_progress"]
      /\ overruled' = IF On(p0) = {} THEN overruled ELSE overruled \cup {p0}
      /\ UNCHANGED <<executing, doubtful, crowded, crashes>>
  BY DEF ResumePhase, SetStatus
<1> HIDE DEF new, row, again
<1>5. /\ runner'[h] = new /\ \A d \in Runners \ {h} : runner'[d] = runner[d]
      /\ \A d \in Runners : /\ Active(d)' <=> Active(d)
                            /\ Active(d) => runner'[d] = runner[d]
                            /\ At(d, "work")' <=> At(d, "work")
  BY <1>a, <1>1 DEF TypeOK, Active, Working, At
<1>6. \A d \in Runners, q \in Phases : Holds(d, q)' <=> Holds(d, q)
  BY <1>5 DEF Holds, PhaseOf
<1>7. /\ \A q \in Phases : /\ loop'[q].reviews = loop[q].reviews
                           /\ loop'[q].fixes = loop[q].fixes
                           /\ loop'[q].newest = loop[q].newest
                           /\ loop'[q].first = loop[q].first
                           /\ loop'[q].last = loop[q].last
      /\ \A q \in Phases \ {p0} : /\ loop'[q] = loop[q] /\ status'[q] = status[q]
                                  /\ work'[q] = work[q]
      /\ status'[p0] = "in_progress" /\ work'[p0] = again
      /\ overruled \subseteq overruled'
  BY <1>2, <1>3, <1>4 DEF TypeOK
<1>8. GuardHeld'
  <2>1. runner'[Recovery].pc \in RecoveryPcs
    BY <1>a, <1>5 DEF LoopInv, GuardHeld
  <2>2. executing' = executing /\ executing \subseteq Phases
    BY <1>4 DEF TypeOK
  <2> QED
    BY <1>6, <2>1, <2>2 DEF LoopInv, GuardHeld, Guarded
<1>9. RowsBegun'
  <2>1. ASSUME NEW d \in Runners \ {h} PROVE RunnerBegun(d)'
    <3>1. RunnerBegun(d) /\ runner'[d] = runner[d]
      BY <1>5 DEF LoopInv, RowsBegun
    <3>2. runner[d].pc \in LoopPcs => PhaseOf(d) \in Phases
      BY DEF Placed, Working, LoopPcs, RowPcs
    <3> QED
      BY <1>7, <3>1, <3>2 DEF RunnerBegun, Begun, At, PhaseOf
  <2>2. RunnerBegun(h)'
    BY <1>1, <1>5 DEF RunnerBegun, At, LoopPcs, RowPcs
  <2>3. ASSUME NEW p \in Phases PROVE PhaseBegun(p)'
    BY <1>7 DEF LoopInv, RowsBegun, PhaseBegun, Begun
  <2> QED
    BY <2>1, <2>2, <2>3 DEF RowsBegun
<1>10. Alone'
  BY <1>4, <1>6 DEF LoopInv, Alone
<1>11. ASSUME NEW d \in Runners, Active(d)', PhaseOf(d)' \notin crowded'
       PROVE  CycleSound(d)'
  <2>1. /\ Active(d) /\ runner'[d] = runner[d] /\ PhaseOf(d)' = PhaseOf(d)
        /\ PhaseOf(d) \notin crowded /\ PhaseOf(d) \in Phases
    BY <1>4, <1>5, <1>11 DEF PhaseOf, Active, Placed
  <2>2. Counted(d) /\ Worked(d) /\ Told(d) /\ Judged(d)
    BY <2>1 DEF LoopInv, CycleSound
  <2>3. Counted(d)'
    BY <1>7, <2>1, <2>2 DEF Counted, Earlier, At, InRow
  <2>4. Worked(d)'
    BY <1>7, <2>1, <2>2 DEF Worked, At, again
  <2>5. Told(d)'
    BY <1>7, <2>1, <2>2 DEF Told, At, InRow
  <2>6. Judged(d)'
    <3>1. CASE PhaseOf(d) = p0
      <4>1. p0 \in overruled'
        BY <1>4, <2>1, <3>1 DEF On, Active
      <4> QED
        BY <1>7, <2>1, <3>1, <4>1 DEF Judged, At, InRow
    <3>2. CASE PhaseOf(d) # p0
      BY <1>7, <2>1, <2>2, <3>2 DEF Judged, At, InRow
    <3> QED
      BY <3>1, <3>2
  <2> QED
    BY <2>3, <2>4, <2>5, <2>6 DEF CycleSound
<1>12. ASSUME NEW p \in Phases \ crowded' PROVE PhaseSound(p)'
  <2>1. PhaseSound(p) /\ p \in Phases
    BY <1>4 DEF LoopInv
  <2>2. Minded(p) => Minded(p)'
    BY <1>5, <1>6 DEF Minded, At, Holds
  <2>3. WorkSound(p)'
    <3>1. ASSUME NEW d \in Runners, At(d, "work"), PhaseOf(d) = p
          PROVE  At(d, "work")' /\ PhaseOf(d)' = p
      BY <1>5, <3>1 DEF At, Active, Working, PhaseOf
    <3>2. work[p] = "running" <=> work'[p] = "running"
      BY <1>7 DEF again
    <3>3. work[p] = "completed" => work'[p] = "completed"
      BY <1>7 DEF again
    <3> QED
      BY <1>7, <2>1, <3>1, <3>2, <3>3 DEF PhaseSound, WorkSound
  <2>4. At(Recovery, "query") <=> At(Recovery, "query")'
    BY <1>a, <1>5 DEF At
  <2>5. CriticalSound(p)'
    BY <1>4, <1>7, <2>1, <2>2, <2>4 DEF PhaseSound, CriticalSound
  <2>6. VerdictSound(p)'
    <3>1. CASE p = p0
      BY <1>7, <3>1 DEF VerdictSound
    <3>2. CASE p # p0
      <4>1. ASSUME NEW d \in Runners, Holds(d, p), At(d, "passed"), InRow(d, {"rereview"})
            PROVE  Holds(d, p)' /\ At(d, "passed")' /\ InRow(d, {"rereview"})'
        BY <1>5, <1>6, <4>1 DEF At, InRow, Holds
      <4> QED
        BY <1>4, <1>7, <2>1, <3>2, <4>1 DEF PhaseSound, VerdictSound
    <3> QED
      BY <3>1, <3>2
  <2>7. LeftSound(p)'
    <3>1. At(Project, "next")' /\ PhaseOf(Project)' = p
          => At(Project, "next") /\ PhaseOf(Project) = p
      BY <1>a, <1>5 DEF At, PhaseOf
    <3>2. On(p) # {} => On(p)' # {}
      BY <1>1, <1>5 DEF On, Working, PhaseOf
    <3>3. CASE p = p0
      <4>1. h \in On(p)'
        BY <1>a, <1>1, <1>5, <3>3 DEF On, Working, PhaseOf
      <4> QED
        BY <1>7, <3>3, <4>1 DEF LeftSound
    <3>4. CASE p # p0
      BY <1>7, <2>1, <2>2, <3>1, <3>2, <3>4 DEF PhaseSound, LeftSound
    <3> QED
      BY <3>3, <3>4
  <2> QED
    BY <1>7, <2>1, <2>3, <2>5, <2>6, <2>7 DEF PhaseSound
<1> QED
  BY <1>8, <1>9, <1>10, <1>11, <1>12 DEF LoopInv

(* The recovery comes to p0: what was cut off is failed, and the cycle     *)
(* goes on if the last verdict was critical.                               *)
LEMMA PickKeeps ==
  ASSUME LoopInv, TypeOK, TypeOK', Placed, NEW p0 \in Phases, Pick(p0)
  PROVE  LoopInv'
<1> DEFINE attempt == loop[p0].fixes + 1
           new == [Idle EXCEPT !.pc = "fix", !.phase = p0, !.attempt = attempt]
           failed == loop[p0].failed \/ loop[p0].left
           row == [loop[p0] EXCEPT !.left = FALSE, !.failed = failed]
           critical == loop[p0].last = "critical"
<1>a. /\ Recovery \in Runners /\ Project \in Runners \ {Recovery}
      /\ runner[Recovery].pc = "pick" /\ ~ Active(Recovery)
  BY PhaseReviewAssumption DEF Runners, Pick, At, Active, Working
<1>1. /\ critical => runner' = [runner EXCEPT ![Recovery] = new] /\ crowded' = Crowd(p0)
      /\ ~ critical => UNCHANGED <<runner, crowded>>
      /\ doubtful' = doubtful \ {p0}
      /\ UNCHANGED <<status, work, executing, overruled, crashes>>
  BY DEF Pick
<1>2. /\ loop' = [loop EXCEPT ![p0] = row] /\ loop[p0] \in Loops
      /\ loop \in [Phases -> Loops]
  BY DEF Pick, TypeOK
<1>3. new.pc = "fix" /\ new.phase = p0 /\ new.attempt = attempt /\ new.kind = "none"
  BY IdleType DEF RunnerType, Idle
<1>b. failed \in BOOLEAN /\ (loop[p0].failed = TRUE => failed = TRUE)
  BY <1>2 DEF Loops
<1> HIDE DEF failed
<1>4. /\ row.left = FALSE /\ row.failed = failed
      /\ row.fixes = loop[p0].fixes /\ row.reviews = loop[p0].reviews
      /\ row.newest = loop[p0].newest /\ row.first = loop[p0].first
      /\ row.last = loop[p0].last
  BY <1>2 DEF Loops
<1> HIDE DEF new, row
<1>5. /\ critical => runner'[Recovery] = new
      /\ ~ critical => runner'[Recovery] = runner[Recovery]
      /\ \A d \in Runners \ {Recovery} : runner'[d] = runner[d]
  BY <1>a, <1>1 DEF TypeOK
<1>6. \A q \in Phases : /\ loop'[q].reviews = loop[q].reviews
                        /\ loop'[q].fixes = loop[q].fixes
                        /\ loop'[q].newest = loop[q].newest
                        /\ loop'[q].first = loop[q].first
                        /\ loop'[q].last = loop[q].last
                        /\ loop[q].failed = TRUE => loop'[q].failed = TRUE
                        /\ loop[q].left = FALSE => loop'[q].left = FALSE
  BY <1>b, <1>2, <1>4
<1>7. /\ \A d \in Runners \ {Recovery}, q \in Phases : Holds(d, q)' <=> Holds(d, q)
      /\ \A q \in Phases : ~ Holds(Recovery, q)
      /\ \A q \in Phases : Holds(Recovery, q)' <=> critical /\ q = p0
  BY <1>a, <1>3, <1>5 DEF Holds, Active, Working, At, PhaseOf
<1>8. crowded \subseteq crowded'
  BY <1>1 DEF Crowd
<1>9. critical => p0 \in Reviewed /\ loop[p0].reviews >= 1 /\ loop[p0].newest # "none"
                  /\ loop[p0].newest # "passed"
  <2>1. PhaseBegun(p0)
    BY DEF LoopInv, RowsBegun
  <2> QED
    BY <2>1 DEF PhaseBegun, Begun, Verdicts
<1>10. GuardHeld'
  <2>1. runner'[Recovery].pc \in RecoveryPcs
    BY <1>a, <1>3, <1>5 DEF RecoveryPcs, LoopPcs
  <2>2. executing' = executing /\ executing \subseteq Phases
    BY <1>1 DEF TypeOK
  <2> QED
    BY <1>7, <2>1, <2>2 DEF LoopInv, GuardHeld, Guarded
<1>11. RowsBegun'
  <2>1. ASSUME NEW d \in Runners, runner'[d] = runner[d] PROVE RunnerBegun(d)'
    <3>1. RunnerBegun(d)
      BY DEF LoopInv, RowsBegun
    <3>2. runner[d].pc \in LoopPcs => PhaseOf(d) \in Phases
      BY DEF Placed, Working, LoopPcs, RowPcs
    <3> QED
      BY <1>6, <2>1, <3>1, <3>2 DEF RunnerBegun, Begun, At, PhaseOf
  <2>2. critical => RunnerBegun(Recovery)'
    BY <1>3, <1>5, <1>6, <1>9 DEF RunnerBegun, Begun, At, PhaseOf, RowPcs
  <2>3. ASSUME NEW p \in Phases PROVE PhaseBegun(p)'
    BY <1>6 DEF LoopInv, RowsBegun, PhaseBegun, Begun
  <2> QED
    BY <1>5, <2>1, <2>2, <2>3 DEF RowsBegun
<1>12. critical /\ p0 \notin crowded' => \A d \in Runners : ~ Holds(d, p0)
  <2>1. critical /\ p0 \notin crowded' => \A d \in On(p0) : At(d, "asked")
    BY <1>1 DEF Crowd
  <2> QED
    BY <2>1 DEF On, Holds, Active
<1>13. Alone'
  <2> SUFFICES ASSUME NEW p \in Phases \ crowded', NEW d \in Runners, NEW e \in Runners,
                      Holds(d, p)', Holds(e, p)'
               PROVE  d = e
    BY DEF Alone
  <2> QED
    BY <1>7, <1>8, <1>12 DEF LoopInv, Alone
<1>14. ASSUME NEW d \in Runners, Active(d)', PhaseOf(d)' \notin crowded'
       PROVE  CycleSound(d)'
  <2>1. CASE d # Recovery
    <3>1. /\ Active(d) /\ runner'[d] = runner[d] /\ PhaseOf(d)' = PhaseOf(d)
          /\ PhaseOf(d) \notin crowded /\ PhaseOf(d) \in Phases
      BY <1>5, <1>8, <1>14, <2>1 DEF PhaseOf, Active, Working, At, Placed
    <3>2. Counted(d) /\ Worked(d) /\ Told(d) /\ Judged(d)
      BY <3>1 DEF LoopInv, CycleSound
    <3>3. Counted(d)' /\ Worked(d)'
      BY <1>1, <1>6, <3>1, <3>2 DEF Counted, Worked, Earlier, At, InRow
    <3>4. Told(d)' /\ Judged(d)'
      BY <1>1, <1>6, <3>1, <3>2 DEF Told, Judged, At, InRow
    <3> QED
      BY <3>3, <3>4 DEF CycleSound
  <2>2. CASE d = Recovery
    <3>1. /\ critical /\ runner'[d] = new /\ PhaseOf(d)' = p0
      BY <1>a, <1>3, <1>5, <1>14, <2>2 DEF Active, Working, At, PhaseOf
    <3>2. p0 \notin crowded /\ PhaseSound(p0)
      BY <1>8, <1>14, <3>1 DEF LoopInv
    <3>3. loop'[p0].left = FALSE
      BY <1>2, <1>4
    <3>4. Counted(d)'
      <4>1. Earlier(p0)' = Earlier(p0) /\ Earlier(p0) \in Nat /\ loop[p0].fixes \in Nat
        BY <1>6, <1>9, <3>1, EarlierFixes, LoopFields DEF Earlier
      <4> QED
        BY <1>3, <1>6, <3>1, <4>1 DEF Counted, At, InRow, RowPcs
    <3>5. Worked(d)'
      BY <1>1, <1>3, <1>9, <3>1, <3>2 DEF Worked, At, PhaseSound, WorkSound
    <3>6. Told(d)' /\ Judged(d)'
      BY <1>3, <1>6, <1>9, <3>1, <3>3 DEF Told, Judged, At, InRow, RowPcs
    <3> QED
      BY <3>4, <3>5, <3>6 DEF CycleSound
  <2> QED
    BY <2>1, <2>2
<1>15. ASSUME NEW p \in Phases \ crowded' PROVE PhaseSound(p)'
  <2>1. PhaseSound(p) /\ p \in Phases
    BY <1>8 DEF LoopInv
  <2>2. Minded(p) => Minded(p)'
    BY <1>5, <1>7 DEF Minded, At
  <2>3. WorkSound(p)'
    <3>1. ASSUME NEW d \in Runners, At(d, "work"), PhaseOf(d) = p
          PROVE  At(d, "work")' /\ PhaseOf(d)' = p
      BY <1>a, <1>5, <3>1 DEF At, PhaseOf
    <3> QED
      BY <1>1, <1>6, <2>1, <3>1 DEF PhaseSound, WorkSound
  <2>4. CriticalSound(p)'
    <3> SUFFICES ASSUME status[p] = "complete", loop[p].newest = "critical"
                 PROVE  Minded(p)' \/ p \in doubtful'
      BY <1>1, <1>6 DEF CriticalSound
    <3>1. loop[p].last = "critical"
      BY DEF LoopInv, RowsBegun, PhaseBegun, Verdicts
    <3>2. CASE p = p0
      BY <1>a, <1>3, <1>5, <1>7, <3>1, <3>2 DEF Minded, At
    <3>3. CASE p # p0
      BY <1>a, <1>1, <2>1, <2>2, <3>3 DEF PhaseSound, CriticalSound, At
    <3> QED
      BY <3>2, <3>3
  <2>5. VerdictSound(p)'
    <3>1. ASSUME NEW d \in Runners, Holds(d, p), At(d, "passed"), InRow(d, {"rereview"})
          PROVE  Holds(d, p)' /\ At(d, "passed")' /\ InRow(d, {"rereview"})'
      BY <1>5, <1>7, <3>1 DEF At, InRow
    <3> QED
      BY <1>1, <1>6, <2>1, <3>1 DEF PhaseSound, VerdictSound
  <2>6. LeftSound(p)'
    <3>1. On(p) # {} => On(p)' # {}
      BY <1>a, <1>5 DEF On, Working, PhaseOf
    <3>2. At(Project, "next")' /\ PhaseOf(Project)' = p
          => At(Project, "next") /\ PhaseOf(Project) = p
      BY <1>a, <1>5 DEF At, PhaseOf
    <3> QED
      BY <1>1, <1>6, <2>1, <2>2, <3>1, <3>2 DEF PhaseSound, LeftSound
  <2> QED
    BY <1>6, <2>1, <2>3, <2>4, <2>5, <2>6 DEF PhaseSound
<1> QED
  BY <1>10, <1>11, <1>13, <1>14, <1>15 DEF LoopInv

(* Nobody is at work when the server comes up again.                       *)
LEMMA CrashLoop ==
  ASSUME LoopInv, TypeOK, TypeOK', Crash
  PROVE  LoopInv'
<1> DEFINE up == [Idle EXCEPT !.pc = "query"]
<1>a. Recovery \in Runners /\ Project \in Runners \ {Recovery}
  BY PhaseReviewAssumption DEF Runners
<1>1. /\ runner' = [c \in Runners |-> IF c = Recovery THEN up ELSE Idle]
      /\ executing' = {} /\ crashes' = crashes + 1
      /\ UNCHANGED <<status, crowded, overruled>>
  BY DEF Crash
<1>2. up.pc = "query" /\ Idle.pc = "idle"
  BY IdleType DEF RunnerType
<1> HIDE DEF up
<1>3. /\ runner'[Recovery].pc = "query"
      /\ \A c \in Runners : ~ Active(c)' /\ (c # Recovery => runner'[c].pc = "idle")
  BY <1>a, <1>1, <1>2 DEF Active, Working, At
<1>4. \A p \in Phases :
        /\ loop'[p].newest = IF loop[p].newest = "open" THEN "void" ELSE loop[p].newest
        /\ loop'[p].reviews = loop[p].reviews /\ loop'[p].fixes = loop[p].fixes
        /\ loop'[p].first = loop[p].first /\ loop'[p].last = loop[p].last
        /\ loop[p].failed = TRUE => loop'[p].failed = TRUE
  <2> DEFINE cut(p) == \E c \in Runners : Awaits(c, p)
             left(p) == loop[p].left \/ (cut(p) /\ p \in checkpoint)
             failed(p) == loop[p].failed \/ (cut(p) /\ p \notin checkpoint)
             newest(p) == IF loop[p].newest = "open" THEN "void" ELSE loop[p].newest
  <2>1. loop' = [p \in Phases |-> [loop[p] EXCEPT !.left = left(p), !.failed = failed(p),
                                                 !.newest = newest(p)]]
    BY DEF Crash, TypeOK, Loops
  <2>2. ASSUME NEW p \in Phases, loop[p].failed = TRUE PROVE failed(p) = TRUE
    BY <2>2
  <2> HIDE DEF left, failed, newest
  <2>3. ASSUME NEW p \in Phases
        PROVE  LET l == [loop[p] EXCEPT !.left = left(p), !.failed = failed(p),
                                        !.newest = newest(p)]
               IN  /\ l.newest = newest(p) /\ l.failed = failed(p)
                   /\ l.reviews = loop[p].reviews /\ l.fixes = loop[p].fixes
                   /\ l.first = loop[p].first /\ l.last = loop[p].last
    BY DEF TypeOK, Loops
  <2> QED
    BY <2>1, <2>2, <2>3 DEF newest
<1>5. \A p \in Phases : /\ work'[p] # "running"
                        /\ work[p] = "completed" => work'[p] = "completed"
  BY DEF Crash
<1>6. crashes' > 0
  BY <1>1, PhaseReviewAssumption DEF TypeOK
<1>7. GuardHeld'
  BY <1>1, <1>3 DEF GuardHeld, RecoveryPcs
<1>8. RowsBegun'
  <2>1. ASSUME NEW c \in Runners PROVE RunnerBegun(c)'
    BY <1>3 DEF RunnerBegun, At, LoopPcs, RowPcs
  <2>2. ASSUME NEW p \in Phases PROVE PhaseBegun(p)'
    <3>1. PhaseBegun(p)
      BY DEF LoopInv, RowsBegun
    <3> QED
      BY <1>4, <3>1 DEF PhaseBegun, Begun, Verdicts
  <2> QED
    BY <2>1, <2>2 DEF RowsBegun
<1>9. Alone'
  BY <1>3 DEF Alone, Holds
<1>10. ASSUME NEW p \in Phases \ crowded' PROVE PhaseSound(p)'
  <2>1. PhaseSound(p)
    BY <1>1, <1>10 DEF LoopInv
  <2>2. WorkSound(p)'
    BY <1>4, <1>5, <2>1 DEF PhaseSound, WorkSound
  <2>3. CriticalSound(p)'
    BY <1>3 DEF CriticalSound, At
  <2>4. VerdictSound(p)'
    BY <1>1, <1>4, <1>6, <2>1 DEF PhaseSound, VerdictSound
  <2>5. LeftSound(p)'
    BY <1>a, <1>3 DEF LeftSound, At
  <2> QED
    BY <1>4, <2>1, <2>2, <2>3, <2>4, <2>5 DEF PhaseSound
<1> QED
  BY <1>3, <1>7, <1>8, <1>9, <1>10 DEF LoopInv

LEMMA IdleLoop ==
  ASSUME LoopInv, UNCHANGED vars
  PROVE  LoopInv'
<1> USE DEF At, PhaseOf, Working, Active, InRow, Holds, Begun
<1>1. UNCHANGED <<status, work, loop, executing, runner, doubtful, overruled, crowded,
                  crashes>>
  BY DEF vars
<1>2. GuardHeld' /\ RowsBegun' /\ Alone'
  BY <1>1 DEF LoopInv, GuardHeld, RowsBegun, RunnerBegun, PhaseBegun, Alone
<1>3. ASSUME NEW c \in Runners PROVE CycleSound(c)' <=> CycleSound(c)
  BY <1>1 DEF CycleSound, Counted, Worked, Told, Judged, Earlier
<1>4. ASSUME NEW p \in Phases PROVE PhaseSound(p)' <=> PhaseSound(p)
  BY <1>1 DEF PhaseSound, WorkSound, CriticalSound, VerdictSound, LeftSound, Minded, On
<1> QED
  BY <1>1, <1>2, <1>3, <1>4 DEF LoopInv

LEMMA InitLoop == Init => LoopInv
<1> SUFFICES ASSUME Init PROVE LoopInv
  OBVIOUS
<1>1. \A c \in Runners : runner[c].pc = "idle" /\ ~ Active(c)
  BY IdleType DEF Init, Active, Working
<1>2. \A p \in Phases : /\ loop[p] = NoLoop /\ status[p] = "not_started"
                        /\ work[p] = "pending"
  BY DEF Init
<1>3. Recovery \in Runners /\ Project \in Runners /\ MaxAttempts \in Nat
  BY PhaseReviewAssumption DEF Runners
<1>4. GuardHeld
  BY <1>1, <1>3 DEF Init, GuardHeld, RecoveryPcs
<1>5. RowsBegun
  BY <1>1, <1>2 DEF RowsBegun, RunnerBegun, PhaseBegun, At, LoopPcs, RowPcs, NoLoop, Verdicts
<1>6. ASSUME NEW p \in Phases PROVE PhaseSound(p)
  BY <1>1, <1>2, <1>3
  DEF PhaseSound, WorkSound, CriticalSound, VerdictSound, LeftSound, At, NoLoop
<1> QED
  BY <1>1, <1>4, <1>5, <1>6 DEF LoopInv, Alone, Holds

LEMMA RunnerLoop ==
  ASSUME LoopInv, TypeOK, TypeOK', Placed, Placed', NEW c \in Runners,
         RunnerStep(c) \/ ProcessStep(c)
  PROVE  LoopInv'
BY EntersKeeps, LoadKeeps, CheckpointKeeps, FinalizeKeeps, GivesUpKeeps, FinishLoop,
   NewRowSound, FirstReviewEndsKeeps, FixEndsKeeps, UnresolvedKeeps, DecidesKeeps,
   WorkEndsKeeps, RowEndsKeeps
DEF RunnerStep, ProcessStep

LEMMA NextLoop ==
  ASSUME LoopInv, TypeOK, TypeOK', Placed, Placed', [Next]_vars
  PROVE  LoopInv'
<1>1. CASE \E c \in Runners : RunnerStep(c) \/ ProcessStep(c)
  BY <1>1, RunnerLoop
<1>2. CASE ProjectStep \/ RunProject
  BY <1>2, EntersKeeps, ProjectBetween DEF ProjectStep
<1>3. CASE RecoveryStep
  BY <1>3, RecoveryBetween, PickKeeps DEF RecoveryStep
<1>4. ASSUME NEW h \in Hands, NEW p \in ByHand, RunPhase(h, p) \/ ResumePhase(h, p)
      PROVE  LoopInv'
  BY <1>4, EntersKeeps, ResumeKeeps
<1>5. ASSUME NEW c \in Runners, StopRow(c) PROVE LoopInv'
  BY <1>5, StopRowKeeps
<1>6. CASE Crash
  BY <1>6, CrashLoop
<1>7. CASE UNCHANGED vars
  BY <1>7, IdleLoop
<1> QED
  BY <1>1, <1>2, <1>3, <1>4, <1>5, <1>6, <1>7 DEF Next, UserStep
-----------------------------------------------------------------------------
(* What the cycle, the phase and the recovery know of each other holds     *)
(* always, of phases whose cycle never ran beside the recovery's.          *)
THEOREM LoopInvariant == Spec => []LoopInv
<1>1. Init => ReviewInv /\ LoopInv
  <2> SUFFICES ASSUME Init PROVE ReviewInv
    BY InitLoop
  <2>1. \A c \in Runners : ~ Active(c)
    BY IdleType DEF Init, Active, Working
  <2> QED
    BY <2>1, InitTypes DEF ReviewInv, CycleInv, Guarded
<1>2. (ReviewInv /\ LoopInv) /\ [Next]_vars => (ReviewInv /\ LoopInv)'
  BY NextTypes, NextCycle, NextLoop DEF ReviewInv
<1> QED
  BY <1>1, <1>2, PTL DEF Spec

(* A run of a phase gets no more than _MAX_REVIEW_ATTEMPTS fixes, with any *)
(* number of crashes in between: the recovery counts on from the fixes     *)
(* that were finished.                                                     *)
THEOREM FixesAreBounded == Spec => []FixesBounded
<1>1. LoopInv => FixesBounded
  BY DEF LoopInv, PhaseSound, FixesBounded
<1> QED
  BY <1>1, LoopInvariant, PTL

(* A phase is not left complete on top of a review that found CRITICALs.   *)
THEOREM CriticalsAreHandled == Spec => []CriticalsHandled
<1>1. LoopInv => CriticalsHandled
  <2>1. \A p \in Phases : Minded(p) => On(p) # {}
    BY DEF Minded, Holds, Active, On
  <2> QED
    BY <2>1 DEF LoopInv, PhaseSound, CriticalSound, CriticalsHandled
<1> QED
  BY <1>1, LoopInvariant, PTL

(* A phase whose newest review passed is not left failed, except by the    *)
(* judgement of on_complete.                                               *)
THEOREM VerdictsStand == Spec => []VerdictStands
<1>1. ReviewInv /\ LoopInv => VerdictStands
  <2> SUFFICES ASSUME ReviewInv, LoopInv, NEW p \in Phases \ crowded, On(p) = {},
                      loop[p].newest = "passed", status[p] = "failed"
               PROVE  loop[p].failed /\ (loop[p].first \/ crashes > 0)
    BY DEF VerdictStands
  <2>1. \A c \in Runners : ~ Holds(c, p)
    BY DEF On, Holds, Active
  <2> QED
    BY <2>1 DEF LoopInv, PhaseSound, VerdictSound
<1> QED
  BY <1>1, ReviewInvariant, LoopInvariant, PTL

(* Only NextPhase takes run_project into a phase. *)
LEMMA OnlyNextPhase ==
  ASSUME TypeOK, Next, At(Project, "next"), runner'[Project].pc = "load"
  PROVE  NextPhase
<1>a. Project \in Runners \ {Recovery} /\ runner \in [Runners -> RunnerType]
  BY PhaseReviewAssumption DEF Runners, TypeOK, RunnerType
<1>1. ASSUME NEW c \in Runners, RunnerStep(c) \/ ProcessStep(c) \/ StopRow(c) PROVE FALSE
  <2>1. c # Project
    BY <1>1
    DEF RunnerStep, ProcessStep, StopRow, Begin, Load, Checkpoint, Finalize, Abort, Finish,
        SpawnReview, SpawnFix, SpawnReReview, GiveUp, FirstReviewEnds, FixEnds,
        ReReviewUnresolved, ReReviewDecides, WorkEnds, RowEnds, Was, Verdicts, At
  <2>2. CASE SpawnReview(c) \/ SpawnFix(c) \/ SpawnReReview(c)
    <3>1. PICK kind : NewRow(c, kind)
      BY <2>2 DEF SpawnReview, SpawnFix, SpawnReReview
    <3>2. \/ runner'[Project] = runner[Project]
          \/ runner'[Project] = [runner[Project] EXCEPT !.newest = FALSE]
      BY <1>a, <2>1, <3>1 DEF NewRow
    <3>3. runner'[Project].pc = runner[Project].pc
      BY <1>a, <3>2 DEF RunnerType
    <3> QED
      BY <3>3 DEF At
  <2>3. CASE ~ (SpawnReview(c) \/ SpawnFix(c) \/ SpawnReReview(c))
    <3>1. \E new : runner' = [runner EXCEPT ![c] = new]
      BY <1>1, <2>3
      DEF RunnerStep, ProcessStep, StopRow, Begin, Enter, Load, Checkpoint, Finalize, Abort,
          Finish, GiveUp, FirstReviewEnds, FixEnds, ReReviewUnresolved, ReReviewDecides,
          WorkEnds, RowEnds, Goto
    <3> QED
      BY <1>a, <2>1, <3>1 DEF At
  <2> QED
    BY <2>2, <2>3
<1>2. ~ RecoveryStep
  <2> SUFFICES ASSUME RecoveryStep PROVE FALSE
    OBVIOUS
  <2>1. runner'[Project] = runner[Project]
    BY <1>a DEF RecoveryStep, Query, Pick, RecoveryEnds, Goto
  <2> QED
    BY <2>1 DEF At
<1>3. ASSUME NEW h \in Hands, NEW p \in ByHand, RunPhase(h, p) \/ ResumePhase(h, p)
      PROVE  FALSE
  <2>1. h \in Runners \ {Project}
    BY PhaseReviewAssumption DEF Runners
  <2>2. \E new : runner' = [runner EXCEPT ![h] = new]
    BY <1>3 DEF RunPhase, ResumePhase, Enter
  <2> QED
    BY <1>a, <2>1, <2>2 DEF At
<1>4. ~ RunProject
  BY DEF RunProject, At
<1>5. ~ ProjectEnds /\ ~ Crash
  BY <1>a, IdleType DEF ProjectEnds, Crash
<1> QED
  BY <1>1, <1>2, <1>3, <1>4, <1>5 DEF Next, ProjectStep, UserStep

(* run_project goes on to a phase only when the one before it is complete  *)
(* with nothing critical open, or somebody else is still executing it.     *)
THEOREM PhasesGoInOrder == Spec => PhasesInOrder
<1> DEFINE last == runner[Project].phase
           InOrder == At(Project, "next") /\ last # 0 /\ runner'[Project].pc = "load"
                        => \/ status[last] = "complete" /\ loop[last].newest # "critical"
                           \/ On(last) # {} \/ last \in overruled \cup crowded
<1>1. ReviewInv /\ LoopInv /\ [Next]_vars => [InOrder]_vars
  <2> SUFFICES ASSUME ReviewInv, LoopInv, Next, At(Project, "next"), last # 0,
                      runner'[Project].pc = "load", last \notin overruled \cup crowded,
                      On(last) = {}
               PROVE  status[last] = "complete" /\ loop[last].newest # "critical"
    OBVIOUS
  <2>a. Project \in Runners /\ Project # Recovery /\ last \in Phases /\ TypeOK
    BY PhaseReviewAssumption DEF ReviewInv, TypeOK, Runners
  <2>1. NextPhase
    BY <2>a, OnlyNextPhase
  <2>2. status[last] # "failed"
    BY <2>1 DEF NextPhase, Broken, PhaseOf
  <2>3. PhaseSound(last) /\ ~ Minded(last)
    BY <2>a DEF LoopInv, Minded, Holds, Active, On
  <2> QED
    BY <2>2, <2>3 DEF PhaseSound, LeftSound, PhaseOf
<1> QED
  BY <1>1, ReviewInvariant, LoopInvariant, PTL DEF Spec, PhasesInOrder
=============================================================================
