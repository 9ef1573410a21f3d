------------------------------ MODULE MCServer ------------------------------
(***************************************************************************)
(* Four services of the server that share no state: the schedules with the *)
(* flows, the advisor's sessions, the state tracker and the database's     *)
(* sessions.                                                               *)
(* One run checks them, each on its own: the initial state chooses the one *)
(* that runs, and the others stand still.                                  *)
(***************************************************************************)
EXTENDS Schedules, ConsultSessions, StateTracker, SessionPool, TLC

CONSTANTS s1, s2, t1, t2, g1, g2

VARIABLE focus

MCProjectOf == [s \in Schedules |-> CHOOSE p \in Projects : TRUE]

(* The two schedules can be swapped; so can the two sessions and the two   *)
(* pages, which move along with them, since only one service runs.         *)
MCSymmetry ==
  {p @@ (t1 :> IF p[s1] = s1 THEN t1 ELSE t2) @@ (t2 :> IF p[s1] = s1 THEN t2 ELSE t1)
     @@ (g1 :> IF p[s1] = s1 THEN g1 ELSE g2) @@ (g2 :> IF p[s1] = s1 THEN g2 ELSE g1) :
   p \in Permutations({s1, s2})}

MCInit ==
  /\ focus \in {"schedules", "consult", "tracker", "database"}
  /\ SchedulesInit /\ ConsultInit /\ TrackerInit /\ PoolInit

MCNext ==
  /\ UNCHANGED focus
  /\ \/ /\ focus = "schedules" /\ SchedulesNext
        /\ UNCHANGED <<consultVars, trackerVars, poolVars>>
     \/ /\ focus = "consult" /\ ConsultNext
        /\ UNCHANGED <<schedulesVars, trackerVars, poolVars>>
     \/ /\ focus = "tracker" /\ TrackerNext
        /\ UNCHANGED <<schedulesVars, consultVars, poolVars>>
     \/ /\ focus = "database" /\ PoolNext
        /\ UNCHANGED <<schedulesVars, consultVars, trackerVars>>
=============================================================================
