---------------------------- MODULE StateTracker ----------------------------
(***************************************************************************)
(* core/state.py: the background loop that counts the ends of tasks in the *)
(* metrics of their project.                                               *)
(*                                                                         *)
(* The tracker has one queue for each of three topics.  In a round it      *)
(* starts a get() on every queue, waits for the first of them, handles     *)
(* what was got by then one by one, each in a database session, cancels    *)
(* the other gets and drains the queues.  A get that is answered while     *)
(* another event is being handled is neither handled nor cancelled.        *)
(*                                                                         *)
(* An event is a record: where it comes from, its topic, and whether it    *)
(* names its project, which only some publishers do; the others' are       *)
(* passed over.                                                            *)
(***************************************************************************)
EXTENDS Integers, Sequences, FiniteSets

CONSTANT MaxEvents  \* bound: events that are published

ASSUME TrackerAssumption == MaxEvents \in Nat

Topics == {"completed", "failed", "phase"}

(* Who publishes on the topics of the tracker: the manager at the end of a *)
(* process, execute_task's failures and the watchdog, the end of a phase.  *)
Sources == {"manager_completed", "manager_failed", "mark_failed", "phase_ends"}
Event == 1..MaxEvents

VARIABLES
  events,   \* the source of every event so far
  box,      \* the tracker's queues
  getting,  \* the events the get()s of this round have been answered with
  round,    \* off, wait, handle, drain
  done,     \* those of them that are still to be handled
  hand,     \* the event in the database session: at most one
  counted,  \* how often an event was counted
  excepted  \* history: published or dropped while the tracker was off, or its
            \* session raised

trackerVars == <<events, box, getting, round, done, hand, counted, excepted>>

Topic(source) == CASE source = "manager_completed" -> "completed"
                   [] source = "phase_ends" -> "phase"
                   [] OTHER -> "failed"

(* The end of a phase names its project as well, but is only logged.       *)
NamesProject(source) == source = "mark_failed"

TrackerInit ==
  /\ events = <<>>
  /\ box = [q \in Topics |-> <<>>]
  /\ getting = {} /\ done = {} /\ hand = {}
  /\ round = "off"
  /\ counted = [e \in Event |-> 0]
  /\ excepted = {}

Held == UNION {{box[q][i] : i \in 1..Len(box[q])} : q \in Topics}
-----------------------------------------------------------------------------
(* start subscribes the three queues and creates the loop. *)
StartTracker ==
  /\ round = "off"
  /\ round' = "wait"
  /\ UNCHANGED <<events, box, getting, done, hand, counted, excepted>>

(* The tracker hears of an event only while its queues are subscribed.     *)
PublishEvent(source) ==
  LET e == Len(events) + 1 IN
  /\ Len(events) < MaxEvents
  /\ events' = Append(events, source)
  /\ IF round = "off"
     THEN excepted' = excepted \cup {e} /\ UNCHANGED box
     ELSE box' = [box EXCEPT ![Topic(source)] = Append(@, e)] /\ UNCHANGED excepted
  /\ UNCHANGED <<getting, round, done, hand, counted>>

(* The get() on a queue is answered, also while the session of an event is *)
(* awaited.                                                                *)
Got(q) ==
  /\ round = "wait" \/ (round = "handle" /\ hand # {})
  /\ box[q] # <<>>
  /\ \A e \in getting : Topic(events[e]) # q
  /\ getting' = getting \cup {Head(box[q])}
  /\ box' = [box EXCEPT ![q] = Tail(@)]
  /\ UNCHANGED <<events, round, done, hand, counted, excepted>>

(* Mutant of WaitReturns: one event is handled in a round. *)
WaitReturnsOne ==
  /\ round = "wait"
  /\ round' = "handle"
  /\ \E e \in getting : done' = {e}
  /\ UNCHANGED <<events, box, getting, hand, counted, excepted>>

(* asyncio.wait: the gets that are answered by now, none after a timeout.  *)
WaitReturns ==
  /\ round = "wait"
  /\ round' = "handle"
  /\ done' = getting
  /\ UNCHANGED <<events, box, getting, hand, counted, excepted>>

(* _handle_event: an event without a project is passed over at once.       *)
HandleEvent(e) ==
  /\ round = "handle" /\ hand = {}
  /\ e \in done
  /\ done' = done \ {e}
  /\ hand' = {f \in {e} : NamesProject(events[f])}
  /\ UNCHANGED <<events, box, getting, round, counted, excepted>>

(* update_metrics is one transaction; it ends well or raises. *)
Counted ==
  /\ hand # {}
  /\ hand' = {}
  /\ \/ /\ counted' = [e \in Event |-> counted[e] + (IF e \in hand THEN 1 ELSE 0)]
        /\ UNCHANGED excepted
     \/ excepted' = excepted \cup hand /\ UNCHANGED counted
  /\ UNCHANGED <<events, box, getting, round, done>>

(* The gets that wait are cancelled; those answered since are dropped.     *)
DropGets ==
  /\ round = "handle" /\ done = {} /\ hand = {}
  /\ round' = "drain"
  /\ getting' = {}
  /\ UNCHANGED <<events, box, done, hand, counted, excepted>>

(* The queues are emptied, the last of them for good: what comes to the    *)
(* others meanwhile waits for the next round.                              *)
Drain(q) ==
  /\ round = "drain" /\ hand = {}
  /\ box[q] # <<>>
  /\ box' = [box EXCEPT ![q] = Tail(@)]
  /\ hand' = {e \in {Head(box[q])} : NamesProject(events[e])}
  /\ UNCHANGED <<events, getting, round, done, counted, excepted>>

NextRound ==
  /\ round = "drain" /\ hand = {}
  /\ box["phase"] = <<>>
  /\ round' = "wait"
  /\ UNCHANGED <<events, box, getting, done, hand, counted, excepted>>

(* stop: the queues are unsubscribed and the loop is cancelled where it is.*)
StopTracker ==
  /\ round # "off"
  /\ round' = "off"
  /\ excepted' = excepted \cup Held \cup getting \cup done \cup hand
  /\ box' = [q \in Topics |-> <<>>]
  /\ getting' = {} /\ done' = {} /\ hand' = {}
  /\ UNCHANGED <<events, counted>>

TrackerNext ==
  \/ StartTracker \/ WaitReturns \/ Counted \/ DropGets \/ NextRound \/ StopTracker
  \/ \E source \in Sources : PublishEvent(source)
  \/ \E q \in Topics : Got(q) \/ Drain(q)
  \/ \E e \in Event : HandleEvent(e)

TrackerSpec == TrackerInit /\ [][TrackerNext]_trackerVars
-----------------------------------------------------------------------------
(* Every failure that names its project and was published while the        *)
(* tracker listened is counted exactly once, or is still on its way,       *)
(* although the loop drops what a get() was answered with meanwhile.  It   *)
(* is so because only one topic has events that are counted.               *)
EventsCounted ==
  \A e \in 1..Len(events) :
    LET way == (IF e \in Held THEN 1 ELSE 0)
             + (IF e \in done \cup hand \/ (e \in getting /\ round = "wait") THEN 1 ELSE 0) IN
    NamesProject(events[e]) /\ e \notin excepted => counted[e] + way = 1
=============================================================================
