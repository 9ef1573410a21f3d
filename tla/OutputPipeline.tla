--------------------------- MODULE OutputPipeline ---------------------------
(***************************************************************************)
(* From a running agent to the page that shows it: the process's output    *)
(* queue, the manager's monitor (core/manager.py _monitor_output), the     *)
(* event bus, and the server-sent events of one page (web/app.py           *)
(* event_stream_task) with a relay for each topic and a merged queue.      *)
(*                                                                         *)
(* Items are the numbers of output events, Eof for the event that tells    *)
(* the end, Foreign for what other tasks publish, which a relay drops.     *)
(***************************************************************************)
EXTENDS SDKProcess, EventBus

CONSTANT MergedMax  \* maxsize of the page's merged queue

VARIABLES page,   \* off, open, gone
          hand,   \* what a relay holds: a sequence of one item at most
          merged, \* the merged queue: items in the order of arrival
          shown,  \* number of the last output event shown
          seen    \* history: all that was shown

pageVars == <<page, hand, merged, shown, seen>>
pipelineVars == <<processVars, busVars, pageVars>>

Out == <<"output", "page">>
End == <<"end", "page">>

ASSUME PipelineAssumption == Queue = {Out, End} /\ MergedMax \in Nat \ {0}

Foreign == -1

PipelineInit ==
  /\ ProcessInit
  /\ BusInit
  /\ page = "off"
  /\ hand = [q \in Queue |-> <<>>]
  /\ merged = <<>>
  /\ shown = 0 /\ seen = {}
-----------------------------------------------------------------------------
(* A publication of the monitor, and whether the page's queue took it.      *)
PublishFor(q, item) ==
  /\ Publish(TopicOf(q), item)
  /\ missed' = IF q \in Takers(TopicOf(q)) THEN missed ELSE missed \cup {item}

MonitorTakes ==
  /\ NextOutput
  /\ IF Head(queue) = Eof
     THEN stream' = "over" /\ UNCHANGED <<missed, busVars>>
     ELSE stream' = "open" /\ PublishFor(Out, Head(queue))
  /\ UNCHANGED pageVars

MonitorBeats ==
  /\ Heartbeat
  /\ PublishFor(Out, made')
  /\ UNCHANGED pageVars

(* TASK_COMPLETED or TASK_FAILED after on_complete; the process is dropped. *)
MonitorTells ==
  /\ stream = "over"
  /\ stream' = "told"
  /\ PublishFor(End, Eof)
  /\ UNCHANGED <<made, queue, run, running, exit, slot, asking, answered,
                 happened, pageVars>>

StopTells ==
  /\ StopReturns
  /\ PublishFor(End, Eof)
  /\ UNCHANGED pageVars

OtherTaskTells(topic) ==
  /\ Happens({"noise"})
  /\ Publish(topic, Foreign)
  /\ UNCHANGED <<made, queue, run, running, exit, slot, asking, answered,
                 stream, missed, pageVars>>
-----------------------------------------------------------------------------
(* event_stream_task: both queues are subscribed before anything is read.   *)
PageOpens ==
  /\ page = "off"
  /\ page' = "open"
  /\ Subscribe(Queue)
  /\ UNCHANGED <<processVars, hand, merged, shown, seen>>

(* Mutant of RelayTakes: the relay does not wait until it has put its item. *)
RelayTakesMore(q) ==
  /\ page = "open"
  /\ TakeFrom(q)
  /\ hand' = [hand EXCEPT ![q] = IF Head(box[q]) = Foreign THEN <<>>
                                 ELSE <<Head(box[q])>>]
  /\ UNCHANGED <<processVars, page, merged, shown, seen>>

(* Mutant of RelayTakes: it passes output events on, nothing else. *)
RelayTakesOutput(q) ==
  /\ page = "open" /\ hand[q] = <<>>
  /\ TakeFrom(q)
  /\ hand' = [hand EXCEPT ![q] = IF Head(box[q]) < 1 THEN <<>>
                                 ELSE <<Head(box[q])>>]
  /\ UNCHANGED <<processVars, page, merged, shown, seen>>

RelayTakes(q) ==
  /\ page = "open" /\ hand[q] = <<>>
  /\ TakeFrom(q)
  /\ hand' = [hand EXCEPT ![q] = IF Head(box[q]) = Foreign THEN <<>>
                                 ELSE <<Head(box[q])>>]
  /\ UNCHANGED <<processVars, page, merged, shown, seen>>

RelayPuts(q) ==
  /\ hand[q] # <<>> /\ Len(merged) < MergedMax
  /\ merged' = Append(merged, Head(hand[q]))
  /\ hand' = [hand EXCEPT ![q] = <<>>]
  /\ UNCHANGED <<processVars, busVars, page, shown, seen>>

PageShows ==
  /\ page = "open" /\ merged # <<>>
  /\ merged' = Tail(merged)
  /\ shown' = IF Head(merged) = Eof THEN shown ELSE Head(merged)
  /\ seen' = seen \cup {Head(merged)}
  /\ UNCHANGED <<processVars, busVars, page, hand>>

(* The browser disconnects: relays are cancelled, queues unsubscribed.      *)
PageCloses ==
  /\ page = "open"
  /\ page' = "gone"
  /\ Unsubscribe(Queue)
  /\ hand' = [q \in Queue |-> <<>>]
  /\ merged' = <<>>
  /\ UNCHANGED <<processVars, shown, seen>>
-----------------------------------------------------------------------------
ProcessActs ==
  \/ ProcessStart \/ SendInput \/ UserAnswers \/ StopCalled \/ StopCancels
  \/ \E r \in Runs : RunStep(r)
  \/ \E q \in asking : AnswerTaken(q)

MonitorActs == MonitorTakes \/ MonitorTells \/ StopTells

PageActs == PageShows \/ \E q \in Queue : RelayTakes(q) \/ RelayPuts(q)

PipelineNext ==
  \/ ProcessActs /\ UNCHANGED <<busVars, pageVars>>
  \/ MonitorActs \/ MonitorBeats \/ PageOpens \/ PageCloses \/ PageActs
  \/ \E topic \in {"output", "end"} : OtherTaskTells(topic)

PipelineSafe == PipelineInit /\ [][PipelineNext]_pipelineVars

(* Ready coroutines run, the timeouts of puts and of the heartbeat come, and *)
(* asyncio serves waiting puts in order (SF).  A browser that stops reading  *)
(* disconnects sooner or later.  Nothing is assumed of the agent and users.  *)
PipelineFairness ==
  /\ \A r \in Runs :
       WF_pipelineVars((EmitError(r) \/ EnqueueEof(r))
                         /\ UNCHANGED <<busVars, pageVars>>)
  /\ WF_pipelineVars(StopCancels /\ UNCHANGED <<busVars, pageVars>>)
  /\ WF_pipelineVars(MonitorActs)
  /\ WF_pipelineVars(MonitorBeats /\ ~running)
  /\ WF_pipelineVars(PageShows)
  /\ \A q \in Queue : /\ WF_pipelineVars(RelayTakes(q))
                      /\ SF_pipelineVars(RelayPuts(q))

PipelineSpec == PipelineSafe /\ PipelineFairness
-----------------------------------------------------------------------------
(* Order: what a page shows is in order and never twice, across the four    *)
(* queues and two relays, whatever is dropped, drained or swept.            *)
Delivery == INSTANCE OutputDelivery WITH made <- made, shown <- shown, page <- page
Ordered == Delivery!Spec

(* Nothing is lost quietly: while the page is open, each output event is in *)
(* exactly one of the places it passes, or was dropped by a full queue, by  *)
(* a sweep, or before the page was there.                                   *)
Places == <<Numbers(queue), Numbers(box[Out]), Numbers(hand[Out]),
            Numbers(merged), seen, missed>>

NoQuietLoss ==
  page = "open" =>
    \A n \in 1 .. made : Cardinality({i \in DOMAIN Places : n \in Places[i]}) = 1

(* Every output event reaches the open page or was dropped, and when the    *)
(* runs are over, so does the end of the task; excepted what is behind the  *)
(* end marker: the output of a follow-up that came too late, or of a        *)
(* stopped run.                                                             *)
RunsOver == run[1] = "done" /\ run[2] \in {"idle", "done"}

Made(n) == IF n = Eof THEN RunsOver ELSE n <= made

OutputArrives ==
  \A n \in 0 .. MaxEvent :
    Made(n) ~> \/ n \in seen \cup missed \/ page # "open"
               \/ stream # "open" /\ n \in Numbers(queue)

(* The end marker of _enqueue_eof "MUST succeed or the monitor hangs": when *)
(* the runs are over and the monitor still reads, it is in the queue, also  *)
(* after overflows and beside a follow-up.                                  *)
MarkerThere == RunsOver /\ stream = "open" => Eof \in Numbers(queue)

(* While the agent asks one thing at a time, the request that waits is the   *)
(* one the user sees and answers, and nothing is shown as pending that does  *)
(* not wait, except a request whose run was stopped or failed.               *)
Answerable ==
  "parallel" \notin happened =>
    /\ asking \subseteq {slot}
    /\ slot = 0 \/ slot \in asking \/ happened \cap {"error", "stop"} # {}
=============================================================================
