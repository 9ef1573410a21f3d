----------------------------- MODULE SDKProcess -----------------------------
(***************************************************************************)
(* taktis/core/sdk_process.py: one run of the agent SDK, its bounded       *)
(* output queue, and the permission it may wait for.                       *)
(*                                                                         *)
(* Output events are numbered in the order they are made.  The five        *)
(* runners differ in their options only; run 2 is a follow-up on the       *)
(* client of run 1.                                                        *)
(***************************************************************************)
EXTENDS Integers, Sequences, FiniteSets

CONSTANTS MaxEvent,  \* bound: events before the last ones of each run
          QueueMax,  \* maxsize of _message_queue
          MayCome    \* which mishaps and operations may come together

ASSUME ProcessAssumption == MaxEvent \in Nat /\ QueueMax \in Nat \ {0}

VARIABLES
  made,     \* number of the last event
  queue,    \* _message_queue
  run,      \* where the two run coroutines stand
  running,  \* _is_running
  exit,     \* _exit_code
  slot,     \* _pending_permission: the event of the request, 0 for None
  asking,   \* requests whose callback waits
  answered, \* those whose future is resolved
  stream,   \* the monitor's stream_output: open, over, told; stopping and
            \* cut while stop awaits the client and the cancelled run
  missed,   \* history: events that got lost, 0 for the end of the stream
  happened  \* history: mishaps and operations so far

processVars == <<made, queue, run, running, exit, slot, asking, answered,
                 stream, missed, happened>>

Eof == 0
Runs == {1, 2}
RunStates == {"idle", "fresh", "streaming", "raised", "closing", "done"}

Happens(kinds) ==
  /\ happened' = happened \cup kinds
  /\ kinds = {} \/ \E mix \in MayCome : happened' \subseteq mix

(* The manager has the process until the monitor comes to its finally.      *)
Known == stream \in {"open", "over"}

Numbers(s) == {s[i] : i \in DOMAIN s}

ProcessInit ==
  /\ made = 0 /\ queue = <<>>
  /\ run = [r \in Runs |-> "idle"]
  /\ running = FALSE /\ exit = 0
  /\ slot = 0 /\ asking = {} /\ answered = {}
  /\ stream = "open" /\ missed = {} /\ happened = {}

(* start, start_continuation *)
ProcessStart ==
  /\ run = [r \in Runs |-> "idle"]
  /\ run' = [run EXCEPT ![1] = "fresh"]
  /\ running' = TRUE
  /\ UNCHANGED <<made, queue, exit, slot, asking, answered, stream, missed,
                 happened>>

(* send_input: also while on_complete runs after the end of the stream. *)
SendInput ==
  /\ run[1] \notin {"idle", "fresh"} /\ run[2] = "idle"
  /\ Known
  /\ Happens({"input"})
  /\ run' = [run EXCEPT ![2] = "fresh"]
  /\ running' = TRUE
  /\ UNCHANGED <<made, queue, exit, slot, asking, answered, stream, missed>>

RunBegins(r) ==
  /\ run[r] = "fresh"
  /\ run' = [run EXCEPT ![r] = "streaming"]
  /\ UNCHANGED <<made, queue, running, exit, slot, asking, answered, stream,
                 missed, happened>>

(* _safe_enqueue of the next event.  A put that finds the queue full waits, *)
(* which is this step not taken yet, or gives up after five seconds.        *)
Enqueue(kinds) ==
  /\ made' = made + 1
  /\ \/ /\ Len(queue) < QueueMax
        /\ queue' = Append(queue, made')
        /\ Happens(kinds)
        /\ UNCHANGED missed
     \/ /\ Len(queue) = QueueMax
        /\ Happens(kinds \cup {"overflow"})
        /\ missed' = missed \cup {made'}
        /\ UNCHANGED queue

Emit(r) ==
  /\ run[r] = "streaming" /\ made < MaxEvent
  /\ Enqueue({})
  /\ UNCHANGED <<run, running, exit, slot, asking, answered, stream>>

(* The finally clause up to the end marker. *)
Closes(r, code) ==
  /\ run' = [run EXCEPT ![r] = "closing"]
  /\ exit' = code
  /\ running' = FALSE

(* The result ends the loop; the agent waits for its tools before it.       *)
EmitResult(r) ==
  /\ run[r] = "streaming" /\ asking = {}
  /\ \/ Enqueue({}) /\ Closes(r, 0)
     \/ /\ Enqueue({"error"})
        /\ run' = [run EXCEPT ![r] = "raised"]
        /\ UNCHANGED <<exit, running>>
  /\ UNCHANGED <<slot, asking, answered, stream>>

(* The SDK's stream stops without a result, which counts as success.        *)
StreamStops(r) ==
  /\ run[r] = "streaming" /\ asking = {}
  /\ Closes(r, 0)
  /\ UNCHANGED <<made, queue, slot, asking, answered, stream, missed, happened>>

StreamRaises(r) ==
  /\ run[r] = "streaming"
  /\ Happens({"error"})
  /\ run' = [run EXCEPT ![r] = "raised"]
  /\ asking' = {} /\ answered' = {}
  /\ UNCHANGED <<made, queue, running, exit, slot, stream, missed>>

(* The error event, after an exception or for an error result.              *)
EmitError(r) ==
  /\ run[r] = "raised"
  /\ Enqueue({})
  /\ Closes(r, 1)
  /\ UNCHANGED <<slot, asking, answered, stream>>

(* Mutant of EnqueueEof: the end marker is dropped like any other event. *)
EnqueueEofOrDrop(r) ==
  /\ run[r] = "closing"
  /\ run' = [run EXCEPT ![r] = "done"]
  /\ \/ /\ Len(queue) < QueueMax
        /\ queue' = Append(queue, Eof)
        /\ UNCHANGED happened
     \/ /\ Len(queue) = QueueMax
        /\ Happens({"overflow"})
        /\ UNCHANGED queue
  /\ UNCHANGED <<made, running, exit, slot, asking, answered, stream, missed>>

(* _enqueue_eof: after thirty seconds the queue is emptied for it.          *)
EnqueueEof(r) ==
  /\ run[r] = "closing"
  /\ run' = [run EXCEPT ![r] = "done"]
  /\ \/ /\ Len(queue) < QueueMax
        /\ queue' = Append(queue, Eof)
        /\ UNCHANGED <<missed, happened>>
     \/ /\ Len(queue) = QueueMax
        /\ Happens({"overflow"})
        /\ queue' = <<Eof>>
        /\ missed' = missed \cup (Numbers(queue) \ {Eof})
  /\ UNCHANGED <<made, running, exit, slot, asking, answered, stream>>
-----------------------------------------------------------------------------
(* _handle_permission and _handle_ask_user_question: the SDK may call them  *)
(* again while one waits.                                                   *)
Ask(r) ==
  /\ run[r] = "streaming" /\ made < MaxEvent
  /\ Enqueue(IF asking = {} THEN {"ask"} ELSE {"parallel"})
  /\ slot' = made'
  /\ asking' = asking \cup {made'}
  /\ UNCHANGED <<run, running, exit, answered, stream>>

(* approve_tool, deny_tool, answer_questions; resolving twice does nothing. *)
UserAnswers ==
  /\ Known
  /\ slot \in asking \ answered
  /\ answered' = answered \cup {slot}
  /\ UNCHANGED <<made, queue, run, running, exit, slot, asking, stream, missed,
                 happened>>

(* Mutant of AnswerTaken: the slot is left as it is. *)
AnswerKept(q) ==
  /\ q \in asking \cap answered
  /\ asking' = asking \ {q}
  /\ answered' = answered \ {q}
  /\ UNCHANGED <<made, queue, run, running, exit, slot, stream, missed,
                 happened>>

(* The callback wakes up and clears the slot, whosever it is by now.        *)
AnswerTaken(q) ==
  /\ q \in asking \cap answered
  /\ asking' = asking \ {q}
  /\ answered' = answered \ {q}
  /\ slot' = 0
  /\ UNCHANGED <<made, queue, run, running, exit, stream, missed, happened>>
-----------------------------------------------------------------------------
(* stop, called by stop_task after it has cancelled the monitor: interrupt  *)
(* and disconnect are awaited while the run goes on.                        *)
StopCalled ==
  /\ Known /\ run[1] # "idle"
  /\ Happens({"stop"})
  /\ stream' = "stopping"
  /\ UNCHANGED <<made, queue, run, running, exit, slot, asking, answered, missed>>

(* Only the latest run is cancelled: before its first step and while it     *)
(* puts the end marker, that leaves no marker behind.                       *)
Latest == IF run[2] = "idle" THEN 1 ELSE 2

StopCancels ==
  /\ stream = "stopping"
  /\ stream' = "cut"
  /\ asking' = {} /\ answered' = {}
  /\ IF run[Latest] \in {"streaming", "raised"}
     THEN run' = [run EXCEPT ![Latest] = "closing"] /\ running' = FALSE
     ELSE run' = [run EXCEPT ![Latest] = "done"] /\ UNCHANGED running
  /\ UNCHANGED <<made, queue, exit, slot, missed, happened>>

StopReturns ==
  /\ stream = "cut" /\ run[Latest] = "done"
  /\ stream' = "told"
  /\ running' = FALSE
  /\ exit' = -1
  /\ UNCHANGED <<made, queue, run, slot, asking, answered, happened>>
-----------------------------------------------------------------------------
(* stream_output *)
NextOutput ==
  /\ stream = "open" /\ queue # <<>>
  /\ queue' = Tail(queue)
  /\ UNCHANGED <<made, run, running, exit, slot, asking, answered, happened>>

(* Mutant of Heartbeat: it beats although there is output to read. *)
HeartbeatAnyway ==
  /\ stream = "open" /\ run[1] # "idle"
  /\ IF running THEN Happens({"idle"}) /\ made < MaxEvent
     ELSE UNCHANGED happened
  /\ made' = made + 1
  /\ stream' = IF running THEN "open" ELSE "over"
  /\ UNCHANGED <<queue, run, running, exit, slot, asking, answered>>

(* No output for five minutes: an event of its own, and the end of a stream *)
(* whose process does not run.                                              *)
Heartbeat ==
  /\ stream = "open" /\ queue = <<>> /\ run[1] # "idle"
  /\ IF running THEN Happens({"idle"}) /\ made < MaxEvent
     ELSE UNCHANGED happened
  /\ made' = made + 1
  /\ stream' = IF running THEN "open" ELSE "over"
  /\ UNCHANGED <<queue, run, running, exit, slot, asking, answered>>

RunStep(r) ==
  RunBegins(r) \/ Emit(r) \/ EmitResult(r) \/ StreamStops(r) \/ StreamRaises(r)
    \/ EmitError(r) \/ EnqueueEof(r) \/ Ask(r)
=============================================================================
