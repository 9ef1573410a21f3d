-------------------------- MODULE ConsultSessions --------------------------
(***************************************************************************)
(* The advisor: core/consult.py (ConsultSession, ConsultRegistry) with the *)
(* requests of web/app.py.  A session answers one message at a time; its   *)
(* query task puts the text of the answer and then the end marker into a   *)
(* bounded queue, and pages stream from that queue.  The registry keeps    *)
(* MaxSessions sessions and stops the one used least recently for a new    *)
(* one.                                                                    *)
(*                                                                         *)
(* Text is represented by the number of the message it answers.            *)
(***************************************************************************)
EXTENDS Integers, Sequences, FiniteSets, SequencesExt

CONSTANTS
  Tokens,       \* the sessions there ever are
  Pages,        \* pages that stream an answer
  MaxSessions,  \* ConsultRegistry._max_sessions
  AnswerMax,    \* maxsize of a session's queue
  MaxTurns      \* bound: messages to a session

ASSUME ConsultAssumption ==
  /\ {MaxSessions, AnswerMax} \subseteq Nat \ {0} /\ MaxTurns \in Nat
  /\ "none" \notin Tokens

VARIABLES
  sessions,   \* ConsultRegistry._sessions, by last_active, the oldest first
  used,       \* the tokens given away
  query,      \* the query task of a session
  isRunning,  \* ConsultSession._is_running
  answer,     \* ConsultSession._message_queue
  turn,       \* how many messages a session was sent
  sending,    \* sessions a send request has looked up but not used yet
  page,       \* what each page streams
  endless,    \* history: sessions whose query left no end marker
  got         \* history: the text a page was given, by turn

consultVars == <<sessions, used, query, isRunning, answer, turn, sending, page, endless, got>>

AnswerEnd == 0  \* _EOF

(* created: create_task, not begun; stopping: cancelled; over: returned,   *)
(* its done callback is still to be called.  A page is shared when another *)
(* one takes, or took the end, from the queue it streams.                  *)
QueryStates == {"none", "created", "running", "stopping", "over"}
Off == [session |-> "none", turn |-> 0, shared |-> FALSE]

ConsultInit ==
  /\ sessions = <<>> /\ used = {} /\ sending = {} /\ endless = {}
  /\ query = [t \in Tokens |-> "none"]
  /\ isRunning = [t \in Tokens |-> FALSE]
  /\ answer = [t \in Tokens |-> <<>>]
  /\ turn = [t \in Tokens |-> 0]
  /\ page = [g \in Pages |-> Off]
  /\ got = [g \in Pages |-> {}]

Live == ToSet(sessions)
Streams(g, t) == page[g].session = t
Asking(t) == query[t] \in {"created", "running", "stopping"}
-----------------------------------------------------------------------------
(* stop: a task that has not begun never will, so its finally clause does  *)
(* not run; a task that is over is left alone.                             *)
Stopped(ts) ==
  /\ query' = [t \in Tokens |->
       IF t \notin ts THEN query[t]
       ELSE CASE query[t] = "created" -> "over"
              [] query[t] = "running" -> "stopping"
              [] OTHER -> query[t]]
  /\ endless' = endless \cup {t \in ts : query[t] = "created"}

(* create: at capacity the session used least recently is evicted. *)
Create(t) ==
  LET full == Len(sessions) >= MaxSessions
      kept == IF full THEN Tail(sessions) ELSE sessions
  IN
  /\ t \notin used
  /\ used' = used \cup {t}
  /\ sessions' = Append(kept, t)
  /\ Stopped(IF full THEN {Head(sessions)} ELSE {})
  /\ UNCHANGED <<isRunning, answer, turn, sending, page, got>>

(* remove, when the page is closed. *)
RemoveSession(t) ==
  /\ t \in Live
  /\ sessions' = SelectSeq(sessions, LAMBDA u : u # t)
  /\ Stopped({t})
  /\ UNCHANGED <<used, isRunning, answer, turn, sending, page, got>>

(* sweep_expired: the n oldest are past their time to live. *)
SweepExpired(n) ==
  /\ n \in 1..Len(sessions)
  /\ sessions' = SubSeq(sessions, n + 1, Len(sessions))
  /\ Stopped(ToSet(SubSeq(sessions, 1, n)))
  /\ UNCHANGED <<used, isRunning, answer, turn, sending, page, got>>

(* api_send_consult looks the session up and then awaits the request body. *)
SendRequest(t) ==
  /\ t \in Live
  /\ t \notin sending
  /\ turn[t] < MaxTurns
  /\ sending' = sending \cup {t}
  /\ UNCHANGED <<sessions, used, query, isRunning, answer, turn, page, endless, got>>

Touched(t) == IF t \in Live THEN Append(SelectSeq(sessions, LAMBDA u : u # t), t) ELSE sessions

(* Mutant of Send: what is left in the queue stays there. *)
SendUndrained(t) ==
  /\ sending' = sending \ {t}
  /\ IF isRunning[t] THEN UNCHANGED <<sessions, query, isRunning, answer, turn, endless>>
     ELSE /\ sessions' = Touched(t)
          /\ isRunning' = [isRunning EXCEPT ![t] = TRUE]
          /\ query' = [query EXCEPT ![t] = "created"]
          /\ turn' = [turn EXCEPT ![t] = @ + 1]
          /\ endless' = endless \ {t}
          /\ UNCHANGED answer
  /\ UNCHANGED <<used, page, got>>

(* send: refused while a query runs; the queue is drained for the new one. *)
Send(t) ==
  /\ sending' = sending \ {t}
  /\ IF isRunning[t] THEN UNCHANGED <<sessions, query, isRunning, answer, turn, endless>>
     ELSE /\ sessions' = Touched(t)
          /\ isRunning' = [isRunning EXCEPT ![t] = TRUE]
          /\ query' = [query EXCEPT ![t] = "created"]
          /\ turn' = [turn EXCEPT ![t] = @ + 1]
          /\ answer' = [answer EXCEPT ![t] = <<>>]
          /\ endless' = endless \ {t}
  /\ UNCHANGED <<used, page, got>>

SendArrives(t) == t \in sending /\ Send(t)
-----------------------------------------------------------------------------
QueryBegins(t) ==
  /\ query[t] = "created"
  /\ query' = [query EXCEPT ![t] = "running"]
  /\ UNCHANGED <<sessions, used, isRunning, answer, turn, sending, page, endless, got>>

(* A text delta; put waits while the queue is full. *)
QueryAnswers(t) ==
  /\ query[t] = "running"
  /\ Len(answer[t]) < AnswerMax
  /\ answer' = [answer EXCEPT ![t] = Append(@, turn[t])]
  /\ UNCHANGED <<sessions, used, query, isRunning, turn, sending, page, endless, got>>

(* The result, an error or the cancellation: put_nowait of the end marker  *)
(* in the finally clause, which a full queue refuses.                      *)
QueryReturns(t) ==
  /\ query[t] \in {"running", "stopping"}
  /\ query' = [query EXCEPT ![t] = "over"]
  /\ IF Len(answer[t]) < AnswerMax
     THEN answer' = [answer EXCEPT ![t] = Append(@, AnswerEnd)] /\ UNCHANGED endless
     ELSE endless' = endless \cup {t} /\ UNCHANGED answer
  /\ UNCHANGED <<sessions, used, isRunning, turn, sending, page, got>>

(* _on_query_done *)
QueryDone(t) ==
  /\ query[t] = "over"
  /\ query' = [query EXCEPT ![t] = "none"]
  /\ isRunning' = [isRunning EXCEPT ![t] = FALSE]
  /\ UNCHANGED <<sessions, used, answer, turn, sending, page, endless, got>>
-----------------------------------------------------------------------------
(* sse_consult: a page streams once its message was accepted.  Two pages   *)
(* of one session (a duplicated tab) share the queue.                      *)
PageOpens(g, t) ==
  /\ page[g] = Off
  /\ t \in Live /\ turn[t] > 0
  /\ LET met == {h \in Pages : Streams(h, t)}
         again == AnswerEnd \notin ToSet(answer[t]) /\ ~ Asking(t)
     IN page' = [h \in Pages |->
          IF h = g THEN [session |-> t, turn |-> turn[t], shared |-> again \/ met # {}]
          ELSE IF h \in met THEN [page[h] EXCEPT !.shared = TRUE] ELSE page[h]]
  /\ got' = [got EXCEPT ![g] = {}]
  /\ UNCHANGED <<sessions, used, query, isRunning, answer, turn, sending, endless>>

(* stream_response: the next chunk, or the end of the stream. *)
PageReads(g, t) ==
  /\ Streams(g, t)
  /\ answer[t] # <<>>
  /\ answer' = [answer EXCEPT ![t] = Tail(@)]
  /\ IF Head(answer[t]) = AnswerEnd
     THEN page' = [page EXCEPT ![g] = Off] /\ UNCHANGED got
     ELSE got' = [got EXCEPT ![g] = @ \cup {Head(answer[t])}] /\ UNCHANGED page
  /\ UNCHANGED <<sessions, used, query, isRunning, turn, sending, endless>>

PageDisconnects(g) ==
  /\ page[g] # Off
  /\ page' = [page EXCEPT ![g] = Off]
  /\ UNCHANGED <<sessions, used, query, isRunning, answer, turn, sending, endless, got>>

ConsultNext ==
  \/ \E t \in Tokens :
       \/ Create(t) \/ RemoveSession(t) \/ SendRequest(t) \/ SendArrives(t)
       \/ QueryBegins(t) \/ QueryAnswers(t) \/ QueryReturns(t) \/ QueryDone(t)
  \/ \E n \in 1..MaxSessions : SweepExpired(n)
  \/ \E g \in Pages : (\E t \in Tokens : PageOpens(g, t) \/ PageReads(g, t)) \/ PageDisconnects(g)

ConsultSpec == ConsultInit /\ [][ConsultNext]_consultVars
-----------------------------------------------------------------------------
(* A page is never given a part of an older answer than the one it opened  *)
(* for, whatever an earlier page left in the queue.                        *)
AnswersApart == \A g \in Pages : \A k \in got[g] : k >= page[g].turn

(* A page that streams alone will come to an end marker: it is in the      *)
(* queue, or a query that puts it is under way; but for a query cancelled  *)
(* before it began, and an end that met a full queue.                      *)
EndComes ==
  \A g \in Pages : page[g] # Off /\ ~ page[g].shared =>
    LET t == page[g].session IN
    AnswerEnd \in ToSet(answer[t]) \/ Asking(t) \/ t \in endless

(* Both, for every page, through evictions, expiry, two tabs and messages  *)
(* sent while an answer streams.                                           *)
PagesServed == AnswersApart /\ EndComes
=============================================================================
