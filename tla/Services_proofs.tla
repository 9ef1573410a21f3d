--------------------------- MODULE Services_proofs ---------------------------
(***************************************************************************)
(* Theorems about three services that share no state: the advisor's        *)
(* sessions, the state tracker and the sessions of the database.           *)
(*                                                                         *)
(* ConsultSessions: pages are served, for any number of sessions, pages    *)
(* and messages and queues of any size.  The queue of a session holds text *)
(* of its newest message only, which is no older than what a page has      *)
(* opened for; and whoever streams alone is the one to take the end        *)
(* marker.                                                                 *)
(*                                                                         *)
(* StateTracker: events that name their project are counted exactly once,  *)
(* whatever the number of events.  An event is in one place at a time.     *)
(* What the tracker drops is a get() answered while an event is in the     *)
(* database session; that event is a failure, whose own get() keeps the    *)
(* queue of failures from being asked again in this round.                 *)
(*                                                                         *)
(* SessionPool: database sessions are atomic, for a pool of any size and   *)
(* any number of sessions and writes.  A connection is in the pool, or     *)
(* with one borrower; its open transaction holds the writes of that        *)
(* borrower, all of them, and else only writes of sessions that were       *)
(* cancelled.                                                              *)
(***************************************************************************)
EXTENDS ConsultSessions, StateTracker, SessionPool, TLAPS
-----------------------------------------------------------------------------
(* The sessions of the advisor.                                            *)

PageType == {Off} \cup [session : Tokens, turn : Nat, shared : BOOLEAN]

ConsultTypes ==
  /\ query \in [Tokens -> QueryStates]
  /\ answer \in [Tokens -> Seq(Nat)]
  /\ turn \in [Tokens -> Nat]
  /\ page \in [Pages -> PageType]
  /\ got \in [Pages -> SUBSET Nat]

HasEnd(t) == AnswerEnd \in ToSet(answer[t])

(* What is in a queue belongs to the newest message, and no page has opened *)
(* for a later one.                                                         *)
Current ==
  /\ \A t \in Tokens : ToSet(answer[t]) \subseteq {AnswerEnd, turn[t]}
  /\ \A g \in Pages, t \in Tokens : Streams(g, t) => page[g].turn <= turn[t]

(* Two pages of one session know of each other. *)
Paired ==
  \A g, h \in Pages, t \in Tokens :
    g # h /\ Streams(g, t) /\ Streams(h, t) => page[g].shared

Ending ==
  \A g \in Pages, t \in Tokens :
    Streams(g, t) /\ ~ page[g].shared => HasEnd(t) \/ Asking(t) \/ t \in endless

ConsultInv == ConsultTypes /\ Current /\ Paired /\ Ending /\ AnswersApart

LEMMA OffIsNoSession ==
  /\ Off \in PageType /\ Off.turn = 0
  /\ \A g \in Pages, t \in Tokens : Streams(g, t) => page[g] # Off
BY ConsultAssumption DEF Off, PageType, Streams

LEMMA ToSetAppend ==
  ASSUME NEW s \in Seq(Nat), NEW n \in Nat
  PROVE  Append(s, n) \in Seq(Nat) /\ ToSet(Append(s, n)) = ToSet(s) \cup {n}
<1>1. /\ Append(s, n) \in Seq(Nat) /\ Len(s) \in Nat
      /\ DOMAIN s = 1..Len(s) /\ DOMAIN Append(s, n) = 1..Len(s) \cup {Len(s) + 1}
      /\ Append(s, n)[Len(s) + 1] = n
      /\ \A i \in 1..Len(s) : Append(s, n)[i] = s[i]
  OBVIOUS
<1> QED
  BY <1>1 DEF ToSet

LEMMA ToSetTail ==
  ASSUME NEW s \in Seq(Nat), s # <<>>
  PROVE  /\ Tail(s) \in Seq(Nat) /\ Head(s) \in ToSet(s) /\ Head(s) \in Nat
         /\ ToSet(Tail(s)) \subseteq ToSet(s) /\ ToSet(s) \subseteq ToSet(Tail(s)) \cup {Head(s)}
<1>1. /\ Tail(s) \in Seq(Nat) /\ Head(s) = s[1] /\ Len(s) \in Nat \ {0}
      /\ Len(Tail(s)) = Len(s) - 1
      /\ DOMAIN s = 1..Len(s) /\ DOMAIN Tail(s) = 1..Len(Tail(s))
  OBVIOUS
<1>2. \A i \in 1..Len(Tail(s)) : Tail(s)[i] = s[i + 1] /\ i + 1 \in 1..Len(s)
  BY <1>1
<1>3. s[1] \in Nat /\ 1 \in 1..Len(s)
  BY <1>1
<1>4. ToSet(Tail(s)) \subseteq ToSet(s)
  BY <1>1, <1>2 DEF ToSet
<1>5. \A i \in 1..Len(s) : s[i] = s[1] \/ s[i] \in ToSet(Tail(s))
  <2> TAKE i \in 1..Len(s)
  <2>1. CASE i = 1
    BY <2>1
  <2>2. CASE i # 1
    <3>1. i - 1 \in 1..Len(Tail(s)) /\ (i - 1) + 1 = i
      BY <2>2, <1>1
    <3>2. Tail(s)[i - 1] = s[i]
      BY <3>1, <1>2
    <3> QED
      BY <3>1, <3>2, <1>1 DEF ToSet
  <2> QED
    BY <2>1, <2>2
<1> QED
  BY <1>1, <1>3, <1>4, <1>5 DEF ToSet

LEMMA InitConsult == ConsultInit => ConsultInv
<1> SUFFICES ASSUME ConsultInit PROVE ConsultInv
  OBVIOUS
<1>1. \A g \in Pages, t \in Tokens : ~ Streams(g, t)
  BY OffIsNoSession DEF ConsultInit
<1>2. ConsultTypes
  BY OffIsNoSession DEF ConsultInit, ConsultTypes, QueryStates
<1>3. Current
  <2>1. \A t \in Tokens : ToSet(answer[t]) = {}
    BY DEF ConsultInit, ToSet
  <2> QED
    BY <1>1, <2>1 DEF Current
<1> QED
  BY <1>1, <1>2, <1>3 DEF ConsultInv, Paired, Ending, AnswersApart, ConsultInit

(* Steps that touch neither queues nor pages, and end no query without     *)
(* saying so.                                                              *)
LEMMA AsideKeeps ==
  ASSUME ConsultInv, UNCHANGED <<answer, turn, page, got>>,
         query' \in [Tokens -> QueryStates],
         \A t \in Tokens : Asking(t) \/ t \in endless => Asking(t)' \/ t \in endless'
  PROVE  ConsultInv'
<1>1. \A g \in Pages, t \in Tokens : Streams(g, t)' <=> Streams(g, t)
  BY DEF Streams
<1>2. \A t \in Tokens : HasEnd(t)' <=> HasEnd(t)
  BY DEF HasEnd
<1>3. ConsultTypes'
  BY DEF ConsultInv, ConsultTypes
<1>4. Current' /\ Paired'
  BY <1>1 DEF ConsultInv, Current, Paired
<1>5. Ending'
  BY <1>1, <1>2 DEF ConsultInv, Ending
<1>6. AnswersApart'
  BY DEF ConsultInv, AnswersApart
<1> QED
  BY <1>3, <1>4, <1>5, <1>6 DEF ConsultInv

LEMMA StoppedQuery ==
  ASSUME ConsultInv, NEW ts, Stopped(ts)
  PROVE  /\ query' \in [Tokens -> QueryStates]
         /\ \A t \in Tokens : Asking(t) \/ t \in endless => Asking(t)' \/ t \in endless'
<1>1. ASSUME NEW t \in Tokens
      PROVE  /\ query'[t] \in QueryStates
             /\ query'[t] = query[t] \/ (query[t] = "running" /\ query'[t] = "stopping")
                  \/ (query[t] = "created" /\ t \in endless')
  <2>1. query[t] \in QueryStates
    BY DEF ConsultInv, ConsultTypes
  <2>2. query'[t] = IF t \notin ts THEN query[t]
                    ELSE CASE query[t] = "created" -> "over"
                           [] query[t] = "running" -> "stopping"
                           [] OTHER -> query[t]
    BY DEF Stopped
  <2>3. t \in ts /\ query[t] = "created" => t \in endless'
    BY DEF Stopped
  <2> QED
    BY <2>1, <2>2, <2>3 DEF QueryStates
<1>2. endless \subseteq endless'
  BY DEF Stopped
<1>3. query' \in [Tokens -> QueryStates]
  <2>1. DOMAIN query' = Tokens /\ query' = [t \in Tokens |-> query'[t]]
    BY DEF Stopped
  <2> QED
    BY <1>1, <2>1
<1> QED
  BY <1>1, <1>2, <1>3 DEF Asking

LEMMA QuietKeeps ==
  ASSUME ConsultInv, NEW t \in Tokens,
         Create(t) \/ RemoveSession(t) \/ SendRequest(t) \/ QueryBegins(t) \/ QueryDone(t)
  PROVE  ConsultInv'
<1>1. UNCHANGED <<answer, turn, page, got>>
  BY DEF Create, RemoveSession, SendRequest, QueryBegins, QueryDone
<1>2. CASE Create(t) \/ RemoveSession(t)
  <2>1. \E ts : Stopped(ts)
    BY <1>2 DEF Create, RemoveSession
  <2> QED
    BY <1>1, <2>1, StoppedQuery, AsideKeeps
<1>3. CASE SendRequest(t) \/ QueryBegins(t) \/ QueryDone(t)
  <2>1. query' \in [Tokens -> QueryStates] /\ endless' = endless
    BY <1>3 DEF SendRequest, QueryBegins, QueryDone, ConsultInv, ConsultTypes, QueryStates
  <2>2. \A u \in Tokens : Asking(u) => Asking(u)'
    BY <1>3 DEF SendRequest, QueryBegins, QueryDone, ConsultInv, ConsultTypes, Asking
  <2> QED
    BY <1>1, <2>1, <2>2, AsideKeeps
<1> QED
  BY <1>2, <1>3

LEMMA SweepKeeps ==
  ASSUME ConsultInv, NEW n \in 1..MaxSessions, SweepExpired(n)
  PROVE  ConsultInv'
<1>1. UNCHANGED <<answer, turn, page, got>> /\ \E ts : Stopped(ts)
  BY DEF SweepExpired
<1> QED
  BY <1>1, StoppedQuery, AsideKeeps

(* A new message empties the queue, and its query will put the end. *)
LEMMA SendKeeps ==
  ASSUME ConsultInv, NEW t \in Tokens, Send(t)
  PROVE  ConsultInv'
<1>1. CASE isRunning[t]
  <2>1. UNCHANGED <<query, answer, turn, endless, page, got>>
    BY <1>1 DEF Send
  <2> QED
    BY <2>1, AsideKeeps DEF ConsultInv, ConsultTypes, Asking
<1>2. CASE ~ isRunning[t]
  <2>1. /\ query' = [query EXCEPT ![t] = "created"] /\ turn' = [turn EXCEPT ![t] = @ + 1]
        /\ answer' = [answer EXCEPT ![t] = <<>>] /\ endless' = endless \ {t}
        /\ page' = page /\ got' = got
    BY <1>2 DEF Send
  <2>2. /\ query'[t] = "created" /\ turn'[t] = turn[t] + 1 /\ answer'[t] = <<>> /\ turn[t] \in Nat
        /\ \A u \in Tokens \ {t} : /\ query'[u] = query[u] /\ turn'[u] = turn[u]
                                   /\ answer'[u] = answer[u]
    BY <2>1 DEF ConsultInv, ConsultTypes
  <2>3. ConsultTypes'
    BY <2>1 DEF ConsultInv, ConsultTypes, QueryStates
  <2>4. \A g \in Pages, u \in Tokens : Streams(g, u)' <=> Streams(g, u)
    BY <2>1 DEF Streams
  <2>5. Current'
    <3>1. ToSet(answer'[t]) = {}
      BY <2>2 DEF ToSet
    <3>2. \A u \in Tokens : ToSet(answer'[u]) \subseteq {AnswerEnd, turn'[u]}
      BY <2>2, <3>1 DEF ConsultInv, Current
    <3>3. ASSUME NEW g \in Pages, NEW u \in Tokens, Streams(g, u)
          PROVE  page[g].turn <= turn'[u]
      <4>1. page[g].turn \in Nat /\ turn[u] \in Nat /\ page[g].turn <= turn[u]
        BY <3>3, OffIsNoSession DEF ConsultInv, ConsultTypes, Current, PageType
      <4> QED
        BY <4>1, <2>2
    <3> QED
      BY <2>1, <2>4, <3>2, <3>3 DEF Current
  <2>6. Paired' /\ AnswersApart'
    BY <2>1, <2>4 DEF ConsultInv, Paired, AnswersApart
  <2>7. Ending'
    <3>1. Asking(t)'
      BY <2>2 DEF Asking
    <3>2. ASSUME NEW u \in Tokens \ {t}
          PROVE  (HasEnd(u) \/ Asking(u) \/ u \in endless)
                   => (HasEnd(u) \/ Asking(u) \/ u \in endless)'
      BY <2>1, <2>2 DEF HasEnd, Asking
    <3> QED
      BY <2>1, <2>4, <3>1, <3>2 DEF ConsultInv, Ending
  <2> QED
    BY <2>3, <2>5, <2>6, <2>7 DEF ConsultInv
<1> QED
  BY <1>1, <1>2

(* The query adds text of its message, and in the end the marker. *)
LEMMA QueryKeeps ==
  ASSUME ConsultInv, NEW t \in Tokens, QueryAnswers(t) \/ QueryReturns(t)
  PROVE  ConsultInv'
<1>1. /\ UNCHANGED <<turn, page, got>> /\ endless \subseteq endless'
      /\ answer' = answer \/ answer' = [answer EXCEPT ![t] = Append(@, turn[t])]
           \/ answer' = [answer EXCEPT ![t] = Append(@, AnswerEnd)]
      /\ query' = query \/ query' = [query EXCEPT ![t] = "over"]
  BY DEF QueryAnswers, QueryReturns
<1>2. /\ turn[t] \in Nat /\ AnswerEnd \in Nat /\ answer[t] \in Seq(Nat)
      /\ \A u \in Tokens \ {t} : answer'[u] = answer[u] /\ query'[u] = query[u]
  BY <1>1 DEF ConsultInv, ConsultTypes, AnswerEnd
<1>3. /\ answer'[t] \in Seq(Nat) /\ ToSet(answer[t]) \subseteq ToSet(answer'[t])
      /\ ToSet(answer'[t]) \subseteq ToSet(answer[t]) \cup {turn[t], AnswerEnd}
  <2>1. CASE answer' = answer
    BY <2>1, <1>2
  <2>2. CASE answer' = [answer EXCEPT ![t] = Append(@, turn[t])]
    <3>1. answer'[t] = Append(answer[t], turn[t])
      BY <2>2 DEF ConsultInv, ConsultTypes
    <3> QED
      BY <3>1, <1>2, ToSetAppend
  <2>3. CASE answer' = [answer EXCEPT ![t] = Append(@, AnswerEnd)]
    <3>1. answer'[t] = Append(answer[t], AnswerEnd)
      BY <2>3 DEF ConsultInv, ConsultTypes
    <3> QED
      BY <3>1, <1>2, ToSetAppend
  <2> QED
    BY <1>1, <2>1, <2>2, <2>3
<1>4. ConsultTypes'
  <2>1. answer' \in [Tokens -> Seq(Nat)]
    <3>1. answer' = [answer EXCEPT ![t] = answer'[t]]
      BY <1>1 DEF ConsultInv, ConsultTypes
    <3> QED
      BY <3>1, <1>3 DEF ConsultInv, ConsultTypes
  <2>2. query' \in [Tokens -> QueryStates]
    BY <1>1 DEF ConsultInv, ConsultTypes, QueryStates
  <2> QED
    BY <1>1, <2>1, <2>2 DEF ConsultInv, ConsultTypes
<1>5. \A g \in Pages, u \in Tokens : Streams(g, u)' <=> Streams(g, u)
  BY <1>1 DEF Streams
<1>6. Current'
  <2>1. \A u \in Tokens : ToSet(answer'[u]) \subseteq {AnswerEnd, turn[u]}
    BY <1>2, <1>3 DEF ConsultInv, Current
  <2> QED
    BY <1>1, <1>5, <2>1 DEF ConsultInv, Current
<1>7. Paired' /\ AnswersApart'
  BY <1>1, <1>5 DEF ConsultInv, Paired, AnswersApart
<1>8. Ending'
  <2>1. ASSUME NEW u \in Tokens, HasEnd(u) \/ Asking(u) \/ u \in endless
        PROVE  (HasEnd(u) \/ Asking(u) \/ u \in endless)'
    <3>1. CASE u # t
      BY <2>1, <3>1, <1>1, <1>2 DEF HasEnd, Asking
    <3>2. CASE u = t /\ ~ Asking(t)
      BY <2>1, <3>2, <1>1, <1>3 DEF HasEnd
    <3>3. CASE u = t /\ QueryAnswers(t)
      <4>1. query' = query
        BY <3>3 DEF QueryAnswers
      <4> QED
        BY <2>1, <3>3, <4>1, <1>1, <1>3 DEF HasEnd, Asking
    <3>4. CASE u = t /\ QueryReturns(t)
      <4>1. CASE Len(answer[t]) < AnswerMax
        <5>1. answer'[t] = Append(answer[t], AnswerEnd)
          BY <3>4, <4>1 DEF QueryReturns, ConsultInv, ConsultTypes
        <5> QED
          BY <3>4, <5>1, <1>2, ToSetAppend DEF HasEnd
      <4>2. CASE ~ (Len(answer[t]) < AnswerMax)
        BY <3>4, <4>2 DEF QueryReturns
      <4> QED
        BY <4>1, <4>2
    <3> QED
      BY <3>1, <3>2, <3>3, <3>4
  <2> QED
    BY <1>1, <1>5, <2>1 DEF ConsultInv, Ending
<1> QED
  BY <1>4, <1>6, <1>7, <1>8 DEF ConsultInv

(* A page opens for the newest message; if another one streams the same    *)
(* session, or took its end already, both are marked.                      *)
LEMMA OpenKeeps ==
  ASSUME ConsultInv, NEW g \in Pages, NEW t \in Tokens, PageOpens(g, t)
  PROVE  ConsultInv'
<1> DEFINE met == {h \in Pages : Streams(h, t)}
           again == ~ HasEnd(t) /\ ~ Asking(t)
           new == [session |-> t, turn |-> turn[t], shared |-> again \/ met # {}]
<1>1. /\ page' = [h \in Pages |-> IF h = g THEN new
                   ELSE IF h \in met THEN [page[h] EXCEPT !.shared = TRUE] ELSE page[h]]
      /\ got' = [got EXCEPT ![g] = {}]
      /\ UNCHANGED <<query, answer, turn, endless>>
  BY DEF PageOpens, HasEnd
<1>2. /\ page'[g] = new
      /\ \A h \in Pages \ {g} :
           page'[h] = IF h \in met THEN [page[h] EXCEPT !.shared = TRUE] ELSE page[h]
  BY <1>1
<1>3. new \in PageType /\ new.session = t /\ new.turn = turn[t]
      /\ new.shared = (again \/ met # {})
  BY DEF ConsultInv, ConsultTypes, PageType
<1>4. ASSUME NEW h \in met
      PROVE  /\ page[h] \in [session : Tokens, turn : Nat, shared : BOOLEAN]
             /\ [page[h] EXCEPT !.shared = TRUE] \in PageType
             /\ [page[h] EXCEPT !.shared = TRUE].shared
             /\ [page[h] EXCEPT !.shared = TRUE].session = page[h].session
             /\ [page[h] EXCEPT !.shared = TRUE].turn = page[h].turn
  <2>1. page[h] \in [session : Tokens, turn : Nat, shared : BOOLEAN]
    BY OffIsNoSession DEF ConsultInv, ConsultTypes, PageType
  <2> QED
    BY <2>1 DEF PageType
<1>5. \A h \in Pages \ {g} : /\ page'[h].session = page[h].session
                             /\ page'[h].turn = page[h].turn
                             /\ page'[h] \in PageType
                             /\ h \in met => page'[h].shared
                             /\ h \notin met => page'[h] = page[h]
  BY <1>2, <1>4 DEF ConsultInv, ConsultTypes
<1>6. ConsultTypes'
  <2>1. page' \in [Pages -> PageType]
    BY <1>1, <1>2, <1>3, <1>5
  <2> QED
    BY <1>1, <2>1 DEF ConsultInv, ConsultTypes
<1>7. /\ \A h \in Pages \ {g}, u \in Tokens : Streams(h, u)' <=> Streams(h, u)
      /\ \A u \in Tokens : Streams(g, u)' <=> u = t
  BY <1>2, <1>3, <1>5 DEF Streams
<1>8. Current'
  <2>1. ASSUME NEW h \in Pages, NEW u \in Tokens, Streams(h, u)'
        PROVE  page'[h].turn <= turn[u]
    <3>1. CASE h = g
      BY <2>1, <3>1, <1>2, <1>3, <1>7 DEF ConsultInv, ConsultTypes
    <3>2. CASE h # g
      BY <2>1, <3>2, <1>5, <1>7 DEF ConsultInv, Current
    <3> QED
      BY <3>1, <3>2
  <2> QED
    BY <1>1, <2>1 DEF ConsultInv, Current
<1>9. Paired'
  <2>1. ASSUME NEW h \in Pages, NEW k \in Pages, NEW u \in Tokens, h # k,
               Streams(h, u)', Streams(k, u)'
        PROVE  page'[h].shared
    <3>1. CASE h = g
      <4>1. u = t /\ k # g /\ k \in met
        BY <2>1, <3>1, <1>7
      <4> QED
        BY <4>1, <3>1, <1>2, <1>3
    <3>2. CASE h # g /\ k = g
      <4>1. h \in met
        BY <2>1, <3>2, <1>7
      <4> QED
        BY <4>1, <3>2, <1>5
    <3>3. CASE h # g /\ k # g
      <4>1. page[h].shared
        BY <2>1, <3>3, <1>7 DEF ConsultInv, Paired
      <4> QED
        BY <4>1, <3>3, <1>5
    <3> QED
      BY <3>1, <3>2, <3>3
  <2> QED
    BY <2>1 DEF Paired
<1>10. Ending'
  <2>1. ASSUME NEW h \in Pages, NEW u \in Tokens, Streams(h, u)', ~ page'[h].shared
        PROVE  HasEnd(u) \/ Asking(u) \/ u \in endless
    <3>1. CASE h = g
      BY <2>1, <3>1, <1>2, <1>3, <1>7
    <3>2. CASE h # g
      BY <2>1, <3>2, <1>5, <1>7 DEF ConsultInv, Ending
    <3> QED
      BY <3>1, <3>2
  <2> QED
    BY <1>1, <2>1 DEF Ending, HasEnd, Asking
<1>11. AnswersApart'
  <2>1. \A h \in Pages \ {g} : got'[h] = got[h]
    BY <1>1 DEF ConsultInv, ConsultTypes
  <2>2. got'[g] = {}
    BY <1>1 DEF ConsultInv, ConsultTypes
  <2> QED
    BY <1>5, <2>1, <2>2 DEF ConsultInv, AnswersApart
<1> QED
  BY <1>6, <1>8, <1>9, <1>10, <1>11 DEF ConsultInv

(* A page that is closed, by its reader or by the end marker. *)
LEMMA CloseKeeps ==
  ASSUME ConsultInv, NEW g \in Pages, page' = [page EXCEPT ![g] = Off],
         UNCHANGED <<query, turn, endless, got>>,
         answer' \in [Tokens -> Seq(Nat)],
         \A t \in Tokens : ToSet(answer'[t]) \subseteq ToSet(answer[t]),
         \A t \in Tokens : answer'[t] # answer[t] => Streams(g, t)
  PROVE  ConsultInv'
<1>1. page'[g] = Off /\ \A h \in Pages \ {g} : page'[h] = page[h]
  BY DEF ConsultInv, ConsultTypes
<1>2. /\ \A t \in Tokens : ~ Streams(g, t)'
      /\ \A h \in Pages \ {g}, t \in Tokens : Streams(h, t)' <=> Streams(h, t)
  BY <1>1, ConsultAssumption DEF Streams, Off
<1>3. ConsultTypes'
  BY OffIsNoSession DEF ConsultInv, ConsultTypes
<1>4. Current'
  BY <1>1, <1>2 DEF ConsultInv, Current
<1>5. Paired'
  BY <1>1, <1>2 DEF ConsultInv, Paired
<1>6. Ending'
  <2>1. ASSUME NEW h \in Pages, NEW t \in Tokens, Streams(h, t)', ~ page'[h].shared
        PROVE  (HasEnd(t) \/ Asking(t) \/ t \in endless)'
    <3>1. h # g /\ Streams(h, t) /\ ~ page[h].shared
      BY <2>1, <1>1, <1>2
    <3>2. ~ Streams(g, t)
      BY <3>1 DEF ConsultInv, Paired
    <3>3. answer'[t] = answer[t]
      BY <3>2
    <3> QED
      BY <3>1, <3>3 DEF ConsultInv, Ending, HasEnd, Asking
  <2> QED
    BY <2>1 DEF Ending
<1>7. AnswersApart'
  <2>1. ASSUME NEW h \in Pages, NEW k \in got[h] PROVE k >= page'[h].turn
    <3>1. k \in Nat
      BY DEF ConsultInv, ConsultTypes
    <3> QED
      BY <3>1, <1>1, OffIsNoSession DEF ConsultInv, AnswersApart
  <2> QED
    BY <2>1 DEF AnswersApart
<1> QED
  BY <1>3, <1>4, <1>5, <1>6, <1>7 DEF ConsultInv

LEMMA ReadKeeps ==
  ASSUME ConsultInv, NEW g \in Pages, NEW t \in Tokens, PageReads(g, t)
  PROVE  ConsultInv'
<1>1. /\ Streams(g, t) /\ answer[t] # <<>> /\ answer[t] \in Seq(Nat)
      /\ answer' = [answer EXCEPT ![t] = Tail(@)]
      /\ UNCHANGED <<query, turn, endless>>
  BY DEF PageReads, ConsultInv, ConsultTypes
<1>2. /\ answer'[t] = Tail(answer[t]) /\ \A u \in Tokens \ {t} : answer'[u] = answer[u]
  BY <1>1 DEF ConsultInv, ConsultTypes
<1>3. PICK x : x = Head(answer[t])
  OBVIOUS
<1>4. /\ Tail(answer[t]) \in Seq(Nat) /\ x \in Nat /\ x \in ToSet(answer[t])
      /\ ToSet(answer'[t]) \subseteq ToSet(answer[t])
      /\ ToSet(answer[t]) \subseteq ToSet(answer'[t]) \cup {x}
  BY <1>1, <1>2, <1>3, ToSetTail
<1>5. answer' \in [Tokens -> Seq(Nat)]
  BY <1>1, <1>4 DEF ConsultInv, ConsultTypes
<1>6. CASE x = AnswerEnd
  <2>1. page' = [page EXCEPT ![g] = Off] /\ got' = got
    BY <1>3, <1>6 DEF PageReads
  <2>2. \A u \in Tokens : ToSet(answer'[u]) \subseteq ToSet(answer[u])
    BY <1>2, <1>4
  <2>3. \A u \in Tokens : answer'[u] # answer[u] => Streams(g, u)
    BY <1>1, <1>2
  <2> QED
    BY <1>1, <1>5, <2>1, <2>2, <2>3, CloseKeeps
<1>7. CASE x # AnswerEnd
  <2>1. page' = page /\ got' = [got EXCEPT ![g] = @ \cup {x}]
    BY <1>3, <1>7 DEF PageReads
  <2>2. ConsultTypes'
    BY <1>1, <1>4, <1>5, <2>1 DEF ConsultInv, ConsultTypes
  <2>3. \A h \in Pages, u \in Tokens : Streams(h, u)' <=> Streams(h, u)
    BY <2>1 DEF Streams
  <2>4. Current'
    <3>1. \A u \in Tokens : ToSet(answer'[u]) \subseteq {AnswerEnd, turn[u]}
      BY <1>2, <1>4 DEF ConsultInv, Current
    <3> QED
      BY <1>1, <2>1, <2>3, <3>1 DEF ConsultInv, Current
  <2>5. Paired'
    BY <2>1, <2>3 DEF ConsultInv, Paired
  <2>6. Ending'
    <3>1. \A u \in Tokens : HasEnd(u) => HasEnd(u)'
      BY <1>2, <1>4, <1>7 DEF HasEnd
    <3>2. \A u \in Tokens : Asking(u) \/ u \in endless => (Asking(u) \/ u \in endless)'
      BY <1>1 DEF Asking
    <3> QED
      BY <2>1, <2>3, <3>1, <3>2 DEF ConsultInv, Ending
  <2>7. AnswersApart'
    <3>1. x = turn[t]
      BY <1>4, <1>7 DEF ConsultInv, Current
    <3>2. page[g].turn <= turn[t] /\ turn[t] \in Nat /\ page[g].turn \in Nat
      BY <1>1, OffIsNoSession DEF ConsultInv, Current, ConsultTypes, PageType
    <3>3. /\ got'[g] = got[g] \cup {x}
          /\ \A h \in Pages \ {g} : got'[h] = got[h]
      BY <2>1 DEF ConsultInv, ConsultTypes
    <3> QED
      BY <2>1, <3>1, <3>2, <3>3 DEF ConsultInv, AnswersApart
  <2> QED
    BY <2>2, <2>4, <2>5, <2>6, <2>7 DEF ConsultInv
<1> QED
  BY <1>6, <1>7

LEMMA DisconnectKeeps ==
  ASSUME ConsultInv, NEW g \in Pages, PageDisconnects(g)
  PROVE  ConsultInv'
<1>1. /\ page' = [page EXCEPT ![g] = Off] /\ UNCHANGED <<query, turn, endless, got, answer>>
  BY DEF PageDisconnects
<1> QED
  BY <1>1, CloseKeeps DEF ConsultInv, ConsultTypes

(* Queues, pages and queries keep their account. *)
THEOREM ConsultInvariant == ConsultSpec => []ConsultInv
<1>1. ConsultInv /\ [ConsultNext]_consultVars => ConsultInv'
  <2> SUFFICES ASSUME ConsultInv, [ConsultNext]_consultVars PROVE ConsultInv'
    OBVIOUS
  <2>1. CASE UNCHANGED consultVars
    BY <2>1, AsideKeeps DEF consultVars, ConsultInv, ConsultTypes, Asking
  <2>2. ASSUME NEW t \in Tokens,
               \/ Create(t) \/ RemoveSession(t) \/ SendRequest(t) \/ SendArrives(t)
               \/ QueryBegins(t) \/ QueryAnswers(t) \/ QueryReturns(t) \/ QueryDone(t)
        PROVE  ConsultInv'
    BY <2>2, QuietKeeps, SendKeeps, QueryKeeps DEF SendArrives
  <2>3. ASSUME NEW g \in Pages,
               (\E t \in Tokens : PageOpens(g, t) \/ PageReads(g, t)) \/ PageDisconnects(g)
        PROVE  ConsultInv'
    BY <2>3, OpenKeeps, ReadKeeps, DisconnectKeeps
  <2> QED
    BY <2>1, <2>2, <2>3, SweepKeeps DEF ConsultNext
<1> QED
  BY <1>1, InitConsult, PTL DEF ConsultSpec

(* A page of the advisor (core/consult.py stream_response) is given its    *)
(* own answer and comes to its end, through evictions, expiry, duplicated  *)
(* tabs and messages sent meanwhile.                                       *)
THEOREM AnswersServed == ConsultSpec => []PagesServed
<1>1. ConsultInv => PagesServed
  <2> SUFFICES ASSUME ConsultInv, NEW g \in Pages, page[g] # Off, ~ page[g].shared
               PROVE  LET t == page[g].session IN
                      AnswerEnd \in ToSet(answer[t]) \/ Asking(t) \/ t \in endless
    BY DEF PagesServed, EndComes, ConsultInv
  <2>1. page[g].session \in Tokens
    BY DEF ConsultInv, ConsultTypes, PageType
  <2> QED
    BY <2>1 DEF ConsultInv, Ending, Streams, HasEnd
<1> QED
  BY <1>1, ConsultInvariant, PTL

-----------------------------------------------------------------------------
(* The state tracker.                                                      *)

Known == 1..Len(events)

TrackerTypes ==
  /\ events \in Seq(Sources) /\ Len(events) <= MaxEvents
  /\ box \in [Topics -> Seq(Known)]
  /\ round \in {"off", "wait", "handle", "drain"}
  /\ getting \subseteq Known /\ done \subseteq Known /\ hand \subseteq Known
  /\ counted \in [Event -> Nat]

Items(s) == {s[i] : i \in 1..Len(s)}

Rising(s) == \A i, j \in 1..Len(s) : i < j => s[i] < s[j]

(* A queue has events of its topic, in the order of their publication. *)
Boxes ==
  \A q \in Topics : Rising(box[q]) /\ \A e \in Items(box[q]) : Topic(events[e]) = q

(* What the tracker is doing with the events it has in a round. *)
Rounds ==
  /\ round = "off" => /\ getting = {} /\ done = {} /\ hand = {}
                      /\ \A q \in Topics : box[q] = <<>>
  /\ round = "wait" => done = {} /\ hand = {}
  /\ round = "handle" => done \cup hand \subseteq getting /\ done \cap hand = {}
  /\ round = "drain" => getting = {} /\ done = {}
  /\ \A e, f \in getting : Topic(events[e]) = Topic(events[f]) => e = f
  /\ \A e \in hand : NamesProject(events[e])
  /\ \A q \in Topics : Items(box[q]) \cap (getting \cup hand) = {}

Unread(e) == \E q \in Topics : e \in Items(box[q])
InHand(e) == e \in done \cup hand \/ (e \in getting /\ round = "wait")

(* An event is on its way and not counted, or counted once. *)
Account ==
  /\ \A e \in Event : e > Len(events) => counted[e] = 0
  /\ \A e \in Known \ excepted : NamesProject(events[e]) =>
       counted[e] = IF Unread(e) \/ InHand(e) THEN 0 ELSE 1

TrackerInv == TrackerTypes /\ Boxes /\ Rounds /\ Account

LEMMA TopicOfFailures ==
  \A s \in Sources : Topic(s) \in Topics /\ (NamesProject(s) => Topic(s) = "failed")
BY DEF Sources, Topic, Topics, NamesProject

LEMMA HeldUnread == ASSUME NEW e PROVE e \in Held <=> Unread(e)
BY DEF Held, Unread, Items

(* Taking the first element of a queue, and adding a last one. *)
LEMMA TailItems ==
  ASSUME NEW S \in SUBSET Nat, NEW s \in Seq(S), s # <<>>, Rising(s)
  PROVE  /\ Head(s) \in Items(s) /\ Tail(s) \in Seq(S) /\ Rising(Tail(s))
         /\ Items(Tail(s)) = Items(s) \ {Head(s)}
<1>1. /\ Head(s) = s[1] /\ Len(s) \in Nat \ {0} /\ Len(Tail(s)) = Len(s) - 1
      /\ \A i \in 1..Len(s) : s[i] \in Nat
      /\ \A i \in 1..Len(Tail(s)) : Tail(s)[i] = s[i + 1]
      /\ Tail(s) \in Seq(S)
  <2>1. \A i \in 1..Len(s) : s[i] \in S
    OBVIOUS
  <2>2. Len(s) \in Nat \ {0} /\ Head(s) = s[1] /\ Tail(s) \in Seq(S) /\ Len(Tail(s)) = Len(s) - 1
    OBVIOUS
  <2>3. \A i \in 1..Len(Tail(s)) : Tail(s)[i] = s[i + 1]
    BY <2>2
  <2> QED
    BY <2>1, <2>2, <2>3
<1>2. Rising(Tail(s))
  <2> SUFFICES ASSUME NEW i \in 1..Len(Tail(s)), NEW j \in 1..Len(Tail(s)), i < j
               PROVE  Tail(s)[i] < Tail(s)[j]
    BY DEF Rising
  <2>1. i + 1 \in 1..Len(s) /\ j + 1 \in 1..Len(s) /\ i + 1 < j + 1
    BY <1>1
  <2> QED
    BY <1>1, <2>1 DEF Rising
<1>3. Items(Tail(s)) \subseteq Items(s) \ {Head(s)}
  <2> SUFFICES ASSUME NEW i \in 1..Len(Tail(s))
               PROVE  Tail(s)[i] \in Items(s) /\ Tail(s)[i] # s[1]
    BY <1>1 DEF Items
  <2>1. i + 1 \in 1..Len(s) /\ 1 \in 1..Len(s) /\ 1 < i + 1 /\ Tail(s)[i] = s[i + 1]
    BY <1>1
  <2>2. s[1] < s[i + 1] /\ s[1] \in Nat /\ s[i + 1] \in Nat
    BY <1>1, <2>1 DEF Rising
  <2> QED
    BY <2>1, <2>2 DEF Items
<1>4. Items(s) \ {Head(s)} \subseteq Items(Tail(s))
  <2> SUFFICES ASSUME NEW i \in 1..Len(s), s[i] # s[1]
               PROVE  s[i] \in Items(Tail(s))
    BY <1>1 DEF Items
  <2>1. i - 1 \in 1..Len(Tail(s))
    BY <1>1
  <2>2. Tail(s)[i - 1] = s[i]
    BY <1>1, <2>1
  <2> QED
    BY <2>1, <2>2 DEF Items
<1>5. Head(s) \in Items(s)
  BY <1>1 DEF Items
<1> QED
  BY <1>1, <1>2, <1>3, <1>4, <1>5

LEMMA AppendItems ==
  ASSUME NEW s \in Seq(Nat), NEW n \in Nat, Rising(s), \A e \in Items(s) : e < n
  PROVE  Rising(Append(s, n)) /\ Items(Append(s, n)) = Items(s) \cup {n}
<1>1. /\ Len(s) \in Nat /\ Len(Append(s, n)) = Len(s) + 1
      /\ Append(s, n)[Len(s) + 1] = n
      /\ \A i \in 1..Len(s) : Append(s, n)[i] = s[i] /\ s[i] \in Nat
  OBVIOUS
<1>2. \A i \in 1..Len(s) : s[i] < n
  BY DEF Items
<1>3. Rising(Append(s, n))
  <2> SUFFICES ASSUME NEW i \in 1..Len(Append(s, n)), NEW j \in 1..Len(Append(s, n)), i < j
               PROVE  Append(s, n)[i] < Append(s, n)[j]
    BY DEF Rising
  <2>1. i \in 1..Len(s) /\ (j \in 1..Len(s) \/ j = Len(s) + 1)
    BY <1>1
  <2> QED
    BY <1>1, <1>2, <2>1 DEF Rising
<1>4. Items(Append(s, n)) = Items(s) \cup {n}
  <2>1. 1..Len(Append(s, n)) = 1..Len(s) \cup {Len(s) + 1}
    BY <1>1
  <2> QED
    BY <1>1, <2>1 DEF Items
<1> QED
  BY <1>3, <1>4

LEMMA ItemsKnown ==
  ASSUME TrackerTypes, NEW q \in Topics
  PROVE  box[q] \in Seq(Known) /\ Items(box[q]) \subseteq Known /\ Known \subseteq Event
BY TrackerAssumption DEF TrackerTypes, Items, Known, Event

LEMMA InitTracker == TrackerInit => TrackerInv
<1> SUFFICES ASSUME TrackerInit PROVE TrackerInv
  OBVIOUS
<1>1. events = <<>> /\ Len(events) = 0 /\ Known = {} /\ \A q \in Topics : Items(box[q]) = {}
  BY DEF TrackerInit, Known, Items
<1>2. TrackerTypes
  BY <1>1, TrackerAssumption DEF TrackerInit, TrackerTypes
<1>3. Boxes /\ Rounds
  BY <1>1 DEF TrackerInit, Boxes, Rounds, Rising
<1>4. Account
  BY <1>1 DEF TrackerInit, Account
<1> QED
  BY <1>2, <1>3, <1>4 DEF TrackerInv

(* A new event joins the queue of its topic, or nobody listens. *)
LEMMA PublishKeeps ==
  ASSUME TrackerInv, NEW source \in Sources, PublishEvent(source)
  PROVE  TrackerInv'
<1> DEFINE t == Topic(source)
<1>0. PICK n \in Nat : n = Len(events) + 1
  BY DEF TrackerInv, TrackerTypes
<1>1. /\ events \in Seq(Sources) /\ Len(events) \in Nat /\ Len(events) < MaxEvents
      /\ events' = Append(events, source)
      /\ UNCHANGED <<getting, round, done, hand, counted>>
  BY DEF PublishEvent, TrackerInv, TrackerTypes
<1>2. /\ events' \in Seq(Sources) /\ Len(events') = n /\ events'[n] = source
      /\ n \in Event /\ n \notin Known /\ n \in Nat
      /\ Known' = Known \cup {n} /\ \A e \in Known : events'[e] = events[e] /\ e < n
  BY <1>0, <1>1, TrackerAssumption DEF Known, Event
<1>3. \/ round = "off" /\ box' = box /\ excepted' = excepted \cup {n}
      \/ /\ round # "off" /\ excepted' = excepted
         /\ box' = [box EXCEPT ![t] = Append(@, n)]
  BY <1>0 DEF PublishEvent
<1>4. t \in Topics
  BY TopicOfFailures
<1>5. \A q \in Topics : /\ box[q] \in Seq(Known) /\ Items(box[q]) \subseteq Known
                        /\ Rising(box[q]) /\ box[q] \in Seq(Nat)
                        /\ \A e \in Items(box[q]) : Topic(events[e]) = q
  BY ItemsKnown DEF TrackerInv, Boxes, TrackerTypes, Known
<1>6. \A q \in Topics : Rising(box'[q]) /\ box'[q] \in Seq(Known')
  <2> TAKE q \in Topics
  <2>1. CASE box'[q] = box[q]
    BY <2>1, <1>2, <1>5
  <2>2. CASE box'[q] = Append(box[q], n)
    <3>1. box[q] \in Seq(Known') /\ n \in Known'
      BY <1>2, <1>5
    <3>2. Append(box[q], n) \in Seq(Known')
      BY <3>1
    <3>3. Rising(Append(box[q], n))
      BY <1>2, <1>5, AppendItems
    <3> QED
      BY <2>2, <3>2, <3>3
  <2> QED
    BY <2>1, <2>2, <1>3 DEF TrackerInv, TrackerTypes
<1>7. \A q \in Topics : Items(box'[q]) = IF round # "off" /\ q = t
                                         THEN Items(box[q]) \cup {n} ELSE Items(box[q])
  <2> TAKE q \in Topics
  <2>1. CASE round # "off" /\ q = t
    <3>1. box'[q] = Append(box[q], n)
      BY <2>1, <1>3, <1>4 DEF TrackerInv, TrackerTypes
    <3> QED
      BY <2>1, <3>1, <1>2, <1>5, AppendItems
  <2>2. CASE ~ (round # "off" /\ q = t)
    <3>1. box'[q] = box[q]
      BY <2>2, <1>3, <1>4 DEF TrackerInv, TrackerTypes
    <3> QED
      BY <2>2, <3>1
  <2> QED
    BY <2>1, <2>2
<1>8. box' \in [Topics -> Seq(Known')]
  <2>1. DOMAIN box' = Topics /\ box' = [q \in Topics |-> box'[q]]
    BY <1>3 DEF TrackerInv, TrackerTypes
  <2> QED
    BY <2>1, <1>6
<1>9. TrackerTypes'
  BY <1>1, <1>2, <1>8, TrackerAssumption DEF TrackerInv, TrackerTypes
<1>10. Boxes'
  <2>1. ASSUME NEW q \in Topics, NEW e \in Items(box'[q]) PROVE Topic(events'[e]) = q
    <3>1. CASE e \in Items(box[q])
      <4>1. e \in Known /\ Topic(events[e]) = q
        BY <1>5, <3>1
      <4> QED
        BY <1>2, <4>1
    <3>2. CASE q = t /\ e = n
      BY <1>2, <3>2
    <3> QED
      BY <1>7, <2>1, <3>1, <3>2
  <2> QED
    BY <1>6, <2>1 DEF Boxes
<1>11. /\ getting \subseteq Known /\ hand \subseteq Known /\ done \subseteq Known
  BY DEF TrackerInv, TrackerTypes
<1>12. Rounds'
  <2>1. round = "off" => \A q \in Topics : box'[q] = <<>>
    BY <1>3 DEF TrackerInv, Rounds
  <2>2. \A e, f \in getting : Topic(events'[e]) = Topic(events'[f]) => e = f
    BY <1>2, <1>11 DEF TrackerInv, Rounds
  <2>3. \A e \in hand : NamesProject(events'[e])
    BY <1>2, <1>11 DEF TrackerInv, Rounds
  <2>4. \A q \in Topics : Items(box'[q]) \cap (getting \cup hand) = {}
    <3>1. n \notin getting \cup hand
      BY <1>2, <1>11
    <3>2. \A q \in Topics : Items(box[q]) \cap (getting \cup hand) = {}
      BY DEF TrackerInv, Rounds
    <3> QED
      BY <3>1, <3>2, <1>7
  <2>5. round = "off" => getting = {} /\ done = {} /\ hand = {}
    BY DEF TrackerInv, Rounds
  <2> QED
    BY <1>1, <2>1, <2>2, <2>3, <2>4, <2>5 DEF TrackerInv, Rounds
<1>13. Account'
  <2>1. \A e \in Event : e > Len(events') => counted[e] = 0
    BY <1>0, <1>1, <1>2 DEF TrackerInv, Account, Event
  <2>2. ASSUME NEW e \in Known, e \notin excepted'
        PROVE  (Unread(e)' <=> Unread(e)) /\ (InHand(e)' <=> InHand(e)) /\ e \notin excepted
    <3>1. e # n /\ e \notin excepted
      BY <2>2, <1>2, <1>3
    <3> QED
      BY <3>1, <1>1, <1>7 DEF Unread, InHand
  <2>3. n \in excepted' \/ Unread(n)'
    BY <1>3, <1>4, <1>7 DEF Unread
  <2>4. counted[n] = 0
    BY <1>1, <1>2 DEF TrackerInv, Account
  <2>5. \A e \in Known' \ excepted' : NamesProject(events'[e]) =>
          counted[e] = IF Unread(e)' \/ InHand(e)' THEN 0 ELSE 1
    <3> TAKE e \in Known' \ excepted'
    <3>1. CASE e = n
      BY <3>1, <2>3, <2>4
    <3>2. CASE e # n
      <4>1. e \in Known /\ events'[e] = events[e]
        BY <3>2, <1>2
      <4> QED
        BY <4>1, <2>2 DEF TrackerInv, Account
    <3> QED
      BY <3>1, <3>2
  <2> QED
    BY <1>1, <2>1, <2>5 DEF Account
<1> QED
  BY <1>9, <1>10, <1>12, <1>13 DEF TrackerInv

(* The first event of a queue is taken, by a get() or while draining. *)
LEMMA TakeKeeps ==
  ASSUME TrackerInv, NEW q \in Topics, Got(q) \/ Drain(q)
  PROVE  TrackerInv'
<1>0. PICK h : h = Head(box[q])
  OBVIOUS
<1>1. /\ box[q] # <<>> /\ box' = [box EXCEPT ![q] = Tail(@)]
      /\ UNCHANGED <<events, round, done, counted, excepted>>
  BY DEF Got, Drain
<1>2. box[q] \in Seq(Known) /\ Known \in SUBSET Nat /\ Rising(box[q]) /\ Known' = Known
  BY <1>1, ItemsKnown DEF TrackerInv, Boxes, Known
<1>3. /\ h \in Items(box[q]) /\ Tail(box[q]) \in Seq(Known) /\ Rising(Tail(box[q]))
      /\ Items(Tail(box[q])) = Items(box[q]) \ {h}
  BY <1>0, <1>1, <1>2, TailItems
<1>4. /\ box'[q] = Tail(box[q]) /\ Items(box'[q]) = Items(box[q]) \ {h}
      /\ \A p \in Topics \ {q} : box'[p] = box[p]
      /\ box' \in [Topics -> Seq(Known)]
  BY <1>1, <1>3 DEF TrackerInv, TrackerTypes
<1>5. h \in Known /\ Topic(events[h]) = q /\ h \notin getting \cup hand
  BY <1>3, ItemsKnown DEF TrackerInv, Boxes, Rounds
<1>6. Boxes'
  BY <1>1, <1>3, <1>4 DEF TrackerInv, Boxes
<1>7. \A e \in Known : Unread(e)' <=> Unread(e) /\ e # h
  <2> TAKE e \in Known
  <2>1. \A p \in Topics : e \in Items(box'[p]) <=> e \in Items(box[p]) /\ e # h
    <3> TAKE p \in Topics
    <3>1. CASE p = q
      BY <3>1, <1>4
    <3>2. CASE p # q
      <4>1. h \notin Items(box[p])
        BY <3>2, <1>5 DEF TrackerInv, Boxes
      <4> QED
        BY <3>2, <4>1, <1>4
    <3> QED
      BY <3>1, <3>2
  <2> QED
    BY <2>1 DEF Unread
<1>8. \A p \in Topics : Items(box'[p]) \subseteq Items(box[p]) \ {h}
  <2> TAKE p \in Topics
  <2>1. CASE p = q
    BY <2>1, <1>4
  <2>2. CASE p # q
    BY <2>2, <1>4, <1>5 DEF TrackerInv, Boxes
  <2> QED
    BY <2>1, <2>2
<1>9. CASE Got(q)
  <2>1. /\ getting' = getting \cup {h} /\ hand' = hand
        /\ \A e \in getting : Topic(events[e]) # q
        /\ round = "wait" \/ (round = "handle" /\ hand # {})
    BY <1>0, <1>9 DEF Got
  <2>2. TrackerTypes'
    BY <1>1, <1>2, <1>4, <1>5, <2>1 DEF TrackerInv, TrackerTypes
  <2>3. Rounds'
    <3>1. \A e, f \in getting' : Topic(events[e]) = Topic(events[f]) => e = f
      BY <2>1, <1>5 DEF TrackerInv, Rounds
    <3>2. \A p \in Topics : Items(box'[p]) \cap (getting' \cup hand') = {}
      BY <2>1, <1>8 DEF TrackerInv, Rounds
    <3> QED
      BY <1>1, <2>1, <3>1, <3>2 DEF TrackerInv, Rounds
  <2>4. NamesProject(events[h]) => round = "wait"
    <3> SUFFICES ASSUME NamesProject(events[h]), round = "handle", hand # {} PROVE FALSE
      BY <2>1
    <3>1. PICK e \in hand : TRUE
      OBVIOUS
    <3>2. e \in getting /\ NamesProject(events[e])
      BY <3>1 DEF TrackerInv, Rounds
    <3>3. \A d \in Known : events[d] \in Sources
      BY DEF TrackerInv, TrackerTypes, Known
    <3>4. Topic(events[e]) = "failed" /\ Topic(events[h]) = "failed"
      BY <3>2, <3>3, <1>5, TopicOfFailures DEF TrackerInv, TrackerTypes
    <3> QED
      BY <3>2, <3>4, <2>1, <1>5
  <2>5. ASSUME NEW e \in Known \ excepted, NamesProject(events[e])
        PROVE  Unread(e)' \/ InHand(e)' <=> Unread(e) \/ InHand(e)
    <3>1. CASE e = h
      <4>1. Unread(h)
        BY <1>3 DEF Unread
      <4>2. InHand(h)'
        BY <3>1, <2>5, <2>4, <2>1, <1>1 DEF InHand
      <4> QED
        BY <3>1, <4>1, <4>2
    <3>2. CASE e # h
      <4>1. Unread(e)' <=> Unread(e)
        BY <3>2, <1>7
      <4>2. InHand(e)' <=> InHand(e)
        BY <3>2, <2>1, <1>1 DEF InHand
      <4> QED
        BY <4>1, <4>2
    <3> QED
      BY <3>1, <3>2
  <2>6. Account'
    BY <1>1, <1>2, <2>5 DEF TrackerInv, Account
  <2> QED
    BY <1>6, <2>2, <2>3, <2>6 DEF TrackerInv
<1>10. CASE Drain(q)
  <2>1. /\ round = "drain" /\ hand = {} /\ getting' = getting /\ getting = {}
        /\ hand' = {e \in {h} : NamesProject(events[e])}
    BY <1>0, <1>10 DEF Drain, TrackerInv, Rounds
  <2>2. TrackerTypes'
    BY <1>1, <1>2, <1>4, <1>5, <2>1 DEF TrackerInv, TrackerTypes
  <2>3. Rounds'
    <3>1. \A p \in Topics : Items(box'[p]) \cap (getting' \cup hand') = {}
      BY <2>1, <1>8 DEF TrackerInv, Rounds
    <3> QED
      BY <1>1, <2>1, <3>1 DEF TrackerInv, Rounds
  <2>4. ASSUME NEW e \in Known \ excepted, NamesProject(events[e])
        PROVE  Unread(e)' \/ InHand(e)' <=> Unread(e) \/ InHand(e)
    <3>1. CASE e = h
      <4>1. Unread(h)
        BY <1>3 DEF Unread
      <4>2. InHand(h)'
        BY <3>1, <2>4, <2>1 DEF InHand
      <4> QED
        BY <3>1, <4>1, <4>2
    <3>2. CASE e # h
      <4>1. Unread(e)' <=> Unread(e)
        BY <3>2, <1>7
      <4>2. InHand(e)' <=> InHand(e)
        BY <3>2, <2>1, <1>1 DEF InHand
      <4> QED
        BY <4>1, <4>2
    <3> QED
      BY <3>1, <3>2
  <2>5. Account'
    BY <1>1, <1>2, <2>4 DEF TrackerInv, Account
  <2> QED
    BY <1>6, <2>2, <2>3, <2>5 DEF TrackerInv
<1> QED
  BY <1>9, <1>10

(* The steps that only move events which have been got. *)
LEMMA RoundKeeps ==
  ASSUME TrackerInv,
         StartTracker \/ WaitReturns \/ DropGets \/ NextRound \/ \E e \in Event : HandleEvent(e)
  PROVE  TrackerInv'
<1>1. UNCHANGED <<events, box, counted, excepted>>
  BY DEF StartTracker, WaitReturns, DropGets, NextRound, HandleEvent
<1>2. Known' = Known /\ Boxes' /\ \A e \in Known : Unread(e)' <=> Unread(e)
  BY <1>1 DEF TrackerInv, Boxes, Known, Unread
<1>3. \A e \in Known : NamesProject(events[e]) => (InHand(e)' <=> InHand(e))
  <2>1. CASE StartTracker
    BY <2>1 DEF StartTracker, InHand, TrackerInv, Rounds
  <2>2. CASE WaitReturns
    BY <2>2 DEF WaitReturns, InHand, TrackerInv, Rounds
  <2>3. CASE DropGets
    BY <2>3 DEF DropGets, InHand, TrackerInv, Rounds
  <2>4. CASE NextRound
    BY <2>4 DEF NextRound, InHand, TrackerInv, Rounds
  <2>5. ASSUME NEW e \in Event, HandleEvent(e)
        PROVE  \A f \in Known : NamesProject(events[f]) => (InHand(f)' <=> InHand(f))
    BY <2>5 DEF HandleEvent, InHand
  <2> QED
    BY <2>1, <2>2, <2>3, <2>4, <2>5
<1>4. TrackerTypes'
  BY <1>1, <1>2
  DEF TrackerInv, TrackerTypes, StartTracker, WaitReturns, DropGets, NextRound, HandleEvent
<1>5. Rounds'
  <2>1. CASE StartTracker
    BY <2>1, <1>1 DEF StartTracker, TrackerInv, Rounds
  <2>2. CASE WaitReturns
    BY <2>2, <1>1 DEF WaitReturns, TrackerInv, Rounds
  <2>3. CASE DropGets
    BY <2>3, <1>1 DEF DropGets, TrackerInv, Rounds
  <2>4. CASE NextRound
    BY <2>4, <1>1 DEF NextRound, TrackerInv, Rounds
  <2>5. ASSUME NEW e \in Event, HandleEvent(e) PROVE Rounds'
    <3>1. /\ round = "handle" /\ hand = {} /\ e \in done /\ e \in getting
          /\ done' = done \ {e} /\ hand' = {f \in {e} : NamesProject(events[f])}
          /\ UNCHANGED <<getting, round>>
      BY <2>5 DEF HandleEvent, TrackerInv, Rounds
    <3>2. \A q \in Topics : Items(box[q]) \cap (getting \cup hand') = {}
      BY <3>1 DEF TrackerInv, Rounds
    <3> QED
      BY <3>1, <3>2, <1>1 DEF TrackerInv, Rounds
  <2> QED
    BY <2>1, <2>2, <2>3, <2>4, <2>5
<1>6. Account'
  BY <1>1, <1>2, <1>3 DEF TrackerInv, Account
<1> QED
  BY <1>2, <1>4, <1>5, <1>6 DEF TrackerInv

LEMMA CountedKeeps == ASSUME TrackerInv, Counted PROVE TrackerInv'
<1>1. /\ hand # {} /\ hand' = {} /\ UNCHANGED <<events, box, getting, round, done>>
      /\ \/ /\ counted' = [e \in Event |-> counted[e] + (IF e \in hand THEN 1 ELSE 0)]
            /\ excepted' = excepted
         \/ excepted' = excepted \cup hand /\ counted' = counted
  BY DEF Counted
<1>2. Known' = Known /\ Boxes' /\ \A e \in Known : Unread(e)' <=> Unread(e)
  BY <1>1 DEF TrackerInv, Boxes, Known, Unread
<1>3. hand \subseteq Known /\ Known \subseteq Event
  BY TrackerAssumption DEF TrackerInv, TrackerTypes, Known, Event
<1>4. TrackerTypes'
  <2>1. counted' \in [Event -> Nat]
    BY <1>1 DEF TrackerInv, TrackerTypes
  <2> QED
    BY <1>1, <1>2, <2>1 DEF TrackerInv, TrackerTypes
<1>5. Rounds'
  BY <1>1 DEF TrackerInv, Rounds
<1>6. \A e \in hand : ~ InHand(e)' /\ ~ Unread(e)
  <2> TAKE e \in hand
  <2>1. ~ Unread(e)
    BY DEF TrackerInv, Rounds, Unread
  <2>2. ~ InHand(e)'
    BY <1>1 DEF TrackerInv, TrackerTypes, Rounds, InHand
  <2> QED
    BY <2>1, <2>2
<1>7. \A e \in Known \ hand : InHand(e)' <=> InHand(e)
  BY <1>1 DEF InHand
<1>8. Account'
  <2>1. \A e \in Event : e > Len(events) => counted'[e] = 0
    <3>1. \A e \in Event : e > Len(events) => e \notin hand
      BY <1>3 DEF Known, Event, TrackerInv, TrackerTypes
    <3> QED
      BY <1>1, <3>1 DEF TrackerInv, Account
  <2>2. ASSUME NEW e \in Known \ excepted', NamesProject(events[e])
        PROVE  counted'[e] = IF Unread(e) \/ InHand(e)' THEN 0 ELSE 1
    <3>1. e \in Event /\ e \notin excepted
      BY <2>2, <1>1, <1>3
    <3>2. counted[e] = IF Unread(e) \/ InHand(e) THEN 0 ELSE 1
      BY <2>2, <3>1 DEF TrackerInv, Account
    <3>3. CASE e \in hand
      <4>1. counted'[e] = counted[e] + 1 /\ counted[e] = 0
        BY <3>1, <3>2, <3>3, <2>2, <1>1 DEF InHand
      <4> QED
        BY <4>1, <3>3, <1>6
    <3>4. CASE e \notin hand
      <4>1. counted'[e] = counted[e]
        BY <3>1, <3>4, <1>1 DEF TrackerInv, TrackerTypes
      <4> QED
        BY <4>1, <3>2, <3>4, <1>7
    <3> QED
      BY <3>3, <3>4
  <2> QED
    BY <1>1, <1>2, <2>1, <2>2 DEF Account
<1> QED
  BY <1>2, <1>4, <1>5, <1>8 DEF TrackerInv

(* What is on its way when the tracker stops is excepted. *)
LEMMA StopKeeps == ASSUME TrackerInv, StopTracker PROVE TrackerInv'
<1>1. /\ round' = "off" /\ excepted' = excepted \cup Held \cup getting \cup done \cup hand
      /\ box' = [q \in Topics |-> <<>>]
      /\ getting' = {} /\ done' = {} /\ hand' = {}
      /\ UNCHANGED <<events, counted>>
  BY DEF StopTracker
<1>2. Known' = Known /\ \A q \in Topics : box'[q] = <<>> /\ Items(box'[q]) = {}
  BY <1>1 DEF Known, Items
<1>3. TrackerTypes'
  BY <1>1, <1>2 DEF TrackerInv, TrackerTypes
<1>4. Boxes' /\ Rounds'
  BY <1>1, <1>2 DEF Boxes, Rounds, Rising
<1>5. Account'
  <2>1. ASSUME NEW e \in Known \ excepted'
        PROVE  e \notin excepted /\ ~ Unread(e) /\ ~ InHand(e) /\ ~ Unread(e)' /\ ~ InHand(e)'
    BY <2>1, <1>1, <1>2, HeldUnread DEF Unread, InHand
  <2> QED
    BY <1>1, <1>2, <2>1 DEF TrackerInv, Account
<1> QED
  BY <1>3, <1>4, <1>5 DEF TrackerInv

(* Every event is in one place, or counted, or excepted. *)
THEOREM TrackerInvariant == TrackerSpec => []TrackerInv
<1>1. TrackerInv /\ [TrackerNext]_trackerVars => TrackerInv'
  <2> SUFFICES ASSUME TrackerInv, [TrackerNext]_trackerVars PROVE TrackerInv'
    OBVIOUS
  <2>1. CASE UNCHANGED trackerVars
    BY <2>1
    DEF trackerVars, TrackerInv, TrackerTypes, Boxes, Rounds, Account, Known, Unread, InHand
  <2>2. CASE TrackerNext
    BY <2>2, PublishKeeps, TakeKeeps, RoundKeeps, CountedKeeps, StopKeeps DEF TrackerNext
  <2> QED
    BY <2>1, <2>2
<1> QED
  BY <1>1, InitTracker, PTL DEF TrackerSpec

(* A failure that names its project (core/state.py _handle_event) is       *)
(* counted exactly once, or on its way, for any number of events, although *)
(* the loop drops what a get() was answered with while it was busy.        *)
THEOREM CountedOnce == TrackerSpec => []EventsCounted
<1>1. TrackerInv => EventsCounted
  <2> SUFFICES ASSUME TrackerInv, NEW e \in 1..Len(events),
                      NamesProject(events[e]), e \notin excepted
               PROVE  LET way == (IF e \in Held THEN 1 ELSE 0)
                            + (IF e \in done \cup hand \/ (e \in getting /\ round = "wait")
                               THEN 1 ELSE 0)
                      IN counted[e] + way = 1
    BY DEF EventsCounted
  <2>1. counted[e] = IF Unread(e) \/ InHand(e) THEN 0 ELSE 1
    BY DEF TrackerInv, Account, Known
  <2>2. ~ (Unread(e) /\ InHand(e))
    BY DEF TrackerInv, TrackerTypes, Rounds, Unread, InHand
  <2>3. e \in Held <=> Unread(e)
    BY HeldUnread
  <2> QED
    BY <2>1, <2>2, <2>3 DEF InHand
<1> QED
  BY <1>1, TrackerInvariant, PTL

-----------------------------------------------------------------------------
(* The sessions of the database.                                           *)

PoolTypes ==
  /\ pool \in Seq(Pooled) /\ poolOpen \in BOOLEAN
  /\ session \in [Borrowers -> {"idle", "body", "raised", "leaving", "over"}]
  /\ conn \in [Borrowers -> Connections \cup {0}]
  /\ written \in [Borrowers -> Nat]
  /\ uncommitted \in [Connections -> SUBSET (Borrowers \X Nat)]
  /\ committed \subseteq Borrowers \X Nat
  /\ outcome \in [Borrowers -> {"none", "committed", "rolledback", "cancelled"}]

Inside(b) == session[b] \in {"body", "raised"}

(* A borrower has a connection from its first step to its last, and what   *)
(* became of it is settled when its body has been left.                    *)
Stages ==
  \A b \in Borrowers :
    /\ conn[b] = 0 <=> session[b] \in {"idle", "over"}
    /\ outcome[b] = "none" <=> session[b] \in {"idle", "body", "raised"}
    /\ session[b] = "idle" => written[b] = 0

(* Nobody shares a connection, neither with another borrower nor with the  *)
(* pool, which has each one once.                                          *)
Alone ==
  /\ \A i, j \in 1..Len(pool) : pool[i] = pool[j] => i = j
  /\ \A b \in Borrowers : \A i \in 1..Len(pool) : pool[i] # conn[b]
  /\ \A a, b \in Borrowers : conn[a] # 0 /\ conn[a] = conn[b] => a = b
  /\ \A b \in Borrowers : conn[b] > PoolSize => conn[b] = Fresh(b)

(* The open transaction of a connection. *)
Open ==
  /\ \A c \in Connections, b \in Borrowers, n \in Nat : <<b, n>> \in uncommitted[c] =>
       (conn[b] = c /\ Inside(b)) \/ outcome[b] = "cancelled"
  /\ \A b \in Borrowers, n \in Nat : Inside(b) =>
       (<<b, n>> \in uncommitted[conn[b]] <=> n \in 1..written[b])

(* What is in the database. *)
Kept ==
  /\ \A b \in Borrowers, n \in Nat : <<b, n>> \in committed =>
       outcome[b] \in {"committed", "cancelled"}
  /\ \A b \in Borrowers, n \in Nat : outcome[b] = "committed" =>
       (<<b, n>> \in committed <=> n \in 1..written[b])

PoolInv == PoolTypes /\ Stages /\ Alone /\ Open /\ Kept

(* The connections there are. *)
LEMMA Numbering ==
  /\ 0 \notin Connections /\ Pooled \subseteq Connections
  /\ Connections \subseteq Nat /\ Borrowers \subseteq Nat
  /\ \A b \in Borrowers : Fresh(b) \in Connections /\ Fresh(b) > PoolSize
  /\ \A a, b \in Borrowers : Fresh(a) = Fresh(b) => a = b
  /\ \A c \in Pooled : c <= PoolSize
BY PoolAssumption DEF Connections, Pooled, Borrowers, Fresh

LEMMA InitPool == PoolInit => PoolInv
<1> SUFFICES ASSUME PoolInit PROVE PoolInv
  OBVIOUS
<1>1. pool \in Seq(Pooled) /\ Len(pool) = PoolSize
  BY PoolAssumption DEF PoolInit, Pooled
<1>2. PoolTypes
  BY <1>1, Numbering DEF PoolInit, PoolTypes
<1>3. Stages
  BY DEF PoolInit, Stages
<1>4. Alone
  BY <1>1, Numbering, PoolAssumption DEF PoolInit, Alone, Pooled
<1>5. Open /\ Kept
  BY DEF PoolInit, Open, Kept, Inside
<1> QED
  BY <1>2, <1>3, <1>4, <1>5 DEF PoolInv

(* A new borrower has written nothing and shares its connection with       *)
(* nobody; a transaction it may find there is that of a cancelled session. *)
LEMMA BorrowKeeps ==
  ASSUME PoolInv, NEW b \in Borrowers, Borrow(b) \/ Connect(b)
  PROVE  PoolInv'
<1>1. /\ session[b] = "idle" /\ session' = [session EXCEPT ![b] = "body"]
      /\ UNCHANGED <<poolOpen, written, uncommitted, committed, outcome>>
  BY DEF Borrow, Connect, Moves
<1>2. /\ conn'[b] \in Connections
      /\ \A a \in Borrowers \ {b} : conn'[a] = conn[a] /\ conn'[b] # conn[a]
      /\ conn' \in [Borrowers -> Connections \cup {0}]
      /\ pool' \in Seq(Pooled)
      /\ Alone'
  <2>1. CASE Borrow(b)
    <3>1. /\ pool \in Seq(Pooled) /\ pool # <<>>
          /\ pool' = Tail(pool) /\ conn' = [conn EXCEPT ![b] = Head(pool)]
          /\ Head(pool) = pool[1] /\ pool[1] \in Pooled /\ 1 \in 1..Len(pool)
      BY <2>1 DEF Borrow, PoolInv, PoolTypes
    <3>2. /\ Tail(pool) \in Seq(Pooled) /\ Len(Tail(pool)) = Len(pool) - 1
          /\ \A i \in 1..Len(Tail(pool)) : Tail(pool)[i] = pool[i + 1] /\ i + 1 \in 1..Len(pool)
          /\ Len(pool) \in Nat
      BY <3>1
    <3>3. conn'[b] = pool[1] /\ \A a \in Borrowers \ {b} : conn'[a] = conn[a]
      BY <3>1 DEF PoolInv, PoolTypes
    <3>4. \A i, j \in 1..Len(pool') : pool'[i] = pool'[j] => i = j
      <4> TAKE i, j \in 1..Len(pool')
      <4>1. pool'[i] = pool[i + 1] /\ pool'[j] = pool[j + 1]
            /\ i + 1 \in 1..Len(pool) /\ j + 1 \in 1..Len(pool)
        BY <3>1, <3>2
      <4>2. pool[i + 1] = pool[j + 1] => i + 1 = j + 1
        BY <4>1 DEF PoolInv, Alone
      <4> QED
        BY <4>1, <4>2
    <3>5. \A i \in 1..Len(pool') : pool'[i] # pool[1]
      BY <3>1, <3>2 DEF PoolInv, Alone
    <3>6. /\ conn'[b] \in Connections /\ pool' \in Seq(Pooled)
          /\ \A a \in Borrowers \ {b} : conn'[b] # conn[a]
      BY <3>1, <3>2, <3>3, Numbering DEF PoolInv, Alone
    <3>7. \A a \in Borrowers : \A i \in 1..Len(pool') : pool'[i] # conn'[a]
      BY <3>1, <3>2, <3>3, <3>5 DEF PoolInv, Alone
    <3>8. \A a, d \in Borrowers : conn'[a] # 0 /\ conn'[a] = conn'[d] => a = d
      BY <3>3, <3>6 DEF PoolInv, Alone
    <3>9. \A a \in Borrowers : conn'[a] > PoolSize => conn'[a] = Fresh(a)
      <4>1. conn'[b] \in 1..PoolSize
        BY <3>1, <3>3 DEF Pooled
      <4>2. ~ (conn'[b] > PoolSize)
        BY <4>1, PoolAssumption
      <4> QED
        BY <4>2, <3>3 DEF PoolInv, Alone
    <3>10. conn' \in [Borrowers -> Connections \cup {0}]
      <4>1. Head(pool) \in Connections \cup {0}
        BY <3>1, Numbering
      <4> QED
        BY <3>1, <4>1 DEF PoolInv, PoolTypes
    <3> QED
      BY <3>3, <3>4, <3>6, <3>7, <3>8, <3>9, <3>10 DEF Alone
  <2>2. CASE Connect(b)
    <3>1. conn' = [conn EXCEPT ![b] = Fresh(b)] /\ pool' = pool
      BY <2>2 DEF Connect
    <3>2. conn'[b] = Fresh(b) /\ \A a \in Borrowers \ {b} : conn'[a] = conn[a]
      BY <3>1 DEF PoolInv, PoolTypes
    <3>3. \A a \in Borrowers \ {b} : conn[a] # Fresh(b)
      BY Numbering DEF PoolInv, Alone
    <3>4. \A i \in 1..Len(pool) : pool[i] \in Pooled
      BY DEF PoolInv, PoolTypes
    <3>5. \A i \in 1..Len(pool) : pool[i] # Fresh(b)
      BY <3>4, Numbering, PoolAssumption DEF Pooled, Fresh
    <3> QED
      BY <3>1, <3>2, <3>3, <3>5, Numbering DEF PoolInv, PoolTypes, Alone
  <2> QED
    BY <2>1, <2>2
<1>3. PoolTypes'
  BY <1>1, <1>2 DEF PoolInv, PoolTypes
<1>4. Stages'
  BY <1>1, <1>2, Numbering DEF PoolInv, PoolTypes, Stages
<1>5. written[b] = 0 /\ outcome[b] = "none" /\ conn[b] = 0
  BY <1>1 DEF PoolInv, Stages
<1>6. \A c \in Connections, n \in Nat : <<b, n>> \notin uncommitted[c]
  BY <1>1, <1>5, Numbering DEF PoolInv, Open, Inside
<1>7. Open'
  <2>1. ASSUME NEW c \in Connections, NEW a \in Borrowers, NEW n \in Nat,
               <<a, n>> \in uncommitted[c]
        PROVE  (conn'[a] = c /\ Inside(a)') \/ outcome'[a] = "cancelled"
    <3>1. a # b
      BY <2>1, <1>6
    <3> QED
      BY <2>1, <3>1, <1>1, <1>2 DEF PoolInv, PoolTypes, Open, Inside
  <2>2. ASSUME NEW a \in Borrowers, NEW n \in Nat, Inside(a)'
        PROVE  <<a, n>> \in uncommitted[conn'[a]] <=> n \in 1..written[a]
    <3>1. CASE a = b
      BY <3>1, <1>2, <1>5, <1>6
    <3>2. CASE a # b
      BY <2>2, <3>2, <1>1, <1>2 DEF PoolInv, PoolTypes, Open, Inside
    <3> QED
      BY <3>1, <3>2
  <2> QED
    BY <2>1, <2>2, <1>1 DEF Open
<1>8. Kept'
  BY <1>1 DEF PoolInv, Kept
<1> QED
  BY <1>2, <1>3, <1>4, <1>7, <1>8 DEF PoolInv

(* Execute adds to the transaction of its own connection. *)
LEMMA ExecuteKeeps ==
  ASSUME PoolInv, NEW b \in Borrowers, Execute(b)
  PROVE  PoolInv'
<1>1. /\ session[b] = "body" /\ conn[b] \in Connections /\ written[b] \in Nat
      /\ written' = [written EXCEPT ![b] = written[b] + 1]
      /\ UNCHANGED <<pool, poolOpen, session, conn, committed, outcome>>
  BY Numbering DEF Execute, PoolInv, PoolTypes, Stages
<1>2. /\ written'[b] = written[b] + 1
      /\ \A a \in Borrowers \ {b} : written'[a] = written[a]
  BY <1>1 DEF PoolInv, PoolTypes
<1>3. uncommitted' = [uncommitted EXCEPT ![conn[b]] = @ \cup {<<b, written[b] + 1>>}]
  BY <1>2 DEF Execute
<1>4. /\ uncommitted'[conn[b]] = uncommitted[conn[b]] \cup {<<b, written[b] + 1>>}
      /\ \A c \in Connections \ {conn[b]} : uncommitted'[c] = uncommitted[c]
  BY <1>1, <1>3 DEF PoolInv, PoolTypes
<1>5. PoolTypes'
  <2>1. uncommitted' \in [Connections -> SUBSET (Borrowers \X Nat)]
    BY <1>1, <1>3 DEF PoolInv, PoolTypes
  <2> QED
    BY <1>1, <2>1 DEF PoolInv, PoolTypes
<1>6. Stages' /\ Alone'
  BY <1>1, <1>2 DEF PoolInv, Stages, Alone
<1>7. Open'
  <2>1. ASSUME NEW c \in Connections, NEW a \in Borrowers, NEW n \in Nat,
               <<a, n>> \in uncommitted'[c]
        PROVE  (conn[a] = c /\ Inside(a)) \/ outcome[a] = "cancelled"
    <3>1. CASE <<a, n>> \in uncommitted[c]
      BY <3>1 DEF PoolInv, Open
    <3>2. CASE <<a, n>> \notin uncommitted[c]
      <4>1. c = conn[b] /\ a = b
        BY <2>1, <3>2, <1>4
      <4> QED
        BY <4>1, <1>1 DEF Inside
    <3> QED
      BY <3>1, <3>2
  <2>2. ASSUME NEW a \in Borrowers, NEW n \in Nat, Inside(a)
        PROVE  <<a, n>> \in uncommitted'[conn[a]] <=> n \in 1..written'[a]
    <3>1. conn[a] \in Connections /\ (<<a, n>> \in uncommitted[conn[a]] <=> n \in 1..written[a])
      BY <2>2, Numbering DEF PoolInv, PoolTypes, Stages, Open, Inside
    <3>2. CASE a = b
      BY <3>1, <3>2, <1>1, <1>2, <1>4
    <3>3. CASE a # b
      BY <3>1, <3>3, <1>2, <1>4
    <3> QED
      BY <3>2, <3>3
  <2> QED
    BY <2>1, <2>2, <1>1 DEF Open, Inside
<1>8. Kept'
  <2>1. outcome[b] = "none"
    BY <1>1 DEF PoolInv, Stages
  <2> QED
    BY <2>1, <1>1, <1>2 DEF PoolInv, Kept
<1> QED
  BY <1>5, <1>6, <1>7, <1>8 DEF PoolInv

(* How a body is left: with its writes in the database, without, or with   *)
(* the transaction left open behind it.                                    *)
LEMMA LeaveKeeps ==
  ASSUME PoolInv, NEW b \in Borrowers, Commit(b) \/ Rollback(b) \/ CancelBody(b)
  PROVE  PoolInv'
<1>1. /\ Inside(b) /\ conn[b] \in Connections /\ outcome[b] = "none"
      /\ session' = [session EXCEPT ![b] = "leaving"]
      /\ UNCHANGED <<pool, poolOpen, conn, written>>
  BY Numbering DEF Commit, Rollback, CancelBody, Moves, PoolInv, PoolTypes, Stages, Inside
<1>2. /\ \E how \in {"committed", "rolledback", "cancelled"} :
            outcome' = [outcome EXCEPT ![b] = how]
      /\ uncommitted' = uncommitted \/ uncommitted' = [uncommitted EXCEPT ![conn[b]] = {}]
      /\ committed' = committed \/ committed' = committed \cup uncommitted[conn[b]]
  BY DEF Commit, Rollback, CancelBody, Ends, NoTransaction
<1>3. /\ session'[b] = "leaving" /\ outcome'[b] # "none"
      /\ \A a \in Borrowers \ {b} : session'[a] = session[a] /\ outcome'[a] = outcome[a]
  BY <1>1, <1>2 DEF PoolInv, PoolTypes
<1>4. PoolTypes'
  <2>1. uncommitted' \in [Connections -> SUBSET (Borrowers \X Nat)]
    BY <1>1, <1>2 DEF PoolInv, PoolTypes
  <2>2. committed' \subseteq Borrowers \X Nat
    BY <1>1, <1>2 DEF PoolInv, PoolTypes
  <2>3. outcome' \in [Borrowers -> {"none", "committed", "rolledback", "cancelled"}]
    BY <1>2 DEF PoolInv, PoolTypes
  <2> QED
    BY <1>1, <2>1, <2>2, <2>3 DEF PoolInv, PoolTypes
<1>5. Stages'
  BY <1>1, <1>3, Numbering DEF PoolInv, Stages
<1>6. Alone'
  BY <1>1 DEF PoolInv, Alone
<1>7. \A c \in Connections : uncommitted'[c] \subseteq uncommitted[c]
  BY <1>1, <1>2 DEF PoolInv, PoolTypes
<1>8. CancelBody(b) \/ uncommitted'[conn[b]] = {}
  BY <1>1 DEF Commit, Rollback, NoTransaction, PoolInv, PoolTypes
<1>9. \A c \in Connections \ {conn[b]} : uncommitted'[c] = uncommitted[c]
  BY <1>1, <1>2 DEF PoolInv, PoolTypes
<1>10. Open'
  <2>1. ASSUME NEW c \in Connections, NEW a \in Borrowers, NEW n \in Nat,
               <<a, n>> \in uncommitted'[c]
        PROVE  (conn[a] = c /\ Inside(a)') \/ outcome'[a] = "cancelled"
    <3>1. (conn[a] = c /\ Inside(a)) \/ outcome[a] = "cancelled"
      BY <2>1, <1>7 DEF PoolInv, Open
    <3>2. CASE a # b
      BY <3>1, <3>2, <1>3 DEF Inside
    <3>3. CASE a = b
      <4>1. conn[b] = c
        BY <3>1, <3>3, <1>1
      <4>2. CancelBody(b)
        BY <4>1, <2>1, <1>8
      <4> QED
        BY <4>2, <3>3 DEF CancelBody, Ends, PoolInv, PoolTypes
    <3> QED
      BY <3>2, <3>3
  <2>2. ASSUME NEW a \in Borrowers, NEW n \in Nat, Inside(a)'
        PROVE  <<a, n>> \in uncommitted'[conn[a]] <=> n \in 1..written[a]
    <3>1. a # b /\ Inside(a)
      BY <2>2, <1>3 DEF Inside
    <3>2. conn[a] \in Connections \ {conn[b]}
      BY <3>1, <1>1, Numbering DEF PoolInv, PoolTypes, Stages, Alone, Inside
    <3> QED
      BY <3>1, <3>2, <1>9 DEF PoolInv, Open
  <2> QED
    BY <2>1, <2>2, <1>1 DEF Open
<1>11. Kept'
  <2>1. CASE Commit(b)
    <3>1. outcome'[b] = "committed" /\ committed' = committed \cup uncommitted[conn[b]]
      BY <2>1 DEF Commit, Ends, PoolInv, PoolTypes
    <3>2. \A n \in Nat : <<b, n>> \notin committed
      BY <1>1 DEF PoolInv, Kept
    <3>3. \A a \in Borrowers \ {b} : \A n \in Nat :
            <<a, n>> \in uncommitted[conn[b]] => outcome[a] = "cancelled"
      BY <1>1, Numbering DEF PoolInv, Alone, Open
    <3>4. ASSUME NEW a \in Borrowers, NEW n \in Nat
          PROVE  /\ <<a, n>> \in committed' => outcome'[a] \in {"committed", "cancelled"}
                 /\ outcome'[a] = "committed" => (<<a, n>> \in committed' <=> n \in 1..written[a])
      <4>1. CASE a = b
        BY <4>1, <3>1, <3>2, <1>1 DEF PoolInv, Open
      <4>2. CASE a # b
        BY <4>2, <3>1, <3>3, <1>3 DEF PoolInv, Kept
      <4> QED
        BY <4>1, <4>2
    <3> QED
      BY <3>4, <1>1 DEF Kept
  <2>2. CASE Rollback(b) \/ CancelBody(b)
    <3>1. outcome'[b] \in {"rolledback", "cancelled"} /\ committed' = committed
      BY <2>2 DEF Rollback, CancelBody, Ends, PoolInv, PoolTypes
    <3>2. \A n \in Nat : <<b, n>> \notin committed
      BY <1>1 DEF PoolInv, Kept
    <3> QED
      BY <3>1, <3>2, <1>1, <1>3 DEF PoolInv, Kept
  <2> QED
    BY <2>1, <2>2
<1> QED
  BY <1>4, <1>5, <1>6, <1>10, <1>11 DEF PoolInv

LEMMA RaiseKeeps ==
  ASSUME PoolInv, NEW b \in Borrowers, Raise(b)
  PROVE  PoolInv'
<1>1. /\ session[b] = "body" /\ session' = [session EXCEPT ![b] = "raised"]
      /\ UNCHANGED <<pool, poolOpen, conn, written, uncommitted, committed, outcome>>
  BY DEF Raise, Moves
<1>2. \A a \in Borrowers : Inside(a)' <=> Inside(a)
  BY <1>1 DEF PoolInv, PoolTypes, Inside
<1>3. PoolTypes' /\ Stages'
  BY <1>1 DEF PoolInv, PoolTypes, Stages
<1>4. Alone' /\ Kept'
  BY <1>1 DEF PoolInv, Alone, Kept
<1>5. Open'
  BY <1>1, <1>2 DEF PoolInv, Open
<1> QED
  BY <1>3, <1>4, <1>5 DEF PoolInv

(* The connection goes back, possibly with a cancelled transaction. *)
LEMMA GiveBackKeeps ==
  ASSUME PoolInv, NEW b \in Borrowers, GiveBack(b)
  PROVE  PoolInv'
<1>1. /\ session[b] = "leaving" /\ conn[b] \in Connections
      /\ session' = [session EXCEPT ![b] = "over"] /\ conn' = [conn EXCEPT ![b] = 0]
      /\ UNCHANGED <<poolOpen, written, committed, outcome>>
  BY Numbering DEF GiveBack, Moves, PoolInv, PoolTypes, Stages
<1>2. /\ session'[b] = "over" /\ conn'[b] = 0
      /\ \A a \in Borrowers \ {b} : session'[a] = session[a] /\ conn'[a] = conn[a]
  BY <1>1 DEF PoolInv, PoolTypes
<1>3. \/ pool' = Append(pool, conn[b]) /\ conn[b] \in Pooled /\ uncommitted' = uncommitted
      \/ pool' = pool /\ uncommitted' = [uncommitted EXCEPT ![conn[b]] = {}]
  BY DEF GiveBack, NoTransaction
<1>4. PoolTypes'
  <2>1. pool' \in Seq(Pooled)
    <3>1. conn[b] \in Pooled => Append(pool, conn[b]) \in Seq(Pooled)
      BY DEF PoolInv, PoolTypes
    <3> QED
      BY <3>1, <1>3 DEF PoolInv, PoolTypes
  <2>2. uncommitted' \in [Connections -> SUBSET (Borrowers \X Nat)]
    BY <1>1, <1>3 DEF PoolInv, PoolTypes
  <2>3. conn' \in [Borrowers -> Connections \cup {0}]
    BY <1>1 DEF PoolInv, PoolTypes
  <2> QED
    BY <1>1, <2>1, <2>2, <2>3 DEF PoolInv, PoolTypes
<1>5. Stages'
  BY <1>1, <1>2 DEF PoolInv, Stages
<1>6. Alone'
  <2>1. \A a \in Borrowers \ {b} : conn[a] # conn[b]
    BY <1>1, Numbering DEF PoolInv, Alone
  <2>2. \A a, d \in Borrowers : conn'[a] # 0 /\ conn'[a] = conn'[d] => a = d
    BY <1>2 DEF PoolInv, Alone
  <2>3. \A a \in Borrowers : conn'[a] > PoolSize => conn'[a] = Fresh(a)
    BY <1>2, PoolAssumption DEF PoolInv, Alone
  <2>4. CASE pool' = pool
    <3>1. \A i \in 1..Len(pool) : pool[i] # 0
      BY Numbering DEF PoolInv, PoolTypes
    <3> QED
      BY <2>2, <2>3, <2>4, <3>1, <1>2 DEF PoolInv, Alone
  <2>5. CASE pool' = Append(pool, conn[b]) /\ conn[b] \in Pooled
    <3>1. /\ Len(pool') = Len(pool) + 1 /\ Len(pool) \in Nat
          /\ pool'[Len(pool) + 1] = conn[b]
          /\ \A i \in 1..Len(pool) : pool'[i] = pool[i] /\ pool[i] \in Pooled
      BY <2>5 DEF PoolInv, PoolTypes
    <3>2. \A i, j \in 1..Len(pool') : pool'[i] = pool'[j] => i = j
      <4> TAKE i, j \in 1..Len(pool')
      <4>1. /\ i \in 1..Len(pool) \/ i = Len(pool) + 1
            /\ j \in 1..Len(pool) \/ j = Len(pool) + 1
        BY <3>1
      <4> QED
        BY <4>1, <3>1 DEF PoolInv, Alone
    <3>3. ASSUME NEW a \in Borrowers, NEW i \in 1..Len(pool') PROVE pool'[i] # conn'[a]
      <4>1. i \in 1..Len(pool) \/ i = Len(pool) + 1
        BY <3>1
      <4>2. pool'[i] # 0
        BY <4>1, <3>1, <1>1, Numbering
      <4> QED
        BY <4>1, <4>2, <3>1, <2>1, <1>2 DEF PoolInv, Alone
    <3> QED
      BY <3>2, <3>3, <2>2, <2>3 DEF Alone
  <2> QED
    BY <1>3, <2>4, <2>5
<1>7. /\ \A c \in Connections : uncommitted'[c] \subseteq uncommitted[c]
      /\ \A c \in Connections \ {conn[b]} : uncommitted'[c] = uncommitted[c]
  BY <1>1, <1>3 DEF PoolInv, PoolTypes
<1>8. Open'
  <2>1. ASSUME NEW c \in Connections, NEW a \in Borrowers, NEW n \in Nat,
               <<a, n>> \in uncommitted'[c]
        PROVE  (conn'[a] = c /\ Inside(a)') \/ outcome[a] = "cancelled"
    <3>1. (conn[a] = c /\ Inside(a)) \/ outcome[a] = "cancelled"
      BY <2>1, <1>7 DEF PoolInv, Open
    <3> QED
      BY <3>1, <1>1, <1>2 DEF Inside
  <2>2. ASSUME NEW a \in Borrowers, NEW n \in Nat, Inside(a)'
        PROVE  <<a, n>> \in uncommitted'[conn'[a]] <=> n \in 1..written[a]
    <3>1. a # b /\ Inside(a) /\ conn'[a] = conn[a]
      BY <2>2, <1>2 DEF Inside
    <3>2. conn[a] \in Connections \ {conn[b]}
      BY <3>1, <1>1, Numbering DEF PoolInv, PoolTypes, Stages, Alone, Inside
    <3> QED
      BY <3>1, <3>2, <1>7 DEF PoolInv, Open
  <2> QED
    BY <2>1, <2>2, <1>1 DEF Open
<1>9. Kept'
  BY <1>1 DEF PoolInv, Kept
<1> QED
  BY <1>4, <1>5, <1>6, <1>8, <1>9 DEF PoolInv

(* Nobody has the connection that is closed. *)
LEMMA GiveUpKeeps ==
  ASSUME PoolInv, ClosePool \/ CloseNext
  PROVE  PoolInv'
<1>1. CASE ClosePool
  <2>1. UNCHANGED <<pool, session, conn, written, uncommitted, committed, outcome>>
        /\ poolOpen' = FALSE
    BY <1>1 DEF ClosePool
  <2> QED
    BY <2>1 DEF PoolInv, PoolTypes, Stages, Alone, Open, Kept, Inside
<1>2. CASE CloseNext
  <2>1. /\ pool \in Seq(Pooled) /\ pool # <<>> /\ pool' = Tail(pool)
        /\ Head(pool) = pool[1] /\ pool[1] \in Pooled /\ 1 \in 1..Len(pool)
        /\ uncommitted' = [uncommitted EXCEPT ![pool[1]] = {}]
        /\ UNCHANGED <<poolOpen, session, conn, written, committed, outcome>>
    BY <1>2 DEF CloseNext, NoTransaction, PoolInv, PoolTypes
  <2>2. /\ Tail(pool) \in Seq(Pooled) /\ Len(Tail(pool)) = Len(pool) - 1
        /\ \A i \in 1..Len(Tail(pool)) : Tail(pool)[i] = pool[i + 1] /\ i + 1 \in 1..Len(pool)
        /\ Len(pool) \in Nat
    BY <2>1
  <2>3. /\ \A c \in Connections : uncommitted'[c] \subseteq uncommitted[c]
        /\ \A c \in Connections \ {pool[1]} : uncommitted'[c] = uncommitted[c]
    BY <2>1, Numbering DEF PoolInv, PoolTypes
  <2>4. PoolTypes'
    <3>1. uncommitted' \in [Connections -> SUBSET (Borrowers \X Nat)]
      BY <2>1 DEF PoolInv, PoolTypes
    <3> QED
      BY <3>1, <2>1, <2>2 DEF PoolInv, PoolTypes
  <2>5. Stages' /\ Kept'
    BY <2>1 DEF PoolInv, Stages, Kept
  <2>6. Alone'
    <3>1. \A i, j \in 1..Len(pool') : pool'[i] = pool'[j] => i = j
      <4> TAKE i, j \in 1..Len(pool')
      <4>1. pool'[i] = pool[i + 1] /\ pool'[j] = pool[j + 1]
            /\ i + 1 \in 1..Len(pool) /\ j + 1 \in 1..Len(pool)
        BY <2>1, <2>2
      <4>2. pool[i + 1] = pool[j + 1] => i + 1 = j + 1
        BY <4>1 DEF PoolInv, Alone
      <4> QED
        BY <4>1, <4>2
    <3>2. \A a \in Borrowers : \A i \in 1..Len(pool') : pool'[i] # conn[a]
      BY <2>1, <2>2 DEF PoolInv, Alone
    <3> QED
      BY <3>1, <3>2, <2>1 DEF PoolInv, Alone
  <2>7. Open'
    <3>1. \A a \in Borrowers : Inside(a) => conn[a] \in Connections \ {pool[1]}
      BY <2>1, Numbering DEF PoolInv, PoolTypes, Stages, Alone, Inside
    <3>2. ASSUME NEW a \in Borrowers, NEW n \in Nat, Inside(a)
          PROVE  <<a, n>> \in uncommitted'[conn[a]] <=> n \in 1..written[a]
      BY <3>1, <3>2, <2>3 DEF PoolInv, Open
    <3>3. \A c \in Connections, a \in Borrowers, n \in Nat : <<a, n>> \in uncommitted'[c] =>
            (conn[a] = c /\ Inside(a)) \/ outcome[a] = "cancelled"
      BY <2>3 DEF PoolInv, Open
    <3> QED
      BY <3>2, <3>3, <2>1 DEF Open, Inside
  <2> QED
    BY <2>4, <2>5, <2>6, <2>7 DEF PoolInv
<1> QED
  BY <1>1, <1>2

(* Connections, transactions and the database keep their account. *)
THEOREM PoolInvariant == PoolSpec => []PoolInv
<1>1. PoolInv /\ [PoolNext]_poolVars => PoolInv'
  <2> SUFFICES ASSUME PoolInv, [PoolNext]_poolVars PROVE PoolInv'
    OBVIOUS
  <2>1. CASE UNCHANGED poolVars
    BY <2>1 DEF poolVars, PoolInv, PoolTypes, Stages, Alone, Open, Kept, Inside
  <2>2. CASE ClosePool \/ CloseNext
    BY <2>2, GiveUpKeeps
  <2>3. ASSUME NEW b \in Borrowers, SessionSteps(b) PROVE PoolInv'
    BY <2>3, BorrowKeeps, ExecuteKeeps, LeaveKeeps, RaiseKeeps, GiveBackKeeps
    DEF SessionSteps
  <2> QED
    BY <2>1, <2>2, <2>3 DEF PoolNext
<1> QED
  BY <1>1, InitPool, PTL DEF PoolSpec

(* A database session (db.py get_session) reaches the database as a whole  *)
(* or not at all, unless it was cancelled, and holds the write lock no     *)
(* longer than it lasts.                                                   *)
THEOREM AtomicSessions == PoolSpec => []SessionsAtomic
<1>1. PoolInv => SessionsAtomic
  <2> SUFFICES ASSUME PoolInv PROVE SessionsAtomic
    OBVIOUS
  <2>1. ASSUME NEW b \in Borrowers, outcome[b] # "cancelled"
        PROVE  {w \in committed : w[1] = b} =
                 IF outcome[b] = "committed" THEN {b} \X (1..written[b]) ELSE {}
    <3> DEFINE own == {w \in committed : w[1] = b}
    <3>1. own = {w \in Borrowers \X Nat : w[1] = b /\ w \in committed}
      BY DEF PoolInv, PoolTypes
    <3>2. \A w \in own : \E n \in Nat : w = <<b, n>>
      BY <3>1
    <3>3. \A n \in Nat : <<b, n>> \in own <=> <<b, n>> \in committed
      OBVIOUS
    <3>4. CASE outcome[b] = "committed"
      <4>1. \A n \in Nat : <<b, n>> \in committed <=> n \in 1..written[b]
        BY <3>4 DEF PoolInv, Kept
      <4>2. written[b] \in Nat
        BY DEF PoolInv, PoolTypes
      <4>3. own = {b} \X (1..written[b])
        BY <3>2, <3>3, <4>1, <4>2
      <4> QED
        BY <4>3, <3>4
    <3>5. CASE outcome[b] # "committed"
      <4>1. \A n \in Nat : <<b, n>> \notin committed
        BY <2>1, <3>5 DEF PoolInv, Kept
      <4>2. own = {}
        BY <3>2, <3>3, <4>1
      <4> QED
        BY <4>2, <3>5
    <3> QED
      BY <3>4, <3>5
  <2>2. ASSUME NEW c \in Connections, NEW w \in uncommitted[c]
        PROVE  conn[w[1]] = c \/ outcome[w[1]] = "cancelled"
    <3>1. PICK a \in Borrowers, n \in Nat : w = <<a, n>>
      BY <2>2 DEF PoolInv, PoolTypes
    <3> QED
      BY <2>2, <3>1 DEF PoolInv, Open
  <2> QED
    BY <2>1, <2>2 DEF SessionsAtomic
<1> QED
  BY <1>1, PoolInvariant, PTL
=============================================================================
