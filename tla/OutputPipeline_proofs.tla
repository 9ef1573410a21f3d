------------------------ MODULE OutputPipeline_proofs ------------------------
(***************************************************************************)
(* Proof that the way from a running agent to a page implements            *)
(* OutputDelivery: what the page shows is in order and never twice, for    *)
(* any number of events, any sizes of the four queues and any mishaps.     *)
(***************************************************************************)
EXTENDS OutputPipeline, FiniteSetTheorems, TLAPS

Items == Nat \cup {Foreign}

(* The output events of S come before those of T. *)
Below(S, T) == \A a \in S, b \in T : a > 0 /\ b > 0 => a < b

Increasing(s) == \A i, j \in DOMAIN s : i < j /\ s[i] > 0 /\ s[j] > 0 => s[i] < s[j]

LEMMA NumbersAppend ==
  ASSUME NEW s \in Seq(Items), NEW n \in Items
  PROVE  /\ Append(s, n) \in Seq(Items)
         /\ Numbers(Append(s, n)) = Numbers(s) \cup {n}
<1>1. /\ Append(s, n) \in Seq(Items)
      /\ Len(Append(s, n)) = Len(s) + 1
      /\ \A i \in 1 .. Len(s) : Append(s, n)[i] = s[i]
      /\ Append(s, n)[Len(s) + 1] = n
  OBVIOUS
<1>2. DOMAIN Append(s, n) = 1 .. Len(s) + 1 /\ DOMAIN s = 1 .. Len(s)
  BY <1>1
<1> QED
  BY <1>1, <1>2 DEF Numbers

LEMMA NumbersTail ==
  ASSUME NEW s \in Seq(Items), s # <<>>
  PROVE  /\ Tail(s) \in Seq(Items) /\ Head(s) \in Items
         /\ Numbers(s) = {Head(s)} \cup Numbers(Tail(s))
<1>1. /\ Tail(s) \in Seq(Items) /\ Head(s) = s[1] /\ Len(s) \in Nat \ {0}
      /\ Len(Tail(s)) = Len(s) - 1
      /\ \A i \in 1 .. Len(s) - 1 : Tail(s)[i] = s[i + 1]
  OBVIOUS
<1>2. DOMAIN Tail(s) = 1 .. Len(s) - 1 /\ DOMAIN s = 1 .. Len(s)
  BY <1>1
<1>3. \A i \in 2 .. Len(s) : i - 1 \in DOMAIN Tail(s) /\ s[i] = Tail(s)[i - 1]
  BY <1>1, <1>2
<1>4. Numbers(s) \subseteq {Head(s)} \cup Numbers(Tail(s))
  <2> SUFFICES ASSUME NEW i \in 1 .. Len(s) PROVE s[i] \in {Head(s)} \cup Numbers(Tail(s))
    BY <1>2 DEF Numbers
  <2>1. CASE i = 1
    BY <1>1, <2>1
  <2>2. CASE i # 1
    <3>1. i \in 2 .. Len(s)
      BY <2>2, <1>1
    <3> QED
      BY <1>3, <3>1 DEF Numbers
  <2> QED
    BY <2>1, <2>2
<1>5. Numbers(Tail(s)) \subseteq Numbers(s)
  <2> SUFFICES ASSUME NEW i \in 1 .. Len(s) - 1 PROVE Tail(s)[i] \in Numbers(s)
    BY <1>2 DEF Numbers
  <2>1. i + 1 \in DOMAIN s /\ Tail(s)[i] = s[i + 1]
    BY <1>1, <1>2
  <2> QED
    BY <2>1 DEF Numbers
<1>6. Head(s) \in Numbers(s) /\ Head(s) \in Items
  <2>1. 1 \in DOMAIN s
    BY <1>1, <1>2
  <2> QED
    BY <1>1, <2>1 DEF Numbers
<1> QED
  BY <1>1, <1>4, <1>5, <1>6

LEMMA IncreasingAppend ==
  ASSUME NEW s \in Seq(Items), NEW n \in Items, Increasing(s), Below(Numbers(s), {n})
  PROVE  Increasing(Append(s, n))
<1>1. /\ Append(s, n) \in Seq(Items) /\ Len(s) \in Nat
      /\ Len(Append(s, n)) = Len(s) + 1
      /\ \A i \in 1 .. Len(s) : Append(s, n)[i] = s[i]
      /\ Append(s, n)[Len(s) + 1] = n
  OBVIOUS
<1>2. DOMAIN Append(s, n) = 1 .. Len(s) + 1 /\ DOMAIN s = 1 .. Len(s)
  BY <1>1
<1> SUFFICES ASSUME NEW i \in 1 .. Len(s) + 1, NEW j \in 1 .. Len(s) + 1, i < j,
                    Append(s, n)[i] > 0, Append(s, n)[j] > 0
             PROVE  Append(s, n)[i] < Append(s, n)[j]
  BY <1>2 DEF Increasing
<1>3. i \in 1 .. Len(s) /\ Append(s, n)[i] = s[i]
  BY <1>1
<1>4. CASE j \in 1 .. Len(s)
  BY <1>1, <1>2, <1>3, <1>4 DEF Increasing
<1>5. CASE j = Len(s) + 1
  BY <1>1, <1>2, <1>3, <1>5 DEF Below, Numbers
<1> QED
  BY <1>1, <1>4, <1>5

LEMMA IncreasingTail ==
  ASSUME NEW s \in Seq(Items), s # <<>>, Increasing(s)
  PROVE  Increasing(Tail(s)) /\ Below({Head(s)}, Numbers(Tail(s)))
<1>1. /\ Tail(s) \in Seq(Items) /\ Head(s) = s[1] /\ Len(s) \in Nat \ {0}
      /\ Len(Tail(s)) = Len(s) - 1
      /\ \A i \in 1 .. Len(s) - 1 : Tail(s)[i] = s[i + 1]
  OBVIOUS
<1>2. DOMAIN Tail(s) = 1 .. Len(s) - 1 /\ DOMAIN s = 1 .. Len(s)
  BY <1>1
<1>3. \A i \in DOMAIN Tail(s) : i + 1 \in DOMAIN s /\ Tail(s)[i] = s[i + 1] /\ i \in Nat \ {0}
  BY <1>1, <1>2
<1>4. Increasing(Tail(s))
  BY <1>3 DEF Increasing
<1>5. Below({Head(s)}, Numbers(Tail(s)))
  <2> SUFFICES ASSUME NEW i \in DOMAIN Tail(s), Head(s) > 0, Tail(s)[i] > 0
               PROVE  Head(s) < Tail(s)[i]
    BY DEF Below, Numbers
  <2>1. 1 \in DOMAIN s /\ i + 1 \in DOMAIN s /\ 1 < i + 1
    BY <1>1, <1>2, <1>3
  <2> QED
    BY <1>1, <1>3, <2>1 DEF Increasing
<1> QED
  BY <1>4, <1>5
-----------------------------------------------------------------------------
PageTypes ==
  /\ made \in Nat /\ shown \in 0 .. made
  /\ queue \in Seq(Items) /\ Numbers(queue) \subseteq 0 .. made
  /\ subscribed \subseteq Queue
  /\ box \in [Queue -> Seq(Items)]
  /\ Numbers(box[Out]) \subseteq Foreign .. made
  /\ Numbers(box[End]) \subseteq {Foreign, Eof}
  /\ hand \in [Queue -> {<<>>} \cup {<<n>> : n \in Nat}]
  /\ Numbers(hand[Out]) \subseteq 0 .. made
  /\ Numbers(hand[End]) \subseteq {Eof}
  /\ merged \in Seq(Items) /\ Numbers(merged) \subseteq 0 .. made
  /\ page \in {"off", "open", "gone"}

(* A page that is not open has nothing on its way to it. *)
Closed ==
  page # "open" =>
    /\ subscribed = {} /\ merged = <<>>
    /\ \A q \in Queue : box[q] = <<>> /\ hand[q] = <<>>

(* The output events come in the order in which they were made: through    *)
(* the process's queue, the page's, the hand of its relay, the merged      *)
(* queue, to the page.                                                     *)
InLine ==
  /\ Increasing(queue) /\ Increasing(box[Out]) /\ Increasing(merged)
  /\ Below({shown}, Numbers(merged))
  /\ Below({shown} \cup Numbers(merged), Numbers(hand[Out]))
  /\ Below({shown} \cup Numbers(merged) \cup Numbers(hand[Out]), Numbers(box[Out]))
  /\ Below({shown} \cup Numbers(merged) \cup Numbers(hand[Out]) \cup Numbers(box[Out]),
           Numbers(queue))

PageInv == PageTypes /\ Closed /\ InLine

LEMMA OutEnd == Out # End /\ Queue = {Out, End} /\ TopicOf(Out) = "output" /\ TopicOf(End) = "end"
BY PipelineAssumption DEF Out, End, TopicOf

LEMMA NumbersEmpty == Numbers(<<>>) = {} /\ Increasing(<<>>)
BY DEF Numbers, Increasing

LEMMA NumbersOne ==
  ASSUME NEW n
  PROVE  Numbers(<<n>>) = {n} /\ Head(<<n>>) = n /\ <<n>> # <<>> /\ Increasing(<<n>>)
BY DEF Numbers, Increasing

-----------------------------------------------------------------------------
(* What the process does to its queue, and what gets lost there. *)
Grows ==
  \/ made' = made + 1 /\ queue' = Append(queue, made') /\ missed' = missed
  \/ made' = made + 1 /\ queue' = queue /\ missed' = missed \cup {made'}
  \/ made' = made /\ queue' \in {queue, Append(queue, Eof)} /\ missed' = missed
  \/ /\ made' = made /\ queue' = <<Eof>>
     /\ missed' = missed \cup (Numbers(queue) \ {Eof})

LEMMA ProcessGrows == ProcessActs => Grows
<1> SUFFICES ASSUME ProcessActs PROVE Grows
  OBVIOUS
<1>1. ASSUME NEW kinds, Enqueue(kinds) PROVE Grows
  BY <1>1 DEF Enqueue, Grows
<1>2. CASE ProcessStart \/ SendInput \/ UserAnswers \/ StopCalled \/ StopCancels
  BY <1>2 DEF ProcessStart, SendInput, UserAnswers, StopCalled, StopCancels, Grows
<1>3. CASE \E q \in asking : AnswerTaken(q)
  BY <1>3 DEF AnswerTaken, Grows
<1>4. ASSUME NEW r \in Runs, RunStep(r) PROVE Grows
  <2>1. CASE RunBegins(r) \/ StreamStops(r) \/ StreamRaises(r)
    BY <2>1 DEF RunBegins, StreamStops, StreamRaises, Grows
  <2>2. CASE Emit(r) \/ EmitResult(r) \/ EmitError(r) \/ Ask(r)
    BY <1>1, <2>2 DEF Emit, EmitResult, EmitError, Ask
  <2>3. CASE EnqueueEof(r)
    BY <2>3 DEF EnqueueEof, Grows
  <2> QED
    BY <1>4, <2>1, <2>2, <2>3 DEF RunStep
<1> QED
  BY <1>2, <1>3, <1>4 DEF ProcessActs

LEMMA GrowsKeeps ==
  ASSUME PageInv, Grows, UNCHANGED <<busVars, pageVars>>
  PROVE  PageInv'
<1>1. queue \in Seq(Items) /\ Eof \in Items /\ made \in Nat /\ made + 1 \in Items
  BY DEF PageInv, PageTypes, Items, Eof
<1>2. made' \in Nat /\ made <= made'
  BY <1>1 DEF Grows
<1>3. /\ queue' \in Seq(Items) /\ Increasing(queue')
      /\ \/ Numbers(queue') \subseteq Numbers(queue) \cup {Eof}
         \/ made' = made + 1 /\ Numbers(queue') = Numbers(queue) \cup {made + 1}
  <2>1. Below(Numbers(queue), {made + 1}) /\ Below(Numbers(queue), {Eof})
    BY DEF PageInv, PageTypes, Below, Eof
  <2>2. Increasing(queue)
    BY DEF PageInv, InLine
  <2>3. CASE made' = made + 1 /\ queue' = Append(queue, made')
    <3>1. queue' = Append(queue, made + 1)
      BY <2>3
    <3>2. queue' \in Seq(Items) /\ Numbers(queue') = Numbers(queue) \cup {made + 1}
      BY <1>1, <3>1, NumbersAppend
    <3>3. Increasing(queue')
      BY <1>1, <2>1, <2>2, <3>1, IncreasingAppend
    <3> QED
      BY <2>3, <3>2, <3>3
  <2>4. CASE queue' = queue
    BY <1>1, <2>2, <2>4
  <2>5. CASE queue' = Append(queue, Eof)
    <3>1. queue' \in Seq(Items) /\ Numbers(queue') = Numbers(queue) \cup {Eof}
      BY <1>1, <2>5, NumbersAppend
    <3>2. Increasing(queue')
      BY <1>1, <2>1, <2>2, <2>5, IncreasingAppend
    <3> QED
      BY <3>1, <3>2
  <2>6. CASE queue' = <<Eof>>
    <3>1. Numbers(queue') = {Eof} /\ Increasing(queue')
      BY <2>6, NumbersOne, Zenon
    <3>2. queue' \in Seq(Items)
      BY <1>1, <2>6
    <3> QED
      BY <3>1, <3>2
  <2> QED
    BY <2>3, <2>4, <2>5, <2>6 DEF Grows
<1>4. UNCHANGED <<subscribed, box, hand, merged, shown, page>>
  BY DEF busVars, pageVars
<1>5. PageTypes'
  BY <1>2, <1>3, <1>4 DEF PageInv, PageTypes, Eof
<1>6. Closed'
  BY <1>4 DEF PageInv, Closed
<1>7. Below({shown} \cup Numbers(merged) \cup Numbers(hand[Out]) \cup Numbers(box[Out]),
            Numbers(queue'))
  BY <1>3 DEF PageInv, PageTypes, InLine, Below, Eof
<1> QED
  BY <1>3, <1>4, <1>5, <1>6, <1>7 DEF PageInv, InLine

(* What a publication does to the queues of the page. *)
LEMMA PublishAdds ==
  ASSUME PageInv, NEW q \in Queue, NEW item \in Items, Publish(TopicOf(q), item)
  PROVE  /\ subscribed' \subseteq subscribed
         /\ box' \in {box, [box EXCEPT ![q] = Append(box[q], item)]}
         /\ box' # box => page = "open"
<1>1. box' = [p \in Queue |-> IF p \in Takers(TopicOf(q)) THEN Append(box[p], item) ELSE box[p]]
  BY DEF Publish
<1>2. Takers(TopicOf(q)) \subseteq {q} /\ Takers(TopicOf(q)) \subseteq subscribed
  BY OutEnd DEF Takers, Listeners, PageInv, PageTypes
<1>3. box \in [Queue -> Seq(Items)]
  BY DEF PageInv, PageTypes
<1>4. CASE q \in Takers(TopicOf(q))
  <2>1. box' = [box EXCEPT ![q] = Append(box[q], item)]
    BY <1>1, <1>2, <1>3, <1>4
  <2>2. page = "open"
    BY <1>2, <1>4 DEF PageInv, Closed
  <2> QED
    BY <2>1, <2>2 DEF Publish
<1>5. CASE q \notin Takers(TopicOf(q))
  <2>1. box' = box
    BY <1>1, <1>2, <1>3, <1>5
  <2> QED
    BY <2>1 DEF Publish
<1> QED
  BY <1>4, <1>5

(* A publication for the page's output queue, of an event that comes after *)
(* all that is on its way.                                                 *)
LEMMA OutputKeeps ==
  ASSUME PageInv, NEW item \in Items \ {Eof}, Publish("output", item),
         made' \in Nat, made <= made', item <= made',
         queue' \in Seq(Items), Increasing(queue'), Numbers(queue') \subseteq Numbers(queue),
         Below({shown} \cup Numbers(merged) \cup Numbers(hand[Out]) \cup Numbers(box[Out]), {item}),
         Below({item}, Numbers(queue')),
         UNCHANGED pageVars
  PROVE  PageInv'
<1>1. /\ subscribed' \subseteq subscribed
      /\ box' \in {box, [box EXCEPT ![Out] = Append(box[Out], item)]}
      /\ box' # box => page = "open"
  BY OutEnd, PublishAdds
<1>2. UNCHANGED <<hand, merged, shown, page>>
  BY DEF pageVars
<1>3. box \in [Queue -> Seq(Items)] /\ Increasing(box[Out])
  BY DEF PageInv, PageTypes, InLine
<1>4. /\ box' \in [Queue -> Seq(Items)] /\ box'[End] = box[End]
      /\ Numbers(box'[Out]) \subseteq Numbers(box[Out]) \cup {item}
      /\ Increasing(box'[Out])
  <2>1. CASE box' = box
    BY <1>3, <2>1
  <2>2. CASE box' = [box EXCEPT ![Out] = Append(box[Out], item)]
    <3>1. box'[Out] = Append(box[Out], item) /\ box'[End] = box[End] /\ box[Out] \in Seq(Items)
      BY <1>3, <2>2, OutEnd
    <3>2. Below(Numbers(box[Out]), {item})
      BY DEF Below
    <3>3. /\ box'[Out] \in Seq(Items) /\ Increasing(box'[Out])
          /\ Numbers(box'[Out]) = Numbers(box[Out]) \cup {item}
      BY <1>3, <3>1, <3>2, NumbersAppend, IncreasingAppend
    <3> QED
      BY <1>3, <2>2, <3>1, <3>3
  <2> QED
    BY <1>1, <2>1, <2>2
<1>5. PageTypes'
  <2>1. Numbers(box'[Out]) \subseteq Foreign .. made'
    BY <1>4 DEF PageInv, PageTypes, Items, Foreign
  <2> QED
    BY <1>1, <1>2, <1>4, <2>1 DEF PageInv, PageTypes
<1>6. Closed'
  BY <1>1, <1>2 DEF PageInv, Closed
<1>7. Below({shown} \cup Numbers(merged) \cup Numbers(hand[Out]), Numbers(box'[Out]))
  BY <1>4 DEF PageInv, InLine, Below
<1>8. Below({shown} \cup Numbers(merged) \cup Numbers(hand[Out]) \cup Numbers(box'[Out]),
            Numbers(queue'))
  BY <1>4 DEF PageInv, InLine, Below
<1> QED
  BY <1>2, <1>4, <1>5, <1>6, <1>7, <1>8 DEF PageInv, InLine

(* A publication without a number, for either queue. *)
LEMMA UnnumberedKeeps ==
  ASSUME PageInv, NEW q \in Queue, NEW item \in {Eof, Foreign}, q = End \/ item = Foreign,
         Publish(TopicOf(q), item), UNCHANGED <<made, queue, pageVars>>
  PROVE  PageInv'
<1>a. item \in Items /\ item \in Int /\ item <= 0
  BY DEF Items, Eof, Foreign
<1>1. /\ subscribed' \subseteq subscribed
      /\ box' \in {box, [box EXCEPT ![q] = Append(box[q], item)]}
      /\ box' # box => page = "open"
  BY <1>a, PublishAdds
<1>2. UNCHANGED <<hand, merged, shown, page>>
  BY DEF pageVars
<1>3. box \in [Queue -> Seq(Items)] /\ Increasing(box[Out]) /\ Out \in Queue /\ End \in Queue
  BY OutEnd DEF PageInv, PageTypes, InLine
<1>4. /\ box' \in [Queue -> Seq(Items)] /\ Increasing(box'[Out])
      /\ Numbers(box'[Out]) \subseteq Numbers(box[Out]) \cup {Foreign}
      /\ Numbers(box'[End]) \subseteq Numbers(box[End]) \cup {Eof, Foreign}
  <2>1. CASE box' = box
    BY <1>3, <2>1
  <2>2. CASE q = Out /\ box' = [box EXCEPT ![q] = Append(box[q], item)]
    <3>1. box'[Out] = Append(box[Out], item) /\ box'[End] = box[End] /\ item = Foreign
      BY <1>3, <2>2, OutEnd
    <3>2. Below(Numbers(box[Out]), {item})
      BY <1>a DEF Below
    <3> QED
      BY <1>a, <1>3, <2>2, <3>1, <3>2, NumbersAppend, IncreasingAppend
  <2>3. CASE q = End /\ box' = [box EXCEPT ![q] = Append(box[q], item)]
    <3>1. box'[End] = Append(box[End], item) /\ box'[Out] = box[Out]
      BY <1>3, <2>3, OutEnd
    <3> QED
      BY <1>a, <1>3, <2>3, <3>1, NumbersAppend
  <2> QED
    BY <1>1, <2>1, <2>2, <2>3, OutEnd
<1>5. PageTypes'
  BY <1>1, <1>2, <1>4 DEF PageInv, PageTypes, Foreign, Eof
<1>6. Closed'
  BY <1>1, <1>2 DEF PageInv, Closed
<1>7. Below({shown} \cup Numbers(merged) \cup Numbers(hand[Out]), Numbers(box'[Out]))
  BY <1>4 DEF PageInv, InLine, Below, Foreign
<1>8. Below({shown} \cup Numbers(merged) \cup Numbers(hand[Out]) \cup Numbers(box'[Out]),
            Numbers(queue))
  BY <1>4 DEF PageInv, InLine, Below, Foreign
<1> QED
  BY <1>2, <1>4, <1>5, <1>6, <1>7, <1>8 DEF PageInv, InLine

LEMMA MonitorKeeps ==
  ASSUME PageInv,
         \/ MonitorActs \/ MonitorBeats
         \/ \E topic \in {"output", "end"} : OtherTaskTells(topic)
  PROVE  PageInv'
<1>a. queue \in Seq(Items) /\ made \in Nat /\ Increasing(queue)
  BY DEF PageInv, PageTypes, InLine
<1>1. CASE MonitorTakes
  <2> DEFINE item == Head(queue)
  <2>1. queue # <<>> /\ queue' = Tail(queue) /\ made' = made /\ UNCHANGED pageVars
    BY <1>1 DEF MonitorTakes, NextOutput
  <2>2. /\ queue' \in Seq(Items) /\ item \in Items
        /\ Numbers(queue) = {item} \cup Numbers(queue')
    BY <1>a, <2>1, NumbersTail
  <2>3. Increasing(queue') /\ Below({item}, Numbers(queue'))
    BY <1>a, <2>1, IncreasingTail
  <2>4. CASE item = Eof
    <3>1. UNCHANGED <<made, subscribed, box, hand, merged, shown, page>>
      BY <1>1, <2>1, <2>4 DEF MonitorTakes, busVars, pageVars
    <3>2. PageTypes' /\ Closed'
      BY <2>2, <3>1 DEF PageInv, PageTypes, Closed
    <3> QED
      BY <2>2, <2>3, <3>1, <3>2 DEF PageInv, InLine, Below
  <2>5. CASE item # Eof
    <3>1. Publish("output", item)
      BY <1>1, <2>5, OutEnd DEF MonitorTakes, PublishFor
    <3>2. item \in 0 .. made
      BY <2>2 DEF PageInv, PageTypes
    <3>3. Below({shown} \cup Numbers(merged) \cup Numbers(hand[Out]) \cup Numbers(box[Out]), {item})
      BY <2>2 DEF PageInv, InLine, Below
    <3> HIDE DEF item
    <3>4. item \in Items \ {Eof} /\ made' \in Nat /\ made <= made' /\ item <= made'
      BY <1>a, <2>1, <2>2, <2>5, <3>2
    <3>5. Numbers(queue') \subseteq Numbers(queue)
      BY <2>2
    <3> QED
      BY <2>1, <2>2, <2>3, <3>1, <3>3, <3>4, <3>5, OutputKeeps
  <2> QED
    BY <2>4, <2>5
<1>2. CASE MonitorBeats
  <2>1. queue = <<>> /\ queue' = queue /\ made' = made + 1 /\ UNCHANGED pageVars
    BY <1>2 DEF MonitorBeats, Heartbeat
  <2>2. Publish("output", made + 1)
    BY <1>2, <2>1, OutEnd DEF MonitorBeats, PublishFor
  <2>3. Numbers(queue') = {} /\ Increasing(queue') /\ queue' \in Seq(Items)
    BY <1>a, <2>1, NumbersEmpty
  <2>4. Below({shown} \cup Numbers(merged) \cup Numbers(hand[Out]) \cup Numbers(box[Out]), {made + 1})
    BY DEF PageInv, PageTypes, Below, Foreign
  <2>5. Below({made + 1}, Numbers(queue'))
    BY <2>3 DEF Below
  <2>6. made + 1 \in Items \ {Eof} /\ made' \in Nat /\ made <= made' /\ made + 1 <= made'
    BY <1>a, <2>1 DEF Items, Eof
  <2> QED
    BY <2>1, <2>2, <2>3, <2>4, <2>5, <2>6, OutputKeeps
<1>3. CASE MonitorTells \/ StopTells
  <2>1. UNCHANGED <<made, queue, pageVars>>
    BY <1>3 DEF MonitorTells, StopTells, StopReturns
  <2>2. Publish(TopicOf(End), Eof)
    BY <1>3 DEF MonitorTells, StopTells, PublishFor
  <2> QED
    BY <2>1, <2>2, OutEnd, UnnumberedKeeps
<1>4. ASSUME NEW topic \in {"output", "end"}, OtherTaskTells(topic) PROVE PageInv'
  <2>1. UNCHANGED <<made, queue, pageVars>> /\ Publish(topic, Foreign)
    BY <1>4 DEF OtherTaskTells
  <2>2. PICK q \in Queue : topic = TopicOf(q)
    BY OutEnd
  <2> QED
    BY <2>1, <2>2, UnnumberedKeeps
<1> QED
  BY <1>1, <1>2, <1>3, <1>4 DEF MonitorActs

LEMMA OpenCloseKeep ==
  ASSUME PageInv, PageOpens \/ PageCloses
  PROVE  PageInv'
<1>1. CASE PageOpens
  <2>1. /\ UNCHANGED <<made, queue, hand, merged, shown>> /\ page' = "open"
        /\ subscribed' = subscribed \cup Queue
    BY <1>1 DEF PageOpens, Subscribe, processVars
  <2>2. box' = [q \in Queue |-> <<>>]
    BY <1>1 DEF PageOpens, Subscribe
  <2>3. Numbers(box'[Out]) = {} /\ Numbers(box'[End]) = {} /\ Increasing(box'[Out])
    BY <2>2, OutEnd, NumbersEmpty
  <2>4. PageTypes'
    <3>1. <<>> \in Seq(Items)
      OBVIOUS
    <3>2. box' \in [Queue -> Seq(Items)]
      BY <2>2, <3>1
    <3> QED
      BY <2>1, <2>3, <3>2 DEF PageInv, PageTypes
  <2>5. Closed'
    BY <2>1 DEF Closed
  <2> QED
    BY <2>1, <2>3, <2>4, <2>5 DEF PageInv, InLine, Below
<1>2. CASE PageCloses
  <2>1. /\ UNCHANGED <<made, queue, shown>> /\ page' = "gone" /\ merged' = <<>>
        /\ subscribed' = subscribed \ Queue /\ hand' = [q \in Queue |-> <<>>]
    BY <1>2 DEF PageCloses, Unsubscribe, processVars
  <2>2. box' = [q \in Queue |-> IF q \in Queue THEN <<>> ELSE box[q]]
    BY <1>2 DEF PageCloses, Unsubscribe
  <2>3. /\ Numbers(box'[Out]) = {} /\ Numbers(box'[End]) = {} /\ Increasing(box'[Out])
        /\ Numbers(hand'[Out]) = {} /\ Numbers(hand'[End]) = {}
        /\ Numbers(merged') = {} /\ Increasing(merged')
    BY <2>1, <2>2, OutEnd, NumbersEmpty
  <2>4. PageTypes'
    <3>1. <<>> \in Seq(Items)
      OBVIOUS
    <3>2. /\ box' \in [Queue -> Seq(Items)] /\ merged' \in Seq(Items)
          /\ hand' \in [Queue -> {<<>>} \cup {<<n>> : n \in Nat}]
      BY <2>1, <2>2, <3>1
    <3> QED
      BY <2>1, <2>3, <3>2 DEF PageInv, PageTypes
  <2>5. Closed'
    BY <2>1, <2>2 DEF PageInv, PageTypes, Closed
  <2> QED
    BY <2>1, <2>3, <2>4, <2>5 DEF PageInv, InLine, Below
<1> QED
  BY <1>1, <1>2

LEMMA RelayTakesKeeps ==
  ASSUME PageInv, NEW q \in Queue, RelayTakes(q)
  PROVE  PageInv'
<1> DEFINE item == Head(box[q])
<1>1. /\ UNCHANGED <<made, queue, merged, shown, page, subscribed>> /\ page = "open"
      /\ hand[q] = <<>> /\ box[q] # <<>>
      /\ box' = [box EXCEPT ![q] = Tail(box[q])]
      /\ hand' = [hand EXCEPT ![q] = IF item = Foreign THEN <<>> ELSE <<item>>]
  BY DEF RelayTakes, TakeFrom, processVars, PageInv, PageTypes
<1>2. box[q] \in Seq(Items) /\ box \in [Queue -> Seq(Items)]
  BY DEF PageInv, PageTypes
<1>3. /\ Tail(box[q]) \in Seq(Items) /\ item \in Items
      /\ Numbers(box[q]) = {item} \cup Numbers(Tail(box[q]))
  BY <1>1, <1>2, NumbersTail
<1> DEFINE held == IF item = Foreign THEN <<>> ELSE <<item>>
<1>4. /\ held \in {<<>>} \cup {<<n>> : n \in Nat}
      /\ Numbers(held) \subseteq {item} \ {Foreign}
  <2>1. CASE item = Foreign
    BY <2>1, NumbersEmpty
  <2>2. CASE item # Foreign
    BY <1>3, <2>2, NumbersOne DEF Items
  <2> QED
    BY <2>1, <2>2
<1>5. hand' = [hand EXCEPT ![q] = held]
  BY <1>1
<1>6. hand \in [Queue -> {<<>>} \cup {<<n>> : n \in Nat}]
  BY DEF PageInv, PageTypes
<1> HIDE DEF held, item
<1>7. Closed'
  BY <1>1 DEF Closed
<1>8. /\ box' \in [Queue -> Seq(Items)]
      /\ hand' \in [Queue -> {<<>>} \cup {<<n>> : n \in Nat}]
  BY <1>1, <1>2, <1>3, <1>4, <1>5, <1>6
<1>9. CASE q = Out
  <2>1. Increasing(Tail(box[Out])) /\ Below({item}, Numbers(Tail(box[Out])))
    BY <1>1, <1>2, <1>9, IncreasingTail DEF PageInv, InLine, item
  <2>2. /\ box'[Out] = Tail(box[Out]) /\ hand'[Out] = held
        /\ box'[End] = box[End] /\ hand'[End] = hand[End]
    BY <1>1, <1>2, <1>5, <1>6, <1>9, OutEnd
  <2>3. Numbers(hand[Out]) = {}
    BY <1>1, <1>9, NumbersEmpty
  <2>4. PageTypes'
    <3>1. Numbers(box[Out]) \subseteq Foreign .. made /\ made \in Nat
      BY DEF PageInv, PageTypes
    <3>2. Numbers(box'[Out]) \subseteq Foreign .. made
      BY <1>3, <1>9, <2>2, <3>1
    <3>a. item \in Numbers(box[Out])
      BY <1>3, <1>9
    <3>b. item \in Foreign .. made /\ item \in Items
      BY <1>3, <3>1, <3>a
    <3>3. item # Foreign => item \in 0 .. made
      BY <3>1, <3>b DEF Items, Foreign
    <3>4. Numbers(hand'[Out]) \subseteq 0 .. made
      BY <1>4, <2>2, <3>3
    <3> QED
      BY <1>1, <1>8, <2>2, <3>2, <3>4 DEF PageInv, PageTypes
  <2> QED
    BY <1>1, <1>3, <1>4, <1>7, <1>9, <2>1, <2>2, <2>3, <2>4 DEF PageInv, InLine, Below
<1>10. CASE q = End
  <2>1. /\ box'[End] = Tail(box[End]) /\ hand'[End] = held
        /\ box'[Out] = box[Out] /\ hand'[Out] = hand[Out]
    BY <1>1, <1>2, <1>5, <1>6, <1>10, OutEnd
  <2>2. PageTypes'
    BY <1>1, <1>3, <1>4, <1>8, <1>10, <2>1 DEF PageInv, PageTypes, Foreign, Eof
  <2> QED
    BY <1>1, <1>7, <2>1, <2>2 DEF PageInv, InLine
<1> QED
  BY <1>9, <1>10, OutEnd

LEMMA RelayPutsKeeps ==
  ASSUME PageInv, NEW q \in Queue, RelayPuts(q)
  PROVE  PageInv'
<1>1. /\ UNCHANGED <<made, queue, box, shown, page, subscribed>> /\ hand[q] # <<>>
      /\ merged' = Append(merged, Head(hand[q]))
      /\ hand' = [hand EXCEPT ![q] = <<>>]
  BY DEF RelayPuts, processVars, busVars
<1>2. /\ hand \in [Queue -> {<<>>} \cup {<<n>> : n \in Nat}]
      /\ merged \in Seq(Items) /\ Increasing(merged)
  BY DEF PageInv, PageTypes, InLine
<1>3. PICK n \in Nat : hand[q] = <<n>>
  BY <1>1, <1>2
<1>4. Numbers(hand[q]) = {n} /\ Head(hand[q]) = n /\ n \in Items
  BY <1>3, NumbersOne DEF Items
<1>5. Below(Numbers(merged), {n})
  <2>1. CASE q = Out
    BY <1>4, <2>1 DEF PageInv, InLine, Below
  <2>2. CASE q = End
    <3>1. n = 0
      BY <1>4, <2>2 DEF PageInv, PageTypes, Eof
    <3> QED
      BY <3>1 DEF Below
  <2> QED
    BY <2>1, <2>2, OutEnd
<1>6. /\ merged' \in Seq(Items) /\ Increasing(merged')
      /\ Numbers(merged') = Numbers(merged) \cup {n}
  BY <1>1, <1>2, <1>4, <1>5, NumbersAppend, IncreasingAppend
<1>7. page = "open"
  BY <1>1 DEF PageInv, Closed
<1>8. Closed'
  BY <1>1, <1>7 DEF Closed
<1>9. hand' \in [Queue -> {<<>>} \cup {<<k>> : k \in Nat}]
  BY <1>1, <1>2
<1>10. CASE q = Out
  <2>1. hand'[Out] = <<>> /\ hand'[End] = hand[End]
    BY <1>1, <1>2, <1>10, OutEnd
  <2>2. Numbers(hand'[Out]) = {}
    BY <2>1, NumbersEmpty
  <2>3. PageTypes'
    BY <1>1, <1>4, <1>6, <1>9, <1>10, <2>1, <2>2 DEF PageInv, PageTypes
  <2> QED
    BY <1>1, <1>4, <1>6, <1>8, <1>10, <2>2, <2>3 DEF PageInv, InLine, Below
<1>11. CASE q = End
  <2>1. hand'[End] = <<>> /\ hand'[Out] = hand[Out]
    BY <1>1, <1>2, <1>11, OutEnd
  <2>2. Numbers(hand'[End]) = {} /\ n = 0
    BY <1>4, <1>11, <2>1, NumbersEmpty DEF PageInv, PageTypes, Eof
  <2>3. PageTypes'
    BY <1>1, <1>6, <1>9, <2>1, <2>2 DEF PageInv, PageTypes
  <2> QED
    BY <1>1, <1>6, <1>8, <2>1, <2>2, <2>3 DEF PageInv, InLine, Below
<1> QED
  BY <1>10, <1>11, OutEnd

(* What is shown next comes after all that was shown. *)
LEMMA PageShowsKeeps ==
  ASSUME PageInv, PageShows
  PROVE  /\ PageInv'
         /\ shown' = shown \/ shown' \in shown + 1 .. made
<1> DEFINE item == Head(merged)
<1>1. /\ UNCHANGED <<made, queue, box, hand, page, subscribed>> /\ page = "open"
      /\ merged # <<>> /\ merged' = Tail(merged)
      /\ shown' = IF item = Eof THEN shown ELSE item
  BY DEF PageShows, processVars, busVars
<1>2. merged \in Seq(Items) /\ Increasing(merged)
  BY DEF PageInv, PageTypes, InLine
<1>3. /\ merged' \in Seq(Items) /\ Numbers(merged) = {item} \cup Numbers(merged')
      /\ Increasing(merged') /\ Below({item}, Numbers(merged'))
  BY <1>1, <1>2, NumbersTail, IncreasingTail
<1> HIDE DEF item
<1>4. item \in 0 .. made
  BY <1>3 DEF PageInv, PageTypes
<1>5. \/ shown' = shown
      \/ shown' = item /\ item \in shown + 1 .. made
  <2>1. shown \in Nat /\ made \in Nat /\ Below({shown}, {item})
    BY <1>3 DEF PageInv, PageTypes, InLine, Below
  <2>2. shown > 0 /\ item > 0 => shown < item
    BY <2>1 DEF Below
  <2>3. CASE item = Eof
    BY <1>1, <2>3
  <2>4. CASE item # Eof
    <3>1. shown' = item
      BY <1>1, <2>4
    <3>2. item \in shown + 1 .. made
      BY <1>4, <2>1, <2>2, <2>4 DEF Eof
    <3> QED
      BY <3>1, <3>2
  <2> QED
    BY <2>3, <2>4
<1>6. PageTypes'
  BY <1>1, <1>3, <1>4, <1>5 DEF PageInv, PageTypes
<1>7. Closed'
  BY <1>1 DEF Closed
<1>8. InLine'
  BY <1>1, <1>3, <1>5 DEF PageInv, InLine, Below
<1> QED
  BY <1>5, <1>6, <1>7, <1>8 DEF PageInv
-----------------------------------------------------------------------------
(* What is on its way to the page is always in line. *)
THEOREM PageInvariant == PipelineSafe => []PageInv
<1>1. PipelineInit => PageInv
  <2> SUFFICES ASSUME PipelineInit PROVE PageInv
    OBVIOUS
  <2>1. /\ made = 0 /\ shown = 0 /\ queue = <<>> /\ merged = <<>> /\ page = "off"
        /\ subscribed = {}
        /\ \A q \in Queue : box[q] = <<>> /\ hand[q] = <<>>
        /\ box = [q \in Queue |-> <<>>] /\ hand = [q \in Queue |-> <<>>]
    BY DEF PipelineInit, ProcessInit, BusInit
  <2>2. PageTypes
    BY <2>1, OutEnd, NumbersEmpty DEF PageTypes
  <2> QED
    BY <2>1, <2>2, OutEnd, NumbersEmpty DEF PageInv, Closed, InLine, Below
<1>2. PageInv /\ [PipelineNext]_pipelineVars => PageInv'
  <2> SUFFICES ASSUME PageInv, [PipelineNext]_pipelineVars PROVE PageInv'
    OBVIOUS
  <2>1. CASE UNCHANGED pipelineVars
    BY <2>1 DEF pipelineVars, processVars, busVars, pageVars, PageInv, PageTypes, Closed, InLine
  <2>2. CASE ProcessActs /\ UNCHANGED <<busVars, pageVars>>
    BY <2>2, ProcessGrows, GrowsKeeps
  <2>3. CASE PageActs
    BY <2>3, RelayTakesKeeps, RelayPutsKeeps, PageShowsKeeps DEF PageActs
  <2> QED
    BY <2>1, <2>2, <2>3, MonitorKeeps, OpenCloseKeep DEF PipelineNext
<1> QED
  BY <1>1, <1>2, PTL DEF PipelineSafe

(* Refinement: the queues, relays and mishaps between an agent and a page  *)
(* implement OutputDelivery, whose page shows events that were made, in    *)
(* order and none twice.                                                   *)
THEOREM DeliversInOrder == PipelineSafe => Ordered
<1>1. PipelineInit => Delivery!Init
  BY DEF PipelineInit, ProcessInit, Delivery!Init
<1>2. PageInv /\ [PipelineNext]_pipelineVars => [Delivery!Next]_(Delivery!vars)
  <2> SUFFICES ASSUME PageInv, PipelineNext
               PROVE  Delivery!Next \/ UNCHANGED Delivery!vars
    BY DEF pipelineVars, processVars, pageVars, Delivery!vars
  <2>1. CASE ProcessActs /\ UNCHANGED <<busVars, pageVars>>
    <3>1. made' \in {made, made + 1}
      BY <2>1, ProcessGrows DEF Grows
    <3> QED
      BY <2>1, <3>1 DEF pageVars, Delivery!Next, Delivery!Make, Delivery!vars
  <2>2. CASE MonitorActs
    BY <2>2 DEF MonitorActs, MonitorTakes, NextOutput, MonitorTells, StopTells, StopReturns,
                pageVars, Delivery!vars
  <2>3. CASE MonitorBeats
    BY <2>3 DEF MonitorBeats, Heartbeat, pageVars, Delivery!Next, Delivery!Make
  <2>4. CASE PageOpens
    BY <2>4 DEF PageOpens, processVars, Delivery!Next, Delivery!Open
  <2>5. CASE PageCloses
    BY <2>5 DEF PageCloses, processVars, Delivery!Next, Delivery!Close
  <2>6. CASE PageShows
    <3>1. shown' = shown \/ shown' \in shown + 1 .. made
      BY <2>6, PageShowsKeeps
    <3>2. page = "open" /\ UNCHANGED <<made, page>>
      BY <2>6 DEF PageShows, processVars
    <3> QED
      BY <3>1, <3>2 DEF Delivery!Next, Delivery!Show, Delivery!vars
  <2>7. ASSUME NEW q \in Queue, RelayTakes(q) \/ RelayPuts(q) PROVE UNCHANGED Delivery!vars
    BY <2>7 DEF RelayTakes, RelayPuts, processVars, Delivery!vars
  <2>8. ASSUME NEW topic \in {"output", "end"}, OtherTaskTells(topic)
        PROVE  UNCHANGED Delivery!vars
    BY <2>8 DEF OtherTaskTells, pageVars, Delivery!vars
  <2> QED
    BY <2>1, <2>2, <2>3, <2>4, <2>5, <2>6, <2>7, <2>8 DEF PipelineNext, PageActs
<1> QED
  BY <1>1, <1>2, PageInvariant, PTL DEF PipelineSafe, Ordered, Delivery!Spec
-----------------------------------------------------------------------------
(* Where the output events are: on their way or at the page, unless they   *)
(* were missed.                                                            *)
Behind == Numbers(box[Out]) \cup Numbers(hand[Out]) \cup Numbers(merged) \cup seen

Passing == Numbers(queue) \cup Behind

Accounted ==
  /\ seen \subseteq 0 .. shown /\ missed \subseteq 0 .. made
  /\ page # "gone" => \A n \in 1 .. made : n \in Passing <=> n \notin missed

(* What passes was made, and it passes one place at a time. *)
LEMMA PassingApart ==
  ASSUME PageInv, Accounted, NEW n \in Nat \ {0}
  PROVE  /\ n \in Passing => n <= made
         /\ n \in Numbers(queue) => n \notin Behind
         /\ n \in Numbers(box[Out]) =>
              n \notin Numbers(hand[Out]) \cup Numbers(merged) \cup seen
         /\ n \in Numbers(hand[Out]) => n \notin Numbers(merged) \cup seen
         /\ n \in Numbers(merged) => n \notin seen
<1>1. n > 0 /\ made \in Nat /\ shown \in 0 .. made
  BY DEF PageInv, PageTypes
<1>2. n \in seen => n <= shown
  BY DEF Accounted
<1>3. /\ n \in Numbers(queue) => n <= made /\ ~ n <= shown
      /\ n \in Numbers(box[Out]) => n <= made /\ ~ n <= shown
      /\ n \in Numbers(hand[Out]) => n <= made /\ ~ n <= shown
      /\ n \in Numbers(merged) => n <= made /\ ~ n <= shown
  <2>1. Passing \ seen \subseteq Foreign .. made
    BY <1>1 DEF PageInv, PageTypes, Passing, Behind, Foreign
  <2>2. ASSUME \/ n \in Numbers(queue) \/ n \in Numbers(box[Out])
               \/ n \in Numbers(hand[Out]) \/ n \in Numbers(merged)
        PROVE  n <= made /\ ~ n <= shown
    <3>1. shown > 0 => shown < n
      BY <1>1, <2>2 DEF PageInv, InLine, Below
    <3>2. ~ n <= shown
      BY <1>1, <3>1
    <3>3. n \in Passing \ seen
      BY <1>1, <1>2, <2>2, <3>2 DEF Passing, Behind
    <3> QED
      BY <1>1, <2>1, <3>2, <3>3
  <2> QED
    BY <2>2
<1>4. /\ n \in Numbers(queue) =>
           n \notin Numbers(box[Out]) \cup Numbers(hand[Out]) \cup Numbers(merged)
      /\ n \in Numbers(box[Out]) => n \notin Numbers(hand[Out]) \cup Numbers(merged)
      /\ n \in Numbers(hand[Out]) => n \notin Numbers(merged)
  BY <1>1 DEF PageInv, InLine, Below
<1> QED
  BY <1>1, <1>2, <1>3, <1>4 DEF Passing, Behind

(* Steps that make no event and miss none. *)
LEMMA AccountKept ==
  ASSUME PageInv, Accounted, made' = made, missed' \ {Eof} = missed \ {Eof},
         seen' \subseteq 0 .. shown', page = "gone" => page' = "gone",
         \A n \in Nat \ {0} : n \in Passing' <=> n \in Passing
  PROVE  Accounted'
<1>1. made \in Nat
  BY DEF PageInv, PageTypes
<1>2. missed' \subseteq 0 .. made'
  <2>1. missed' \subseteq missed \cup {0}
    BY DEF Eof
  <2> QED
    BY <1>1, <2>1 DEF Accounted
<1>3. ASSUME page' # "gone", NEW n \in 1 .. made'
      PROVE  n \in Passing' <=> n \notin missed'
  <2>1. n \in 1 .. made /\ n \in Nat \ {0} /\ n # Eof
    BY <1>1 DEF Eof
  <2> QED
    BY <1>3, <2>1 DEF Accounted
<1> QED
  BY <1>2, <1>3 DEF Accounted

LEMMA GrowsAccounts ==
  ASSUME PageInv, Accounted, Grows, UNCHANGED <<busVars, pageVars>>
  PROVE  Accounted'
<1>1. queue \in Seq(Items) /\ Eof \in Items /\ made \in Nat /\ made + 1 \in Items
  BY DEF PageInv, PageTypes, Items, Eof
<1>2. UNCHANGED <<Behind, seen, shown, page>>
  BY DEF busVars, pageVars, Behind
<1>3. missed \subseteq 0 .. made /\ seen \subseteq 0 .. shown
  BY DEF Accounted
<1>4. ASSUME made' = made + 1,
             \/ queue' = Append(queue, made + 1) /\ missed' = missed
             \/ queue' = queue /\ missed' = missed \cup {made + 1}
      PROVE  Accounted'
  <2>1. \/ Numbers(queue') = Numbers(queue) \cup {made + 1} /\ missed' = missed
        \/ Numbers(queue') = Numbers(queue) /\ missed' = missed \cup {made + 1}
    BY <1>1, <1>4, NumbersAppend
  <2>2. missed' \subseteq 0 .. made'
    <3>1. missed' \subseteq missed \cup {made + 1}
      BY <1>4
    <3>2. 0 .. made \cup {made + 1} \subseteq 0 .. made'
      BY <1>1, <1>4
    <3> QED
      BY <1>3, <3>1, <3>2
  <2>3. made + 1 \notin Passing /\ made + 1 \notin missed
    BY <1>1, <1>3, PassingApart
  <2>4. ASSUME page # "gone", NEW n \in 1 .. made + 1
        PROVE  n \in Passing' <=> n \notin missed'
    <3>1. CASE n = made + 1
      BY <1>2, <2>1, <2>3, <3>1 DEF Passing
    <3>2. CASE n \in 1 .. made
      <4>1. n \in Passing <=> n \notin missed
        BY <2>4, <3>2 DEF Accounted
      <4>2. n # made + 1
        BY <1>1, <3>2
      <4> QED
        BY <1>2, <2>1, <4>1, <4>2 DEF Passing
    <3> QED
      BY <1>1, <3>1, <3>2
  <2> QED
    BY <1>2, <1>3, <1>4, <2>2, <2>4 DEF Accounted
<1>5. CASE made' = made /\ queue' \in {queue, Append(queue, Eof)} /\ missed' = missed
  <2>1. Numbers(queue') \in {Numbers(queue), Numbers(queue) \cup {Eof}}
    BY <1>1, <1>5, NumbersAppend
  <2>2. \A n \in Nat \ {0} : n \in Passing' <=> n \in Passing
    BY <1>2, <2>1 DEF Passing, Eof
  <2> QED
    BY <1>2, <1>3, <1>5, <2>2, AccountKept
<1>6. CASE /\ made' = made /\ queue' = <<Eof>>
           /\ missed' = missed \cup (Numbers(queue) \ {Eof})
  <2>1. Numbers(queue') = {Eof}
    BY <1>6, NumbersOne, Zenon
  <2>2. missed' \subseteq 0 .. made'
    BY <1>3, <1>6 DEF PageInv, PageTypes
  <2>3. ASSUME page # "gone", NEW n \in 1 .. made
        PROVE  n \in Passing' <=> n \notin missed'
    <3>1. n \in Nat \ {0} /\ n # Eof
      BY <1>1 DEF Eof
    <3>2. n \in Passing <=> n \notin missed
      BY <2>3 DEF Accounted
    <3>3. n \in Numbers(queue) => n \notin Behind
      BY <3>1, PassingApart
    <3> QED
      BY <1>2, <1>6, <2>1, <3>1, <3>2, <3>3 DEF Passing
  <2> QED
    BY <1>2, <1>3, <1>6, <2>2, <2>3 DEF Accounted
<1> QED
  BY <1>4, <1>5, <1>6 DEF Grows

(* A published item that is no event of this task, for either queue. *)
LEMMA UnnumberedAccounts ==
  ASSUME PageInv, Accounted, NEW q \in Queue, NEW item \in {Eof, Foreign},
         Publish(TopicOf(q), item), missed' \in {missed, missed \cup {Eof}},
         UNCHANGED <<made, queue, pageVars>>
  PROVE  Accounted'
<1>1. item \in Items /\ item \in Int /\ item <= 0
  BY DEF Items, Eof, Foreign
<1>2. /\ box \in [Queue -> Seq(Items)] /\ Out \in Queue
      /\ box' \in {box, [box EXCEPT ![q] = Append(box[q], item)]}
  BY <1>1, OutEnd, PublishAdds DEF PageInv, PageTypes
<1>3. Numbers(box'[Out]) \in {Numbers(box[Out]), Numbers(box[Out]) \cup {item}}
  <2>1. box'[Out] \in {box[Out], Append(box[Out], item)}
    BY <1>2
  <2> QED
    BY <1>1, <1>2, <2>1, NumbersAppend
<1>4. \A n \in Nat \ {0} : n \in Passing' <=> n \in Passing
  BY <1>1, <1>3 DEF Passing, Behind, pageVars
<1>5. seen' \subseteq 0 .. shown' /\ page' = page
  BY DEF Accounted, pageVars
<1> QED
  BY <1>4, <1>5, AccountKept DEF Eof

(* The page's output queue takes an item, or it is missed. *)
LEMMA PublishTakes ==
  ASSUME PageInv, NEW item \in Items, PublishFor(Out, item)
  PROVE  \/ /\ Numbers(box'[Out]) = Numbers(box[Out]) \cup {item}
            /\ missed' = missed
         \/ /\ Numbers(box'[Out]) = Numbers(box[Out])
            /\ missed' = missed \cup {item}
<1>1. /\ box'[Out] = IF Out \in Takers(TopicOf(Out)) THEN Append(box[Out], item)
                     ELSE box[Out]
      /\ missed' = IF Out \in Takers(TopicOf(Out)) THEN missed
                   ELSE missed \cup {item}
      /\ box[Out] \in Seq(Items)
  BY OutEnd DEF PublishFor, Publish, PageInv, PageTypes
<1> QED
  BY <1>1, NumbersAppend

LEMMA MonitorAccounts ==
  ASSUME PageInv, Accounted,
         \/ MonitorActs \/ MonitorBeats
         \/ \E topic \in {"output", "end"} : OtherTaskTells(topic)
  PROVE  Accounted'
<1>1. queue \in Seq(Items) /\ made \in Nat /\ missed \subseteq 0 .. made
  BY DEF PageInv, PageTypes, Accounted
<1>2. CASE MonitorTakes
  <2> DEFINE item == Head(queue)
  <2>1. queue # <<>> /\ queue' = Tail(queue) /\ made' = made /\ UNCHANGED pageVars
    BY <1>2 DEF MonitorTakes, NextOutput
  <2>2. item \in Items /\ Numbers(queue) = {item} \cup Numbers(queue')
    BY <1>1, <2>1, NumbersTail
  <2>3. Below({item}, Numbers(queue'))
    BY <1>1, <2>1, IncreasingTail DEF PageInv, InLine
  <2>4. item \in 0 .. made
    BY <2>2 DEF PageInv, PageTypes
  <2>5. /\ seen' = seen /\ shown' = shown /\ page' = page
        /\ seen \subseteq 0 .. shown
    BY <2>1 DEF pageVars, Accounted
  <2>6. CASE item = Eof
    <3>1. missed' = missed /\ box' = box
      BY <1>2, <2>6 DEF MonitorTakes, busVars
    <3>2. \A n \in Nat \ {0} : n \in Passing' <=> n \in Passing
      BY <2>1, <2>2, <2>6, <3>1 DEF Passing, Behind, pageVars, Eof
    <3> QED
      BY <2>1, <2>5, <3>1, <3>2, AccountKept
  <2>7. CASE item # Eof
    <3>1. PublishFor(Out, item)
      BY <1>2, <2>7 DEF MonitorTakes
    <3> HIDE DEF item
    <3>2. \/ /\ Numbers(box'[Out]) = Numbers(box[Out]) \cup {item}
             /\ missed' = missed
          \/ /\ Numbers(box'[Out]) = Numbers(box[Out])
             /\ missed' = missed \cup {item}
      BY <2>2, <3>1, PublishTakes
    <3>3. item \in Nat \ {0} /\ item \in Numbers(queue)
      BY <2>2, <2>4, <2>7 DEF Eof
    <3>4. item \notin Behind /\ item \notin Numbers(queue')
      BY <2>3, <3>3, PassingApart DEF Below
    <3>5. missed' \subseteq 0 .. made'
      BY <1>1, <2>1, <2>4, <3>2
    <3>6. ASSUME page # "gone", NEW n \in 1 .. made
          PROVE  n \in Passing' <=> n \notin missed'
      <4>1. n \in Passing <=> n \notin missed
        BY <3>6 DEF Accounted
      <4>2. /\ Passing = Numbers(queue) \cup Numbers(box[Out]) \cup Numbers(hand[Out])
                           \cup Numbers(merged) \cup seen
            /\ Passing' = Numbers(queue') \cup Numbers(box'[Out]) \cup Numbers(hand[Out])
                           \cup Numbers(merged) \cup seen
        BY <2>1 DEF Passing, Behind, pageVars
      <4>3. CASE n = item
        <5>1. n \notin missed
          BY <3>3, <4>1, <4>2, <4>3
        <5>2. n \notin Numbers(box[Out]) \cup Numbers(hand[Out]) \cup Numbers(merged) \cup seen
          BY <3>4, <4>3 DEF Behind
        <5> QED
          BY <3>2, <3>4, <4>2, <4>3, <5>1, <5>2
      <4>4. CASE n # item
        BY <2>2, <3>2, <4>1, <4>2, <4>4
      <4> QED
        BY <4>3, <4>4
    <3> QED
      BY <2>1, <2>5, <3>5, <3>6 DEF Accounted
  <2> QED
    BY <2>6, <2>7
<1>3. CASE MonitorBeats
  <2>1. queue' = queue /\ made' = made + 1 /\ UNCHANGED pageVars
    BY <1>3 DEF MonitorBeats, Heartbeat
  <2>2. PublishFor(Out, made + 1)
    BY <1>3, <2>1 DEF MonitorBeats
  <2>3. \/ /\ Numbers(box'[Out]) = Numbers(box[Out]) \cup {made + 1}
           /\ missed' = missed
        \/ /\ Numbers(box'[Out]) = Numbers(box[Out])
           /\ missed' = missed \cup {made + 1}
    BY <1>1, <2>2, PublishTakes DEF Items
  <2>4. /\ Passing = Numbers(queue) \cup Numbers(box[Out]) \cup Numbers(hand[Out])
                       \cup Numbers(merged) \cup seen
        /\ Passing' = Numbers(queue) \cup Numbers(box'[Out]) \cup Numbers(hand[Out])
                       \cup Numbers(merged) \cup seen
    BY <2>1 DEF Passing, Behind, pageVars
  <2>5. made + 1 \notin Passing /\ made + 1 \notin missed
    BY <1>1, PassingApart
  <2>6. missed' \subseteq 0 .. made'
    <3>1. missed' \subseteq missed \cup {made + 1}
      BY <2>3
    <3>2. 0 .. made \cup {made + 1} \subseteq 0 .. made'
      BY <1>1, <2>1
    <3> QED
      BY <1>1, <3>1, <3>2
  <2>7. ASSUME page # "gone", NEW n \in 1 .. made'
        PROVE  n \in Passing' <=> n \notin missed'
    <3>1. CASE n = made + 1
      BY <2>3, <2>4, <2>5, <3>1
    <3>2. CASE n # made + 1
      <4>1. n \in 1 .. made
        BY <1>1, <2>1, <3>2
      <4>2. n \in Passing <=> n \notin missed
        BY <2>7, <4>1 DEF Accounted
      <4> QED
        BY <2>3, <2>4, <3>2, <4>2
    <3> QED
      BY <3>1, <3>2
  <2> QED
    BY <2>1, <2>6, <2>7 DEF Accounted, pageVars
<1>4. CASE MonitorTells \/ StopTells
  <2>1. UNCHANGED <<made, queue, pageVars>>
    BY <1>4 DEF MonitorTells, StopTells, StopReturns
  <2>2. Publish(TopicOf(End), Eof) /\ missed' \in {missed, missed \cup {Eof}}
    BY <1>4 DEF MonitorTells, StopTells, PublishFor
  <2> QED
    BY <2>1, <2>2, OutEnd, UnnumberedAccounts
<1>5. ASSUME NEW topic \in {"output", "end"}, OtherTaskTells(topic) PROVE Accounted'
  <2>1. UNCHANGED <<made, queue, missed, pageVars>> /\ Publish(topic, Foreign)
    BY <1>5 DEF OtherTaskTells
  <2>2. PICK q \in Queue : topic = TopicOf(q)
    BY OutEnd
  <2> QED
    BY <2>1, <2>2, UnnumberedAccounts
<1> QED
  BY <1>2, <1>3, <1>4, <1>5 DEF MonitorActs

LEMMA PageAccounts ==
  ASSUME PageInv, Accounted, PageOpens \/ PageCloses \/ PageActs
  PROVE  Accounted'
<1>1. /\ UNCHANGED processVars
      /\ seen \subseteq 0 .. shown /\ made \in Nat /\ shown \in 0 .. made
      /\ box \in [Queue -> Seq(Items)] /\ Out \in Queue
      /\ hand \in [Queue -> {<<>>} \cup {<<n>> : n \in Nat}]
      /\ merged \in Seq(Items)
  <2>1. UNCHANGED processVars
    BY DEF PageOpens, PageCloses, PageActs, PageShows, RelayTakes, RelayPuts
  <2> QED
    BY <2>1, OutEnd DEF Accounted, PageInv, PageTypes
<1>2. UNCHANGED <<made, queue, missed>>
  BY <1>1 DEF processVars
<1>3. CASE PageOpens
  <2>1. UNCHANGED <<hand, merged, shown, seen>> /\ page = "off" /\ page' = "open"
    BY <1>3 DEF PageOpens
  <2>2. box[Out] = <<>> /\ box'[Out] = <<>>
    BY <1>3, <2>1, OutEnd DEF PageInv, Closed, PageOpens, Subscribe
  <2>3. Passing' = Passing
    BY <1>2, <2>1, <2>2 DEF Passing, Behind
  <2> QED
    BY <1>1, <1>2, <2>1, <2>3, AccountKept
<1>4. CASE PageCloses
  BY <1>1, <1>2, <1>4 DEF PageCloses, Accounted
<1>5. CASE PageShows
  <2>1. /\ UNCHANGED <<box, hand, page>> /\ merged # <<>> /\ merged' = Tail(merged)
        /\ seen' = seen \cup {Head(merged)}
    BY <1>5 DEF PageShows, busVars
  <2>2. Numbers(merged) = {Head(merged)} \cup Numbers(merged')
    BY <1>1, <2>1, NumbersTail
  <2>3. Passing' = Passing
    BY <1>2, <2>1, <2>2 DEF Passing, Behind
  <2>4. Head(merged) \in 0 .. made
    BY <2>2 DEF PageInv, PageTypes
  <2>5. /\ shown' = IF Head(merged) = Eof THEN shown ELSE Head(merged)
        /\ shown' = shown \/ shown' \in shown + 1 .. made
    BY <1>5, PageShowsKeeps DEF PageShows
  <2>6. seen' \subseteq 0 .. shown'
    <3>1. shown' \in Nat /\ shown <= shown'
      BY <1>1, <2>5
    <3>2. Head(merged) \in 0 .. shown'
      BY <2>4, <2>5, <3>1 DEF Eof
    <3>3. 0 .. shown \subseteq 0 .. shown'
      BY <1>1, <3>1
    <3> QED
      BY <1>1, <2>1, <3>2, <3>3
  <2> QED
    BY <1>2, <2>1, <2>3, <2>6, AccountKept
<1>6. ASSUME NEW q \in Queue, RelayTakes(q) PROVE Accounted'
  <2>1. /\ UNCHANGED <<page, merged, shown, seen>>
        /\ hand[q] = <<>> /\ box[q] # <<>> /\ box' = [box EXCEPT ![q] = Tail(box[q])]
        /\ hand' = [hand EXCEPT ![q] = IF Head(box[q]) = Foreign THEN <<>>
                                       ELSE <<Head(box[q])>>]
    BY <1>1, <1>6 DEF RelayTakes, TakeFrom
  <2>2. \A n \in Nat \ {0} : n \in Passing' <=> n \in Passing
    <3>1. CASE q = Out
      <4>1. /\ box'[Out] = Tail(box[Out])
            /\ hand'[Out] = IF Head(box[Out]) = Foreign THEN <<>> ELSE <<Head(box[Out])>>
        BY <1>1, <2>1, <3>1
      <4>2. Numbers(box[Out]) = {Head(box[Out])} \cup Numbers(box'[Out])
        BY <1>1, <2>1, <3>1, <4>1, NumbersTail
      <4>3. Numbers(hand[Out]) = {}
        BY <2>1, <3>1, NumbersEmpty
      <4>4. \/ Head(box[Out]) = Foreign /\ Numbers(hand'[Out]) = {}
            \/ Numbers(hand'[Out]) = {Head(box[Out])}
        BY <4>1, NumbersEmpty, NumbersOne
      <4>5. \A n \in Nat \ {0} : n \in Numbers(box[Out]) <=>
              n \in Numbers(box'[Out]) \cup Numbers(hand'[Out])
        BY <4>2, <4>4 DEF Foreign
      <4> QED
        BY <1>2, <2>1, <4>3, <4>5 DEF Passing, Behind
    <3>2. CASE q # Out
      <4>1. box'[Out] = box[Out] /\ hand'[Out] = hand[Out]
        BY <1>1, <2>1, <3>2
      <4> QED
        BY <1>2, <2>1, <4>1 DEF Passing, Behind
    <3> QED
      BY <3>1, <3>2
  <2> QED
    BY <1>1, <1>2, <2>1, <2>2, AccountKept
<1>7. ASSUME NEW q \in Queue, RelayPuts(q) PROVE Accounted'
  <2>1. /\ UNCHANGED <<box, page, shown, seen>>
        /\ hand[q] # <<>> /\ merged' = Append(merged, Head(hand[q]))
        /\ hand' = [hand EXCEPT ![q] = <<>>]
    BY <1>7 DEF RelayPuts, busVars
  <2>2. PICK m \in Nat : hand[q] = <<m>>
    BY <1>1, <2>1
  <2>3. Numbers(hand[q]) = {m} /\ Head(hand[q]) = m /\ m \in Items
    BY <2>2, NumbersOne DEF Items
  <2>4. Numbers(merged') = Numbers(merged) \cup {m}
    BY <1>1, <2>1, <2>3, NumbersAppend
  <2>5. \A n \in Nat \ {0} : n \in Passing' <=> n \in Passing
    <3>1. CASE q = Out
      <4>1. Numbers(hand'[Out]) = {}
        BY <1>1, <2>1, <3>1, NumbersEmpty
      <4> QED
        BY <1>2, <2>1, <2>3, <2>4, <3>1, <4>1 DEF Passing, Behind
    <3>2. CASE q = End
      <4>1. hand'[Out] = hand[Out]
        BY <1>1, <2>1, <3>2, OutEnd
      <4>2. m = 0
        BY <2>3, <3>2 DEF PageInv, PageTypes, Eof
      <4> QED
        BY <1>2, <2>1, <2>4, <4>1, <4>2 DEF Passing, Behind
    <3> QED
      BY <3>1, <3>2, OutEnd
  <2> QED
    BY <1>1, <1>2, <2>1, <2>5, AccountKept
<1> QED
  BY <1>3, <1>4, <1>5, <1>6, <1>7 DEF PageActs

LEMMA AccountedInvariant == PipelineSafe => []Accounted
<1>1. PipelineInit => Accounted
  BY DEF PipelineInit, ProcessInit, Accounted
<1>2. PageInv /\ Accounted /\ [PipelineNext]_pipelineVars => Accounted'
  <2> SUFFICES ASSUME PageInv, Accounted, [PipelineNext]_pipelineVars PROVE Accounted'
    OBVIOUS
  <2>1. CASE UNCHANGED pipelineVars
    BY <2>1 DEF pipelineVars, processVars, busVars, pageVars, Accounted, Passing, Behind
  <2>2. CASE ProcessActs /\ UNCHANGED <<busVars, pageVars>>
    BY <2>2, ProcessGrows, GrowsAccounts
  <2> QED
    BY <2>1, <2>2, MonitorAccounts, PageAccounts DEF PipelineNext
<1> QED
  BY <1>1, <1>2, PageInvariant, PTL DEF PipelineSafe

(* No event gets lost quietly: in the sight of an open page each one is in *)
(* exactly one place on its way, at the page, or counted as missed.        *)
THEOREM NothingLostQuietly == PipelineSafe => []NoQuietLoss
<1>1. PageInv /\ Accounted => NoQuietLoss
  <2> SUFFICES ASSUME PageInv, Accounted, page = "open", NEW n \in 1 .. made
               PROVE  Cardinality({i \in DOMAIN Places : n \in Places[i]}) = 1
    BY DEF NoQuietLoss
  <2> DEFINE Here == {i \in DOMAIN Places : n \in Places[i]}
  <2>1. n \in Nat \ {0}
    BY DEF PageInv, PageTypes
  <2>2. n \in Passing <=> n \notin missed
    BY DEF Accounted
  <2>3. /\ DOMAIN Places = 1 .. 6
        /\ Places[1] = Numbers(queue) /\ Places[2] = Numbers(box[Out])
        /\ Places[3] = Numbers(hand[Out]) /\ Places[4] = Numbers(merged)
        /\ Places[5] = seen /\ Places[6] = missed
    BY DEF Places
  <2>4. \E k \in 1 .. 6 : Here = {k}
    <3>1. CASE n \in Numbers(queue)
      <4>1. Here = {1}
        BY <2>1, <2>2, <2>3, <3>1, PassingApart DEF Passing, Behind
      <4> QED
        BY <4>1
    <3>2. CASE n \in Numbers(box[Out])
      <4>1. Here = {2}
        BY <2>1, <2>2, <2>3, <3>2, PassingApart DEF Passing, Behind
      <4> QED
        BY <4>1
    <3>3. CASE n \in Numbers(hand[Out])
      <4>1. Here = {3}
        BY <2>1, <2>2, <2>3, <3>3, PassingApart DEF Passing, Behind
      <4> QED
        BY <4>1
    <3>4. CASE n \in Numbers(merged)
      <4>1. Here = {4}
        BY <2>1, <2>2, <2>3, <3>4, PassingApart DEF Passing, Behind
      <4> QED
        BY <4>1
    <3>5. CASE n \in seen
      <4>1. Here = {5}
        BY <2>1, <2>2, <2>3, <3>5, PassingApart DEF Passing, Behind
      <4> QED
        BY <4>1
    <3>6. CASE n \notin Passing
      <4>1. Here = {6}
        BY <2>2, <2>3, <3>6 DEF Passing, Behind
      <4> QED
        BY <4>1
    <3> QED
      BY <3>1, <3>2, <3>3, <3>4, <3>5, <3>6 DEF Passing, Behind
  <2> QED
    BY <2>4, FS_Singleton
<1> QED
  BY <1>1, PageInvariant, AccountedInvariant, PTL
-----------------------------------------------------------------------------
(* Whoever ended its run by itself has left the end marker, and the monitor *)
(* leaves with the first one it takes.                                     *)
Marked ==
  /\ run \in [Runs -> RunStates]
  /\ stream = "open" => \A r \in Runs : run[r] = "done" => Eof \in Numbers(queue)

LEMMA ProcessMarks ==
  ASSUME PageInv, Marked, ProcessActs
  PROVE  Marked'
<1>1. queue \in Seq(Items) /\ Eof \in Items /\ made + 1 \in Items
  BY DEF PageInv, PageTypes, Items, Eof
<1>2. Eof \in Numbers(queue) => Eof \in Numbers(queue')
  <2>1. CASE queue' = queue
    BY <2>1
  <2>2. CASE queue' = Append(queue, made + 1) \/ queue' = Append(queue, Eof)
    BY <1>1, <2>2, NumbersAppend
  <2>3. CASE queue' = <<Eof>>
    BY <2>3, NumbersOne, Zenon
  <2> QED
    BY <2>1, <2>2, <2>3, ProcessGrows DEF Grows
<1>3. CASE ProcessStart \/ SendInput
  <2>1. \E r \in Runs : run' = [run EXCEPT ![r] = "fresh"]
    BY <1>3 DEF ProcessStart, SendInput, Runs
  <2>2. UNCHANGED <<queue, stream>>
    BY <1>3 DEF ProcessStart, SendInput
  <2> QED
    BY <2>1, <2>2 DEF Marked, RunStates
<1>4. CASE UserAnswers \/ \E q \in asking : AnswerTaken(q)
  BY <1>4 DEF UserAnswers, AnswerTaken, Marked
<1>5. CASE StopCalled \/ StopCancels
  <2>1. Latest \in Runs /\ stream' \in {"stopping", "cut"}
    BY <1>5 DEF Latest, Runs, StopCalled, StopCancels
  <2>2. run' \in [Runs -> RunStates]
    BY <1>5, <2>1 DEF StopCalled, StopCancels, Marked, RunStates
  <2> QED
    BY <2>1, <2>2 DEF Marked
<1>6. ASSUME NEW r \in Runs, RunStep(r) PROVE Marked'
  <2>1. stream' = stream
    BY <1>6 DEF RunStep, RunBegins, Emit, EmitResult, StreamStops, StreamRaises,
       EmitError, EnqueueEof, Ask
  <2>2. CASE EnqueueEof(r)
    <3>1. run' = [run EXCEPT ![r] = "done"]
      BY <2>2 DEF EnqueueEof
    <3>2. queue' = Append(queue, Eof) \/ queue' = <<Eof>>
      BY <2>2 DEF EnqueueEof
    <3>3. Eof \in Numbers(queue')
      <4>1. CASE queue' = Append(queue, Eof)
        BY <1>1, <4>1, NumbersAppend
      <4>2. CASE queue' = <<Eof>>
        BY <4>2, NumbersOne, Zenon
      <4> QED
        BY <3>2, <4>1, <4>2
    <3> QED
      BY <3>1, <3>3 DEF Marked, RunStates
  <2>3. CASE ~ EnqueueEof(r)
    <3>1. run' = run \/ \E s \in RunStates \ {"done"} : run' = [run EXCEPT ![r] = s]
      BY <1>6, <2>3 DEF RunStep, RunBegins, Emit, EmitResult, StreamStops,
         StreamRaises, EmitError, Ask, Closes, RunStates
    <3> QED
      BY <1>2, <2>1, <3>1 DEF Marked
  <2> QED
    BY <2>2, <2>3
<1> QED
  BY <1>3, <1>4, <1>5, <1>6 DEF ProcessActs

LEMMA OthersMark ==
  ASSUME PageInv, Marked, [PipelineNext]_pipelineVars, ~ ProcessActs
  PROVE  Marked'
<1>1. CASE MonitorTakes
  <2>1. /\ queue # <<>> /\ queue' = Tail(queue) /\ UNCHANGED run /\ stream = "open"
        /\ Head(queue) = Eof => stream' # "open"
    BY <1>1 DEF MonitorTakes, NextOutput
  <2>2. Numbers(queue) = {Head(queue)} \cup Numbers(queue')
    BY <2>1, NumbersTail DEF PageInv, PageTypes
  <2> QED
    BY <2>1, <2>2 DEF Marked
<1>2. CASE MonitorBeats
  BY <1>2 DEF MonitorBeats, Heartbeat, Marked
<1>3. CASE MonitorTells \/ StopTells
  BY <1>3 DEF MonitorTells, StopTells, StopReturns, Marked
<1>4. CASE \E topic \in {"output", "end"} : OtherTaskTells(topic)
  BY <1>4 DEF OtherTaskTells, Marked
<1>5. CASE PageOpens \/ PageCloses \/ PageActs \/ UNCHANGED pipelineVars
  <2>1. UNCHANGED processVars
    BY <1>5 DEF PageOpens, PageCloses, PageActs, PageShows, RelayTakes,
       RelayPuts, pipelineVars
  <2> QED
    BY <2>1 DEF processVars, Marked
<1> QED
  BY <1>1, <1>2, <1>3, <1>4, <1>5 DEF PipelineNext, MonitorActs

(* The end marker always arrives where the monitor waits for it, whatever  *)
(* the queue was full of, and also beside a follow-up.                     *)
THEOREM MarkerArrives == PipelineSafe => []MarkerThere
<1>1. PipelineInit => Marked
  BY DEF PipelineInit, ProcessInit, Marked, RunStates
<1>2. PageInv /\ Marked /\ [PipelineNext]_pipelineVars => Marked'
  BY ProcessMarks, OthersMark
<1>3. Marked => MarkerThere
  BY DEF Marked, MarkerThere, RunsOver, Runs
<1> QED
  BY <1>1, <1>2, <1>3, PageInvariant, PTL DEF PipelineSafe
-----------------------------------------------------------------------------
(* Nothing is forgotten of what happened, and a stop is a stop. *)
StopHappened == stream = "stopping" => "stop" \in happened

LEMMA StepsHappen ==
  ASSUME [PipelineNext]_pipelineVars
  PROVE  /\ happened \subseteq happened'
         /\ stream' = "stopping" => stream = "stopping" \/ "stop" \in happened'
<1>1. ASSUME NEW kinds, Enqueue(kinds) PROVE happened \subseteq happened'
  BY <1>1 DEF Enqueue, Happens
<1>2. ASSUME NEW r \in Runs, RunStep(r) PROVE happened \subseteq happened' /\ stream' = stream
  BY <1>1, <1>2 DEF RunStep, RunBegins, Emit, EmitResult, StreamStops,
     StreamRaises, EmitError, EnqueueEof, Ask, Happens
<1>3. CASE ProcessActs
  BY <1>2, <1>3 DEF ProcessActs, ProcessStart, SendInput, UserAnswers, AnswerTaken,
     StopCalled, StopCancels, Happens
<1>4. CASE MonitorActs
  BY <1>4 DEF MonitorActs, MonitorTakes, NextOutput, MonitorTells, StopTells,
     StopReturns
<1>5. CASE MonitorBeats
  BY <1>5 DEF MonitorBeats, Heartbeat, Happens
<1>6. CASE \E topic \in {"output", "end"} : OtherTaskTells(topic)
  BY <1>6 DEF OtherTaskTells, Happens
<1>7. PageOpens \/ PageCloses \/ PageActs \/ UNCHANGED pipelineVars
      => UNCHANGED processVars
  BY DEF PageOpens, PageCloses, PageActs, PageShows, RelayTakes, RelayPuts,
     pipelineVars
<1>8. UNCHANGED processVars => UNCHANGED <<happened, stream>>
  BY DEF processVars
<1> QED
  BY <1>3, <1>4, <1>5, <1>6, <1>7, <1>8 DEF PipelineNext

LEMMA ProcessAnswers ==
  ASSUME Answerable, StopHappened, ProcessActs, happened \subseteq happened'
  PROVE  Answerable'
<1> SUFFICES ASSUME "parallel" \notin happened'
             PROVE  /\ asking' \subseteq {slot'}
                    /\ \/ slot' = 0 \/ slot' \in asking'
                       \/ happened' \cap {"error", "stop"} # {}
  BY DEF Answerable
<1>2. /\ asking \subseteq {slot}
      /\ slot = 0 \/ slot \in asking \/ happened \cap {"error", "stop"} # {}
  BY DEF Answerable
<1>3. CASE UNCHANGED <<slot, asking>>
  BY <1>2, <1>3
<1>4. CASE \E q \in asking : AnswerTaken(q)
  BY <1>2, <1>4 DEF AnswerTaken
<1>5. CASE StopCancels
  BY <1>5 DEF StopCancels, StopHappened
<1>6. CASE \E r \in Runs : StreamRaises(r)
  BY <1>6 DEF StreamRaises, Happens
<1>7. CASE \E r \in Runs : Ask(r)
  <2>1. PICK r \in Runs : Ask(r)
    BY <1>7
  <2>2. asking = {}
    <3>1. CASE asking # {}
      <4>1. Enqueue({"parallel"})
        BY <2>1, <3>1 DEF Ask
      <4>2. "parallel" \in happened'
        BY <4>1 DEF Enqueue, Happens
      <4> QED
        BY <4>2
    <3> QED
      BY <3>1
  <2> QED
    BY <2>1, <2>2 DEF Ask
<1>8. ASSUME NEW r \in Runs, RunStep(r), ~ StreamRaises(r), ~ Ask(r)
      PROVE  UNCHANGED <<slot, asking>>
  BY <1>8 DEF RunStep, RunBegins, Emit, EmitResult, StreamStops, EmitError,
     EnqueueEof
<1>9. ProcessStart \/ SendInput \/ UserAnswers \/ StopCalled
      => UNCHANGED <<slot, asking>>
  BY DEF ProcessStart, SendInput, UserAnswers, StopCalled
<1> QED
  BY <1>3, <1>4, <1>5, <1>6, <1>7, <1>8, <1>9 DEF ProcessActs

(* A request that waits is the one in the slot, and the slot shows nothing *)
(* that does not wait, as long as the agent asks one thing at a time; but  *)
(* for what a stop or an exception left in it.                             *)
THEOREM RequestsAnswerable == PipelineSafe => []Answerable
<1>1. PipelineInit => Answerable /\ StopHappened
  BY DEF PipelineInit, ProcessInit, Answerable, StopHappened
<1>2. Answerable /\ StopHappened /\ [PipelineNext]_pipelineVars
      => Answerable' /\ StopHappened'
  <2> SUFFICES ASSUME Answerable, StopHappened, [PipelineNext]_pipelineVars
               PROVE  Answerable' /\ StopHappened'
    OBVIOUS
  <2>1. happened \subseteq happened' /\ StopHappened'
    BY StepsHappen DEF StopHappened
  <2>2. CASE ProcessActs
    BY <2>1, <2>2, ProcessAnswers
  <2>3. CASE ~ ProcessActs
    <3>1. UNCHANGED <<slot, asking>>
      <4>1. CASE UNCHANGED processVars
        BY <4>1 DEF processVars
      <4>2. CASE MonitorActs \/ MonitorBeats
        BY <4>2 DEF MonitorActs, MonitorTakes, NextOutput, MonitorTells, StopTells,
           StopReturns, MonitorBeats, Heartbeat
      <4>3. CASE \E topic \in {"output", "end"} : OtherTaskTells(topic)
        BY <4>3 DEF OtherTaskTells
      <4>4. PageOpens \/ PageCloses \/ PageActs \/ UNCHANGED pipelineVars
            => UNCHANGED processVars
        BY DEF PageOpens, PageCloses, PageActs, PageShows, RelayTakes, RelayPuts,
           pipelineVars
      <4> QED
        BY <2>3, <4>1, <4>2, <4>3, <4>4 DEF PipelineNext
    <3> QED
      BY <2>1, <3>1 DEF Answerable
  <2> QED
    BY <2>1, <2>2, <2>3
<1> QED
  BY <1>1, <1>2, PTL DEF PipelineSafe
=============================================================================
