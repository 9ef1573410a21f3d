------------------------------ MODULE EventBus ------------------------------
(***************************************************************************)
(* taktis/core/events.py: bounded queues of subscribers.                   *)
(*                                                                         *)
(* A queue is <<topic, reader>>.  publish never suspends, so it is one     *)
(* step; the system.error it adds after a drop has no subscriber in the    *)
(* program and returns early.  The 60 seconds of the sweep are a choice:   *)
(* any queue noted as full before this publish may be too old.             *)
(***************************************************************************)
EXTENDS Integers, Sequences, FiniteSets

CONSTANTS Queue,   \* subscriber queues that may exist
          BoxMax   \* maxsize of a queue

ASSUME BusAssumption == BoxMax \in Nat \ {0}

VARIABLES
  subscribed, \* _subscribers
  box,        \* the contents of the queues
  fullSince   \* _full_since: queues that dropped and have not taken since

busVars == <<subscribed, box, fullSince>>

TopicOf(q) == q[1]

BusInit ==
  /\ subscribed = {}
  /\ box = [q \in Queue |-> <<>>]
  /\ fullSince = {}

Subscribe(new) ==
  /\ subscribed' = subscribed \cup new
  /\ box' = [q \in Queue |-> IF q \in new THEN <<>> ELSE box[q]]
  /\ UNCHANGED fullSince

(* The reader's queues are garbage afterwards. *)
Unsubscribe(old) ==
  /\ subscribed' = subscribed \ old
  /\ fullSince' = fullSince \ old
  /\ box' = [q \in Queue |-> IF q \in old THEN <<>> ELSE box[q]]

Listeners(topic) == {q \in subscribed : TopicOf(q) = topic}

Accepts(q) == Len(box[q]) < BoxMax

(* The queues a publication gets into. *)
Takers(topic) == {q \in Listeners(topic) : Accepts(q)}

(* publish and _sweep_stale_subscribers, which looks at every topic.        *)
Publish(topic, event) ==
  LET noted == (fullSince \ Takers(topic))
                 \cup (Listeners(topic) \ Takers(topic))
  IN /\ box' = [q \in Queue |-> IF q \in Takers(topic)
                                THEN Append(box[q], event) ELSE box[q]]
     /\ IF Listeners(topic) = {} THEN UNCHANGED <<subscribed, fullSince>>
        ELSE \E stale \in SUBSET (noted \cap fullSince) :
               /\ subscribed' = subscribed \ stale
               /\ fullSince' = noted \ stale

(* queue.get by the reader, who may hold a queue that was swept. *)
TakeFrom(q) ==
  /\ box[q] # <<>>
  /\ box' = [box EXCEPT ![q] = Tail(@)]
  /\ UNCHANGED <<subscribed, fullSince>>
=============================================================================
