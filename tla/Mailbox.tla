-------------------------------- MODULE Mailbox --------------------------------
(***************************************************************************)
(* What a message queue promises its users: a bounded sequence of messages *)
(* per queue, to which messages are appended (sent) or prepended (jammed)  *)
(* one at a time, from whose front they are taken in that order, each      *)
(* delivered exactly once.  What sends without being a user of the queues  *)
(* are sources of events: several of them may append one message each in a *)
(* single step.  No threads, no ring, no interrupts.                       *)
(***************************************************************************)
EXTENDS Integers, Sequences, FiniteSets

CONSTANTS QueueId, Capacity, Payload, None, Source

VARIABLES box, delivered

Init == /\ box = [q \in QueueId |-> << >>]
        /\ delivered = None

Opened(q) == box' = [box EXCEPT ![q] = << >>] /\ delivered' = None

Sent(q, m) ==
  /\ Len(box[q]) < Capacity
  /\ box' = [box EXCEPT ![q] = Append(@, m)]
  /\ delivered' = None

JammedIn(q, m) ==
  /\ Len(box[q]) < Capacity
  /\ box' = [box EXCEPT ![q] = <<m>> \o @]
  /\ delivered' = None

(* The queue q gets one message of every source of from[q].                *)
Posted(from) ==
  /\ \A q \in QueueId :
       /\ \A r \in QueueId \ {q} : from[q] \cap from[r] = {}
       /\ Len(box'[q]) = Len(box[q]) + Cardinality(from[q])
       /\ Len(box'[q]) <= Capacity
       /\ \A i \in 1 .. Len(box[q]) : box'[q][i] = box[q][i]
       /\ \A i \in 1 .. Len(box'[q]) : i > Len(box[q]) => box'[q][i] \in Payload
  /\ delivered' = None

Received(q) ==
  /\ box[q] # << >>
  /\ delivered' = [queue |-> q, msg |-> Head(box[q])]
  /\ box' = [box EXCEPT ![q] = Tail(@)]

Nothing == delivered' = None /\ UNCHANGED box

Next ==
  \/ \E q \in QueueId :
       \/ Opened(q)
       \/ \E m \in Payload : Sent(q, m) \/ JammedIn(q, m)
       \/ Received(q)
  \/ \E from \in [QueueId -> SUBSET Source] : Posted(from)
  \/ Nothing

Spec == Init /\ [][Next]_<<box, delivered>>
=============================================================================
