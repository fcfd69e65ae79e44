----------------------------- MODULE IpcProperties -----------------------------
(***************************************************************************)
(* What the request handler must keep true between any two steps, and what *)
(* it must do in the end.                                                  *)
(***************************************************************************)
EXTENDS Ipc

(* Type correctness of every variable.                                     *)
TypeOK ==
  /\ ppc \in PowerPC
  /\ reg \in Registers
  /\ masked \in BOOLEAN
  /\ queue \in Seq(Request \cup {NULL})
  /\ circ \in CircularBuffer
  /\ pc \in {"receive", "read", "branch", "relaunch", "incoming", "send", "count", "dispatch"}
  /\ msg \in Request \cup {NULL}
  /\ fromPPC \in Request \cup {NULL}
  /\ serving \subseteq Request

-----------------------------------------------------------------------------
(* The request the handler has taken from the PowerPC and not yet passed on. *)
Taken == IF pc \in {"incoming", "count", "dispatch"} THEN {fromPPC} ELSE {}
(* The message it has received and not yet acted upon.                     *)
Received == IF pc \in {"read", "branch"} THEN {msg} ELSE {}

(* The places of the reply buffer that hold a reply to be sent.            *)
ToSend == {i \in Slot : (i - circ.sendAt) % BufferSize < circ.ready}

(* How many times the request r is on its way, forth or back.              *)
Copies(r) ==
  LET One(P) == IF P THEN 1 ELSE 0
  IN    One(reg.x1 /\ reg.ppcmsg = r) + One(r \in Taken) + One(r \in serving)
      + Cardinality({i \in DOMAIN queue : queue[i] = r}) + One(r \in Received)
      + Cardinality({i \in ToSend : circ.backing[i] = r})
      + One(reg.y1 /\ reg.armmsg = r)

(* A request is answered exactly once: from the moment the PowerPC sends it *)
(* until it takes the reply it is in exactly one place, and afterwards in  *)
(* none.  Only one with an invalid address may have gone.                  *)
OneCopy ==
  \A r \in Request :
    \/ r \notin ppc.sent /\ Copies(r) = 0
    \/ r \in ppc.sent /\ Copies(r) = 1
    \/ r \in ppc.sent /\ Copies(r) = 0 /\ r \in Invalid

(* The reply buffer never holds more than fits, and its two indices agree  *)
(* with its count, although nothing checks for room when a reply is put in: *)
(* only withholding acknowledgements from the PowerPC keeps it that way.   *)
(* And nothing is dropped: whenever a reply or the interrupt is posted to  *)
(* the handler's queue, which is done without looking at the result, there *)
(* is room for it.                                                         *)
BufferNeverOverrun ==
  /\ 0 <= circ.ready /\ circ.ready <= circ.waiting /\ circ.waiting <= BufferSize
  /\ circ.putAt = (circ.sendAt + circ.ready) % BufferSize
RoomToPost ==
  serving # {} \/ pc = "dispatch" \/ (~ masked /\ (reg.x1 \/ reg.x2)) => Len(queue) < QueueSize
NothingOverrun == BufferNeverOverrun /\ RoomToPost

(* The handler is never deaf: while the interrupt is disabled, a message   *)
(* that will make the handler enable it is queued or being handled.        *)
NeverDeaf ==
  masked => \/ pc \in {"relaunch", "incoming"}
            \/ NULL \in Received
            \/ \E i \in DOMAIN queue : queue[i] = NULL

(* The message register is read before the flags; still, when the flags    *)
(* say that a request is there, it is the one that was read.               *)
RequestIsFresh ==
  pc = "branch" /\ msg = NULL =>
    /\ reg.x1 \/ reg.x2
    /\ reg.x1 /\ ~ reg.x2 => fromPPC = reg.ppcmsg

(* Flow control holds the PowerPC back only when the buffer is full, and   *)
(* never lets it write a request over one that was not taken.              *)
HeldBackOnlyWhenFull ==
  ppc.unacked /\ ~ reg.x1 /\ ~ reg.y2 =>
    circ.waiting + (IF pc \in {"incoming", "count"} THEN 1 ELSE 0) = BufferSize
AckAfterTaking == reg.x1 => ppc.unacked /\ ~ reg.y2
AcksInTime == HeldBackOnlyWhenFull /\ AckAfterTaking

-----------------------------------------------------------------------------
(* Every request with a valid address is answered, and the PowerPC may     *)
(* always send again some day, unless it has sent as many requests with an *)
(* invalid address as the buffer has places: each is counted, and never    *)
(* counted down (ipc.c:226), so that no acknowledgement comes any more.    *)
Served ==
  /\ \A r \in Request \ Invalid : r \in ppc.sent ~> r \notin ppc.sent
  /\ ppc.unacked ~> ~ ppc.unacked \/ Cardinality(ppc.sent \cap Invalid) >= BufferSize
=============================================================================
