----------------------------- MODULE EngineRequests -----------------------------
(***************************************************************************)
(* What the two crypto engines have in common: the requests they take and  *)
(* the vectors of a request, a piece of the kernel heap that changes hands *)
(* with it (kernel/source/crypto/iosc.c, aes.c, sha.c).  Each thread has   *)
(* one request at a time: some threads wait for their requests, the others *)
(* are told the result by a message.                                       *)
(***************************************************************************)
EXTENDS Integers, Sequences, FiniteSets

CONSTANTS
  Message,   \* the message of each thread: its process, and how it calls
  NULL,
  HeapRoom,  \* how many requests the kernel heap has vectors for
  MaxErrors  \* bound: how often an engine fails

By(m) == m[1]
Synchronous(m) == m[2] = "sync"
Place == 1 .. HeapRoom

Kind == {"sha", "verify", "mac", "plain", "aes"}

ASSUME RequestsAssumption ==
  HeapRoom \in Nat /\ NULL \notin Message /\ NULL \notin Place /\ NULL \notin Kind

VARIABLES
  request, \* what a message asks for, or NoRequest
  result,  \* Request.Result, or "busy" while an engine has the request
  heap,    \* the places of the kernel heap that are allocated
  piece,   \* the one that has the vectors, and the key of an AES request
  lost,    \* places that nobody is going to free
  errors   \* bound: failures so far

requestVars == <<request, result, heap, piece, lost, errors>>

NoRequest == [ kind |-> NULL, command |-> NULL, custom |-> << >>, input |-> << >>, claims |-> << >>,
               handle |-> NULL, secret |-> NULL, hurried |-> FALSE, src |-> NULL, dst |-> NULL ]

RequestsInit ==
  /\ request = [m \in Message |-> NoRequest]
  /\ result = [m \in Message |-> "none"]
  /\ heap = {}
  /\ piece = [m \in Message |-> NULL]
  /\ lost = {}
  /\ errors = 0

(* FreeOnHeap; vectors that are not on the kernel heap are refused.        *)
FreeOnHeap(m) == heap' = heap \ {piece[m]}

(* ResourceReply with an error: the engine leaves the vectors to whoever   *)
(* waits for the result.                                                   *)
ResourceReply(m, r) == result' = [result EXCEPT ![m] = r]
ReplyFailed(m) ==
  /\ ResourceReply(m, "failed")
  /\ lost' = IF Synchronous(m) THEN lost ELSE lost \cup (heap \cap {piece[m]})
  /\ UNCHANGED heap
=============================================================================
