---------------------------- MODULE CryptoCalls_proofs ----------------------------
(***************************************************************************)
(* Theorems about the calls that use the crypto engines, for any threads,  *)
(* programs, keys and data, and however often the engines fail.            *)
(***************************************************************************)
EXTENDS CryptoCalls, FiniteSetTheorems, SequenceTheorems, WellFoundedInduction, TLAPS

Result == {"none", "busy", "ok", "failed"}
(* The variables that the properties are about.  What the engines make of  *)
(* data may be anything.                                                   *)
RequestTypes ==
  /\ DOMAIN request = Message /\ result \in [Message -> Result]
  /\ heap \subseteq Place /\ lost \subseteq Place /\ piece \in [Message -> Place \cup {NULL}]
  /\ token \in Message \cup {NULL}
ShaTypes ==
  /\ shaQueue \in Seq(Message)
  /\ sha = [at |-> sha.at, from |-> sha.from, todo |-> sha.todo, final |-> sha.final, good |-> sha.good]
  /\ sha.from \in Message \cup {NULL}
  /\ sha.from = NULL <=> sha.at = "wait"
  /\ shaCmd = [ execute |-> shaCmd.execute, irq |-> shaCmd.irq, failed |-> shaCmd.failed,
                blocks |-> shaCmd.blocks ]
AesTypes ==
  /\ aesQueue \in Seq(Message)
  /\ aes = [from |-> aes.from, saved |-> aes.saved]
  /\ aes.from \in Message \cup {NULL}
  /\ aesCmd = [ execute |-> aesCmd.execute, irq |-> aesCmd.irq, failed |-> aesCmd.failed,
                key |-> aesCmd.key, iv |-> aesCmd.iv ]

(* A request that an engine has not answered is in the engine's queue or   *)
(* in the hands of its thread.                                             *)
Elements(s) == {s[i] : i \in DOMAIN s}
Distinct(s) == \A i, j \in DOMAIN s : s[i] = s[j] => i = j
Has(queue, from, S) ==
  /\ Distinct(queue) /\ from \notin Elements(queue)
  /\ S = Elements(queue) \cup ({from} \ {NULL})
ForSha == {m \in Message : result[m] = "busy" /\ request[m].src = NULL}
ForAes == {m \in Message : result[m] = "busy" /\ request[m].src # NULL}
ShaHas ==
  /\ Has(shaQueue, sha.from, ForSha)
  /\ sha.from # NULL => ~ WrongCount(request[sha.from])
AesHas == Has(aesQueue, aes.from, ForAes)

RequestOK(m) ==
  LET r == request[m]
  IN  /\ result[m] = "busy" => r # NoRequest
      /\ r # NoRequest /\ r.src # NULL => ~ WrongCount(r) /\ (r.command = "copy" => piece[m] = NULL)
      /\ r # NoRequest /\ Synchronous(m) /\ piece[m] # NULL => token = m
      /\ r # NoRequest /\ result[m] = "failed" /\ Synchronous(m) /\ WrongCount(r) => piece[m] \notin heap

(* An engine whose thread waits for it is at work and will interrupt, or   *)
(* has done so.                                                            *)
ShaInterrupts == sha.at = "event" => shaEvent \/ (shaCmd.execute /\ shaCmd.irq)
AesInterrupts == aes.from # NULL => aesEvent \/ (aesCmd.execute /\ aesCmd.irq)

Accounts == RequestTypes /\ (\A m \in Message : RequestOK(m)) /\ PiecesAccounted
ShaOK == ShaTypes /\ ShaHas /\ ShaInterrupts
AesOK == AesTypes /\ AesHas /\ AesInterrupts
IInv == Accounts /\ ShaOK /\ AesOK

-----------------------------------------------------------------------------
(* The queue of an engine and the request its thread has.                  *)
LEMMA QueueIs ==
  ASSUME NEW queue \in Seq(Message)
  PROVE  /\ Elements(queue) \subseteq Message /\ NULL \notin Elements(queue)
         /\ DOMAIN queue = 1 .. Len(queue) /\ Len(queue) \in Nat
<1>1. DOMAIN queue = 1 .. Len(queue) /\ Len(queue) \in Nat
      /\ \A i \in 1 .. Len(queue) : queue[i] \in Message
  BY LenProperties
<1> QED  BY <1>1, RequestsAssumption DEF Elements

LEMMA HasAppend ==
  ASSUME NEW queue \in Seq(Message), NEW from \in Message \cup {NULL}, NEW S, Has(queue, from, S),
         NEW m \in Message, m \notin S
  PROVE  Append(queue, m) \in Seq(Message) /\ Has(Append(queue, m), from, S \cup {m})
<1> DEFINE q == Append(queue, m)
           n == Len(queue)
<1>1. /\ q \in Seq(Message) /\ n \in Nat /\ DOMAIN queue = 1 .. n /\ DOMAIN q = 1 .. n + 1
      /\ q[n + 1] = m /\ \A i \in 1 .. n : q[i] = queue[i]
  BY AppendProperties, LenProperties
<1>2. m \notin Elements(queue) /\ m # from
  BY RequestsAssumption DEF Has
<1> HIDE DEF q, n
<1>3. Elements(q) = Elements(queue) \cup {m}
  <2>1. \A i \in 1 .. n + 1 : i \in 1 .. n \/ i = n + 1
    BY <1>1
  <2>2. n + 1 \in 1 .. n + 1 /\ \A i \in 1 .. n : i \in 1 .. n + 1
    BY <1>1
  <2> QED  BY <1>1, <2>1, <2>2 DEF Elements
<1>4. Distinct(q)
  <2> SUFFICES ASSUME NEW i \in 1 .. n + 1, NEW j \in 1 .. n + 1, q[i] = q[j] PROVE i = j
    BY <1>1 DEF Distinct
  <2>1. CASE i \in 1 .. n /\ j \in 1 .. n
    BY <1>1, <2>1 DEF Has, Distinct
  <2>2. CASE i = n + 1 /\ j \in 1 .. n
    BY <1>1, <1>2, <2>2 DEF Elements
  <2>3. CASE j = n + 1 /\ i \in 1 .. n
    BY <1>1, <1>2, <2>3 DEF Elements
  <2> QED  BY <1>1, <2>1, <2>2, <2>3
<1> QED  BY <1>1, <1>2, <1>3, <1>4 DEF Has, q

LEMMA HasTake ==
  ASSUME NEW queue \in Seq(Message), NEW S, Has(queue, NULL, S), queue # << >>
  PROVE  /\ Head(queue) \in S /\ Head(queue) \in Message /\ Tail(queue) \in Seq(Message)
         /\ Has(Tail(queue), Head(queue), S)
         /\ Has(Tail(queue), NULL, S \ {Head(queue)})
<1> DEFINE q == Tail(queue)
           m == Head(queue)
           n == Len(queue)
<1>1. /\ q \in Seq(Message) /\ n \in Nat \ {0} /\ DOMAIN queue = 1 .. n /\ DOMAIN q = 1 .. n - 1
      /\ m = queue[1] /\ m \in Message /\ \A i \in 1 .. n - 1 : q[i] = queue[i + 1]
  BY HeadTailProperties, LenProperties, EmptySeq
<1> HIDE DEF q, n, m
<1>2. \A i \in 1 .. n - 1 : i + 1 \in 1 .. n /\ q[i] # m
  <2> SUFFICES ASSUME NEW i \in 1 .. n - 1, q[i] = m PROVE FALSE
    BY <1>1
  <2>1. i + 1 \in DOMAIN queue /\ 1 \in DOMAIN queue /\ queue[i + 1] = queue[1]
    BY <1>1
  <2>2. i + 1 = 1
    BY <2>1 DEF Has, Distinct
  <2> QED  BY <1>1, <2>2
<1>3. Distinct(q)
  <2> SUFFICES ASSUME NEW i \in 1 .. n - 1, NEW j \in 1 .. n - 1, q[i] = q[j] PROVE i = j
    BY <1>1 DEF Distinct
  <2>1. i + 1 \in DOMAIN queue /\ j + 1 \in DOMAIN queue /\ queue[i + 1] = queue[j + 1]
    BY <1>1
  <2>2. i + 1 = j + 1
    BY <2>1 DEF Has, Distinct
  <2> QED  BY <1>1, <2>2
<1>4. Elements(queue) = Elements(q) \cup {m}
  <2>1. ASSUME NEW x \in Elements(queue) PROVE x \in Elements(q) \cup {m}
    <3>1. PICK i \in 1 .. n : x = queue[i]
      BY <1>1 DEF Elements
    <3>2. CASE i # 1
      <4>1. i - 1 \in 1 .. n - 1 /\ q[i - 1] = queue[i]
        BY <1>1, <3>2
      <4> QED  BY <1>1, <3>1, <4>1 DEF Elements
    <3> QED  BY <1>1, <3>1, <3>2
  <2>2. ASSUME NEW x \in Elements(q) PROVE x \in Elements(queue)
    <3>1. PICK i \in 1 .. n - 1 : x = q[i]
      BY <1>1, <2>2 DEF Elements
    <3> QED  BY <1>1, <1>2, <3>1 DEF Elements
  <2>3. m \in Elements(queue)
    <3>1. 1 \in DOMAIN queue
      BY <1>1
    <3> QED  BY <1>1, <3>1 DEF Elements
  <2> QED  BY <2>1, <2>2, <2>3
<1>5. m \notin Elements(q) /\ NULL \notin Elements(q) /\ m # NULL
  BY <1>1, <1>2, QueueIs, RequestsAssumption DEF Elements
<1> QED  BY <1>1, <1>3, <1>4, <1>5 DEF Has, m, q

LEMMA HasEnd ==
  ASSUME NEW queue \in Seq(Message), NEW from \in Message, NEW S, Has(queue, from, S)
  PROVE  from \in S /\ Has(queue, NULL, S \ {from})
BY QueueIs, RequestsAssumption DEF Has

(* The place that is allocated is a free one.                              *)
LEMMA FreePlace ==
  ASSUME heap \subseteq Place, heap # Place
  PROVE  (CHOOSE p \in Place \ heap : \A q \in Place \ heap : p <= q) \in Place \ heap
<1> DEFINE R == OpToRel(<, Nat)
<1>1. IsWellFoundedOn(R, Nat)  BY NatLessThanWellFounded
<1>2. \A x, y \in Nat : x < y => <<x, y>> \in R  BY DEF OpToRel
<1> HIDE DEF R
<1>3. Place \subseteq Nat
  BY RequestsAssumption DEF Place
<1>4. Place \ heap # {} /\ Place \ heap \subseteq Nat
  BY <1>3
<1>5. PICK p \in Place \ heap : \A q \in Place \ heap : ~ (<<q, p>> \in R)
  BY <1>1, <1>4, WFMin
<1>6. \A q \in Place \ heap : ~ (q < p)
  BY <1>2, <1>4, <1>5
<1>7. \A q \in Place \ heap : p <= q
  BY <1>4, <1>6
<1> QED  BY <1>7

-----------------------------------------------------------------------------
(* What a step does to the requests and their vectors: nothing; a program  *)
(* submits a request; an engine answers one; a program has its result.     *)
Quiet == UNCHANGED <<request, result, heap, piece, lost>>
Submitted(m, r) ==
  /\ request[m] = NoRequest /\ r # NoRequest
  /\ request' = [request EXCEPT ![m] = r]
  /\ result' = [result EXCEPT ![m] = "busy"]
  /\ UNCHANGED lost
  /\ \/ piece' = [piece EXCEPT ![m] = NULL] /\ UNCHANGED <<heap, token>>
     \/ /\ token = NULL /\ token' = IF Synchronous(m) THEN m ELSE token
        /\ \E p \in Place \ heap : heap' = heap \cup {p} /\ piece' = [piece EXCEPT ![m] = p]
        /\ r.command # "copy"
  /\ r.src # NULL => ~ WrongCount(r)
Answered(m) ==
  /\ UNCHANGED <<request, piece>>
  /\ \/ ResourceReply(m, "ok") /\ FreeOnHeap(m) /\ UNCHANGED lost
     \/ ResourceReply(m, "ok") /\ piece[m] = NULL /\ UNCHANGED <<heap, lost>>
     \/ WrongCount(request[m]) /\ ResourceReply(m, "failed") /\ FreeOnHeap(m) /\ UNCHANGED lost
     \/ ~ WrongCount(request[m]) /\ ReplyFailed(m)

LEMMA QuietKeeps ==
  ASSUME Accounts, Quiet, UNCHANGED token
  PROVE  Accounts' /\ ForSha' = ForSha /\ ForAes' = ForAes
<1>1. RequestTypes'
  BY DEF Accounts, RequestTypes, Quiet
<1>2. \A m \in Message : RequestOK(m)'
  BY DEF Accounts, RequestOK, Quiet, WrongCount, Synchronous
<1>3. Owed' = Owed
  BY DEF Owed, Quiet, WrongCount, Synchronous
<1>4. PiecesAccounted'
  BY <1>3 DEF Accounts, PiecesAccounted, Quiet
<1> QED  BY <1>1, <1>2, <1>4 DEF Accounts, ForSha, ForAes, Quiet

(* A piece that is handed out is nobody's: while a synchronous caller has  *)
(* vectors it has the token, and nobody else allocates any.                *)
LEMMA SubmittedKeeps ==
  ASSUME Accounts, NEW m \in Message, NEW r, Submitted(m, r)
  PROVE  /\ Accounts' /\ m \notin ForSha /\ m \notin ForAes
         /\ ForSha' = IF r.src = NULL THEN ForSha \cup {m} ELSE ForSha
         /\ ForAes' = IF r.src = NULL THEN ForAes ELSE ForAes \cup {m}
<1> USE DEF Accounts, RequestTypes
<1>1. /\ request'[m] = r /\ result'[m] = "busy"
      /\ \A n \in Message \ {m} : request'[n] = request[n] /\ result'[n] = result[n]
      /\ DOMAIN request' = Message /\ result' \in [Message -> Result]
  BY DEF Submitted, Result
<1>2. request[m] = NoRequest /\ r # NoRequest /\ result[m] # "busy"
  BY DEF Submitted, RequestOK
<1>3. /\ m \notin ForSha /\ m \notin ForAes
      /\ ForSha' = IF r.src = NULL THEN ForSha \cup {m} ELSE ForSha
      /\ ForAes' = IF r.src = NULL THEN ForAes ELSE ForAes \cup {m}
  BY <1>1, <1>2 DEF ForSha, ForAes
<1>4. m \notin Owed
  BY <1>2 DEF Owed
<1>5. CASE piece' = [piece EXCEPT ![m] = NULL] /\ UNCHANGED <<heap, token>>
  <2>1. piece'[m] = NULL /\ \A n \in Message \ {m} : piece'[n] = piece[n]
    BY <1>5
  <2>2. RequestTypes'
    BY <1>1, <1>5 DEF Submitted
  <2>3. \A n \in Message : RequestOK(n)'
    <3>1. RequestOK(m)'
      BY <1>1, <1>2, <2>1 DEF RequestOK, Submitted, WrongCount
    <3>2. ASSUME NEW n \in Message \ {m} PROVE RequestOK(n)'
      BY <1>1, <1>5, <2>1 DEF RequestOK, WrongCount, Synchronous
    <3> QED  BY <3>1, <3>2
  <2>4. Owed' = Owed
    BY <1>1, <1>4, <2>1 DEF Owed, WrongCount, Synchronous
  <2>5. \A n \in Owed : piece'[n] = piece[n]
    BY <1>4, <2>1 DEF Owed
  <2>6. PiecesAccounted'
    BY <1>5, <2>4, <2>5 DEF PiecesAccounted, Submitted
  <2> QED  BY <1>3, <2>2, <2>3, <2>6
<1>6. ASSUME token = NULL, token' = (IF Synchronous(m) THEN m ELSE token), r.command # "copy",
             NEW p \in Place \ heap, heap' = heap \cup {p}, piece' = [piece EXCEPT ![m] = p]
      PROVE  Accounts'
  <2>1. piece'[m] = p /\ \A n \in Message \ {m} : piece'[n] = piece[n]
    BY <1>6
  <2>2. RequestTypes'
    BY <1>1, <1>6 DEF Submitted
  <2>3. \A n \in Message : RequestOK(n)'
    <3>1. RequestOK(m)'
      BY <1>1, <1>2, <1>6, <2>1 DEF RequestOK, Submitted, WrongCount, Synchronous
    <3>2. ASSUME NEW n \in Message \ {m} PROVE RequestOK(n)'
      <4>1. request[n] # NoRequest /\ Synchronous(n) => piece[n] = NULL
        BY <1>6, RequestsAssumption DEF RequestOK
      <4>2. NULL # p /\ NULL \notin heap
        BY <1>6, RequestsAssumption
      <4>3. request'[n] = request[n] /\ result'[n] = result[n] /\ piece'[n] = piece[n] /\ RequestOK(n)
        BY <1>1, <2>1
      <4> QED  BY <1>6, <4>1, <4>2, <4>3 DEF RequestOK, WrongCount, Synchronous
    <3> QED  BY <3>1, <3>2
  <2>4. p # NULL /\ Owed' = Owed \cup {m}
    BY <1>1, <1>2, <1>6, <2>1, RequestsAssumption DEF Owed, WrongCount, Synchronous
  <2>5. \A n \in Owed : piece'[n] = piece[n] /\ piece[n] # p
    BY <1>4, <1>6, <2>1 DEF Owed, PiecesAccounted
  <2>6. p \notin lost /\ UNCHANGED lost
    BY <1>6 DEF PiecesAccounted, Submitted
  <2>7. {piece'[n] : n \in Owed'} = {piece[n] : n \in Owed} \cup {p}
    BY <2>1, <2>4, <2>5
  <2>8. \A i, j \in Owed' : piece'[i] = piece'[j] => i = j
    BY <2>1, <2>4, <2>5 DEF PiecesAccounted
  <2>9. PiecesAccounted'
    BY <1>6, <2>6, <2>7, <2>8 DEF PiecesAccounted
  <2> QED  BY <2>2, <2>3, <2>9
<1> QED  BY <1>3, <1>5, <1>6 DEF Submitted

LEMMA AnsweredKeeps ==
  ASSUME Accounts, NEW m \in Message, result[m] = "busy", Answered(m), UNCHANGED token
  PROVE  /\ Accounts' /\ UNCHANGED request
         /\ ForSha' = ForSha \ {m} /\ ForAes' = ForAes \ {m}
<1> USE DEF Accounts, RequestTypes
<1>1. /\ result'[m] \in {"ok", "failed"}
      /\ \A n \in Message \ {m} : result'[n] = result[n]
      /\ result' \in [Message -> Result]
  BY DEF Answered, Result, ResourceReply, ReplyFailed
<1>2. UNCHANGED <<request, piece, token>>
  BY DEF Answered
<1>3. ForSha' = ForSha \ {m} /\ ForAes' = ForAes \ {m}
  BY <1>1, <1>2 DEF ForSha, ForAes
<1>4. request[m] # NoRequest /\ (piece[m] # NULL => m \in Owed)
  BY DEF RequestOK, Owed
<1>5. \A n \in Message \ {m} : n \in Owed <=> n \in Owed'
  BY <1>1, <1>2 DEF Owed, WrongCount, Synchronous
<1>6. heap' \subseteq heap /\ lost' \subseteq Place
  BY DEF Answered, ReplyFailed, FreeOnHeap
<1>7. RequestTypes'
  BY <1>1, <1>2, <1>6
<1>8. \A n \in Message : RequestOK(n)'
  <2>1. RequestOK(m)'
    <3>1. result'[m] = "failed" /\ WrongCount(request[m]) => heap' = heap \ {piece[m]}
      BY DEF Answered, ReplyFailed, FreeOnHeap, ResourceReply
    <3> QED  BY <1>1, <1>2, <3>1 DEF RequestOK, WrongCount, Synchronous
  <2>2. ASSUME NEW n \in Message \ {m} PROVE RequestOK(n)'
    <3>1. result'[n] = result[n] /\ RequestOK(n)
      BY <1>1
    <3> QED  BY <1>2, <1>6, <3>1 DEF RequestOK, WrongCount, Synchronous
  <2> QED  BY <2>1, <2>2
<1>9. CASE heap' = heap \ {piece[m]} /\ UNCHANGED lost
           /\ (result'[m] = "ok" \/ WrongCount(request[m]))
  <2>1. Owed' = Owed \ {m}
    BY <1>1, <1>2, <1>5, <1>9 DEF Owed, WrongCount, Synchronous
  <2>2. {piece[n] : n \in Owed \ {m}} = {piece[n] : n \in Owed} \ {piece[m]}
    BY <1>4 DEF PiecesAccounted, Owed
  <2>3. piece[m] \notin lost
    BY <1>4, RequestsAssumption DEF PiecesAccounted
  <2>4. PiecesAccounted'
    BY <1>2, <1>9, <2>1, <2>2, <2>3 DEF PiecesAccounted
  <2> QED  BY <1>2, <1>3, <1>7, <1>8, <2>4
<1>10. CASE ResourceReply(m, "ok") /\ piece[m] = NULL /\ UNCHANGED <<heap, lost>>
  <2>1. heap' = heap \ {piece[m]}
    BY <1>10, RequestsAssumption
  <2> QED  BY <1>9, <1>10, <2>1 DEF ResourceReply
<1>11. CASE ~ WrongCount(request[m]) /\ ReplyFailed(m)
  <2>1. result'[m] = "failed" /\ UNCHANGED heap
    BY <1>11 DEF ReplyFailed, ResourceReply
  <2>2. CASE Synchronous(m)
    <3>1. UNCHANGED lost
      BY <1>11, <2>2 DEF ReplyFailed
    <3>2. m \in Owed <=> m \in Owed'
      BY <1>2, <1>11, <2>1, <2>2 DEF Owed, WrongCount, Synchronous
    <3>3. Owed' = Owed
      BY <1>5, <3>2 DEF Owed
    <3>4. PiecesAccounted'
      BY <1>2, <2>1, <3>1, <3>3 DEF PiecesAccounted
    <3> QED  BY <1>2, <1>3, <1>7, <1>8, <3>4
  <2>3. CASE ~ Synchronous(m)
    <3>1. lost' = lost \cup (heap \cap {piece[m]})
      BY <1>11, <2>3 DEF ReplyFailed
    <3>2. Owed' = Owed \ {m}
      BY <1>2, <1>5, <2>1, <2>3 DEF Owed, Synchronous
    <3>3. {piece[n] : n \in Owed \ {m}} = {piece[n] : n \in Owed} \ {piece[m]}
      BY <1>4 DEF PiecesAccounted, Owed
    <3>4. heap \cap {piece[m]} = {piece[n] : n \in Owed} \cap {piece[m]}
      <4>1. piece[m] \in heap => m \in Owed
        BY <1>4, RequestsAssumption
      <4> QED  BY <4>1 DEF PiecesAccounted
    <3>5. PiecesAccounted'
      BY <1>2, <2>1, <3>1, <3>2, <3>3, <3>4 DEF PiecesAccounted
    <3> QED  BY <1>2, <1>3, <1>7, <1>8, <3>5
  <2> QED  BY <2>2, <2>3
<1>12. CASE \/ ResourceReply(m, "ok") /\ FreeOnHeap(m) /\ UNCHANGED lost
            \/ WrongCount(request[m]) /\ ResourceReply(m, "failed") /\ FreeOnHeap(m) /\ UNCHANGED lost
  BY <1>9, <1>12 DEF ResourceReply, FreeOnHeap
<1> QED  BY <1>10, <1>11, <1>12 DEF Answered

LEMMA ReturnsKeeps ==
  ASSUME Accounts, NEW m \in Message, Returns(m)
  PROVE  /\ Accounts' /\ ForSha' = ForSha /\ ForAes' = ForAes
<1> USE DEF Accounts, RequestTypes
<1>1. /\ request[m] # NoRequest /\ result[m] # "busy" /\ UNCHANGED lost
      /\ request'[m] = NoRequest /\ result'[m] = "none" /\ piece'[m] = NULL
      /\ \A n \in Message \ {m} : /\ request'[n] = request[n] /\ result'[n] = result[n]
                                  /\ piece'[n] = piece[n]
      /\ DOMAIN request' = Message /\ result' \in [Message -> Result]
      /\ piece' \in [Message -> Place \cup {NULL}]
  BY DEF Returns, Result
<1>2. /\ heap' = IF Synchronous(m) /\ result[m] = "failed" THEN heap \ {piece[m]} ELSE heap
      /\ token' = IF token = m THEN NULL ELSE token
  BY DEF Returns, FreesPieces
<1>3. ForSha' = ForSha /\ ForAes' = ForAes
  BY <1>1 DEF ForSha, ForAes
<1>4. RequestTypes'
  BY <1>1, <1>2
<1>5. \A n \in Message : RequestOK(n)'
  <2>1. RequestOK(m)'
    BY <1>1 DEF RequestOK
  <2>2. ASSUME NEW n \in Message \ {m} PROVE RequestOK(n)'
    <3>1. /\ RequestOK(n) /\ request'[n] = request[n] /\ result'[n] = result[n]
          /\ piece'[n] = piece[n] /\ heap' \subseteq heap /\ (token = n => token' = n)
      BY <1>1, <1>2
    <3> QED  BY <3>1 DEF RequestOK, WrongCount, Synchronous
  <2> QED  BY <2>1, <2>2
<1>6. Owed' = Owed \ {m}
  <2>1. \A n \in Message \ {m} : n \in Owed <=> n \in Owed'
    BY <1>1 DEF Owed, WrongCount, Synchronous
  <2> QED  BY <1>1, <2>1 DEF Owed
<1>7. \A n \in Owed \ {m} : piece'[n] = piece[n]
  BY <1>1 DEF Owed
<1>8. heap' = {piece[n] : n \in Owed \ {m}} \cup lost /\ {piece[n] : n \in Owed \ {m}} \cap lost = {}
  <2>1. CASE m \in Owed
    <3>1. Synchronous(m) /\ result[m] = "failed"
      BY <1>1, <2>1 DEF Owed
    <3>2. {piece[n] : n \in Owed \ {m}} = {piece[n] : n \in Owed} \ {piece[m]} /\ piece[m] \notin lost
      BY <2>1 DEF PiecesAccounted
    <3> QED  BY <1>2, <3>1, <3>2 DEF PiecesAccounted
  <2>2. CASE m \notin Owed
    <3>1. Synchronous(m) /\ result[m] = "failed" => piece[m] \notin heap
      BY <1>1, <2>2, RequestsAssumption DEF Owed, RequestOK
    <3>2. heap' = heap /\ Owed \ {m} = Owed
      BY <1>2, <2>2, <3>1
    <3> QED  BY <3>2 DEF PiecesAccounted
  <2> QED  BY <2>1, <2>2
<1>9. {piece'[n] : n \in Owed'} = {piece[n] : n \in Owed \ {m}}
  BY <1>6, <1>7
<1>10. \A i, j \in Owed' : piece'[i] = piece'[j] => i = j
  BY <1>6, <1>7 DEF PiecesAccounted
<1>11. PiecesAccounted'
  BY <1>1, <1>8, <1>9, <1>10 DEF PiecesAccounted
<1> QED  BY <1>3, <1>4, <1>5, <1>11

-----------------------------------------------------------------------------
(* A step of the SHA thread keeps the request in its hands or answers it.  *)
InHand ==
  /\ sha' = [ at |-> sha'.at, from |-> sha.from, todo |-> sha'.todo, final |-> sha'.final,
              good |-> sha'.good ]
  /\ sha'.at \in {"next", "event", "spin", "panic"}
Outcome == \/ Quiet /\ InHand
           \/ Answered(sha.from) /\ sha' = Waiting

LEMMA GoesOnOutcome ==
  ASSUME ShaTypes, NEW at \in {"next", "event", "spin", "panic"},
         \/ sha' = [sha EXCEPT !.at = at]
         \/ sha' = [sha EXCEPT !.at = at, !.todo = Tail(@)]
         \/ \E final, good : sha' = [sha EXCEPT !.at = at, !.todo = Tail(@), !.final = final, !.good = good],
         GoesOn, UNCHANGED <<request, piece>>
  PROVE  Quiet /\ InHand /\ sha'.at = at
<1>1. Quiet
  BY DEF GoesOn, Quiet
<1>2. sha = [at |-> sha.at, from |-> sha.from, todo |-> sha.todo, final |-> sha.final, good |-> sha.good]
  BY DEF ShaTypes
<1>3. CASE sha' = [sha EXCEPT !.at = at]
  <2>1. sha' = [at |-> at, from |-> sha.from, todo |-> sha.todo, final |-> sha.final, good |-> sha.good]
    BY <1>2, <1>3
  <2> QED  BY <1>1, <2>1 DEF InHand
<1>4. CASE sha' = [sha EXCEPT !.at = at, !.todo = Tail(@)]
  <2>1. sha' = [at |-> at, from |-> sha.from, todo |-> Tail(sha.todo), final |-> sha.final, good |-> sha.good]
    BY <1>2, <1>4
  <2> QED  BY <1>1, <2>1 DEF InHand
<1>5. ASSUME NEW final, NEW good,
             sha' = [sha EXCEPT !.at = at, !.todo = Tail(@), !.final = final, !.good = good]
      PROVE  InHand /\ sha'.at = at
  <2>1. sha' = [at |-> at, from |-> sha.from, todo |-> Tail(sha.todo), final |-> final, good |-> good]
    BY <1>2, <1>5
  <2> QED  BY <2>1 DEF InHand
<1> QED  BY <1>1, <1>3, <1>4, <1>5

LEMMA EndsOutcome ==
  ASSUME NEW sound, Ends(sound), UNCHANGED <<request, piece>>
  PROVE  Outcome /\ sha' = Waiting
BY DEF Ends, Outcome, Answered, Caller

LEMMA FailsOutcome ==
  ASSUME ShaTypes, ~ WrongCount(request[sha.from]), Fails, UNCHANGED <<request, piece>>
  PROVE  Outcome /\ (sha' = Waiting \/ sha'.at = "panic")
<1>1. CASE HMAC_Panic
  BY <1>1, GoesOnOutcome DEF HMAC_Panic, Outcome
<1>2. CASE ReplyFailed(Caller) /\ sha' = Waiting
  BY <1>2 DEF Caller, Outcome, Answered
<1> QED  BY <1>1, <1>2 DEF Fails

LEMMA ProceedsOutcome ==
  ASSUME ShaTypes, Proceeds, UNCHANGED <<request, piece>>
  PROVE  Outcome /\ (sha' = Waiting \/ sha'.at = "next")
<1>1. CASE Ends(TRUE)
  BY <1>1, EndsOutcome
<1>2. CASE sha' = [sha EXCEPT !.at = "next", !.todo = Tail(@)] /\ GoesOn
  BY <1>2, GoesOnOutcome DEF Outcome
<1> QED  BY <1>1, <1>2 DEF Proceeds

CmdIs == shaCmd = [ execute |-> shaCmd.execute, irq |-> shaCmd.irq, failed |-> shaCmd.failed,
                    blocks |-> shaCmd.blocks ]
LEMMA Started ==
  ASSUME NEW blocks, NEW from, NEW irq, Starts(blocks, from, irq)
  PROVE  CmdIs' /\ shaCmd'.execute = TRUE /\ shaCmd'.irq = irq
BY DEF Starts, CmdIs
LEMMA Stopped ==
  ASSUME CmdIs, shaCmd' = [shaCmd EXCEPT !.execute = FALSE]
  PROVE  CmdIs'
<1>1. shaCmd' = [execute |-> FALSE, irq |-> shaCmd.irq, failed |-> shaCmd.failed, blocks |-> shaCmd.blocks]
  BY DEF CmdIs
<1> QED  BY <1>1 DEF CmdIs

(* It waits only for an engine that it has started with GenerateIrq.       *)
ShaWaits == sha'.at = "event" => shaCmd'.execute /\ shaCmd'.irq

LEMMA WaitingWaits == sha' = Waiting => ShaWaits
BY DEF Waiting, ShaWaits

LEMMA GenerateOutcome ==
  ASSUME ShaTypes, ~ WrongCount(request[sha.from]), Generate
  PROVE  Outcome /\ CmdIs' /\ ShaWaits
<1> USE DEF CmdIs
<1>1. CmdIs /\ UNCHANGED <<request, piece>>
  BY DEF ShaTypes, Generate
<1> HIDE DEF CmdIs
<1>2. CASE Fails /\ shaCmd' = [shaCmd EXCEPT !.execute = FALSE]
  BY <1>1, <1>2, FailsOutcome, Stopped, WaitingWaits DEF ShaWaits
<1>3. CASE Proceeds /\ shaCmd' = [shaCmd EXCEPT !.execute = FALSE]
  BY <1>1, <1>3, ProceedsOutcome, Stopped, WaitingWaits DEF ShaWaits
<1>4. ASSUME NEW blocks, NEW from, Starts(blocks, from, TRUE), sha' = [sha EXCEPT !.at = "event"], GoesOn
      PROVE  Outcome /\ CmdIs' /\ ShaWaits
  BY <1>1, <1>4, GoesOnOutcome, Started DEF ShaWaits, Outcome
<1>5. ASSUME NEW blocks, NEW from, Starts(blocks, from, FALSE), sha' = [sha EXCEPT !.at = "spin"], GoesOn
      PROVE  Outcome /\ CmdIs' /\ ShaWaits
  BY <1>1, <1>5, GoesOnOutcome, Started DEF ShaWaits, Outcome
<1> QED  BY <1>2, <1>3, <1>4, <1>5 DEF Generate

LEMMA GeneratedOutcome ==
  ASSUME ShaTypes, ~ WrongCount(request[sha.from]), Generated
  PROVE  Outcome /\ CmdIs' /\ ShaWaits
<1> USE DEF CmdIs
<1>1. CmdIs /\ UNCHANGED <<request, piece>>
  BY DEF ShaTypes, Generated
<1>2. UNCHANGED shaCmd => CmdIs'
  BY <1>1
<1> HIDE DEF CmdIs
<1>3. CASE Fails /\ UNCHANGED shaCmd
  BY <1>1, <1>2, <1>3, FailsOutcome, WaitingWaits DEF ShaWaits
<1>4. CASE Proceeds /\ UNCHANGED shaCmd
  BY <1>1, <1>2, <1>4, ProceedsOutcome, WaitingWaits DEF ShaWaits
<1>5. ASSUME NEW blocks, NEW from, Starts(blocks, from, FALSE), sha' = [sha EXCEPT !.at = "spin"], GoesOn
      PROVE  Outcome /\ CmdIs' /\ ShaWaits
  BY <1>1, <1>5, GoesOnOutcome, Started DEF ShaWaits, Outcome
<1> QED  BY <1>3, <1>4, <1>5 DEF Generated

LEMMA FinalizedOutcome ==
  ASSUME ShaTypes, Finalized
  PROVE  Outcome /\ CmdIs' /\ ShaWaits
<1>1. UNCHANGED <<request, piece, shaCmd>>
  BY DEF Finalized
<1>2. CmdIs'
  BY <1>1 DEF ShaTypes, CmdIs
<1>3. CASE HMAC_Panic
  BY <1>1, <1>2, <1>3, GoesOnOutcome DEF HMAC_Panic, Outcome, ShaWaits
<1>4. ASSUME NEW sound, Ends(sound) PROVE Outcome /\ CmdIs' /\ ShaWaits
  BY <1>1, <1>2, <1>4, EndsOutcome, WaitingWaits
<1>5. ASSUME sha' = [sha EXCEPT !.at = "next", !.todo = Tail(@), !.final = hash, !.good = ~ shaCmd.failed],
             GoesOn
      PROVE  Outcome /\ CmdIs' /\ ShaWaits
  BY <1>1, <1>2, <1>5, GoesOnOutcome DEF Outcome, ShaWaits
<1> QED  BY <1>3, <1>4, <1>5 DEF Finalized

LEMMA OutcomeKeeps ==
  ASSUME Accounts, ShaOK, sha.from # NULL, Outcome, CmdIs', ShaWaits, UNCHANGED <<token, shaQueue>>
  PROVE  Accounts' /\ ShaOK' /\ ForAes' = ForAes
<1> DEFINE m == sha.from
<1>1. /\ m \in Message /\ sha.at # "wait" /\ Has(shaQueue, m, ForSha) /\ ~ WrongCount(request[m])
      /\ shaQueue \in Seq(Message) /\ m \in ForSha
  BY HasEnd DEF ShaOK, ShaTypes, ShaHas
<1>2. result[m] = "busy" /\ m \notin ForAes
  BY <1>1 DEF ForSha, ForAes
<1>3. ShaInterrupts'
  BY DEF ShaWaits, ShaInterrupts
<1>4. CASE Quiet /\ InHand
  <2>1. Accounts' /\ ForSha' = ForSha /\ ForAes' = ForAes /\ UNCHANGED request
    BY <1>4, QuietKeeps DEF Quiet
  <2>2. sha'.from = m /\ sha'.at # "wait"
    BY <1>4 DEF InHand
  <2>3. ShaTypes'
    <3>1. sha' = [at |-> sha'.at, from |-> sha'.from, todo |-> sha'.todo, final |-> sha'.final, good |-> sha'.good]
      BY <1>4, <2>2 DEF InHand
    <3> QED  BY <1>1, <2>2, <3>1 DEF ShaTypes, CmdIs
  <2>4. ShaHas'
    BY <1>1, <2>1, <2>2 DEF ShaHas, WrongCount
  <2> QED  BY <1>3, <2>1, <2>3, <2>4 DEF ShaOK
<1>5. CASE Answered(m) /\ sha' = Waiting
  <2>1. Accounts' /\ ForSha' = ForSha \ {m} /\ ForAes' = ForAes
    BY <1>1, <1>2, <1>5, AnsweredKeeps
  <2>2. sha'.from = NULL /\ sha'.at = "wait"
    BY <1>5 DEF Waiting
  <2>3. ShaTypes'
    BY <1>1, <1>5, <2>2 DEF ShaTypes, CmdIs, Waiting
  <2>4. Has(shaQueue, NULL, ForSha \ {m})
    BY <1>1, HasEnd
  <2>5. ShaHas'
    BY <2>1, <2>2, <2>4 DEF ShaHas
  <2> QED  BY <1>3, <2>1, <2>3, <2>5 DEF ShaOK
<1> QED  BY <1>4, <1>5 DEF Outcome

LEMMA ShaTakesKeeps ==
  ASSUME Accounts, ShaOK, shaQueue # << >>, NEW s, ShaTakes(Head(shaQueue), s), UNCHANGED token
  PROVE  Accounts' /\ ShaOK' /\ ForAes' = ForAes
<1> DEFINE m == Head(shaQueue)
           r == request[m]
<1>1. sha.at = "wait" /\ sha.from = NULL /\ shaQueue \in Seq(Message)
  BY DEF ShaTakes, ShaOK, ShaTypes
<1>2. Has(shaQueue, NULL, ForSha)
  BY <1>1 DEF ShaOK, ShaHas
<1>3. /\ m \in ForSha /\ m \in Message /\ Tail(shaQueue) \in Seq(Message)
      /\ Has(Tail(shaQueue), m, ForSha) /\ Has(Tail(shaQueue), NULL, ForSha \ {m})
  BY <1>1, <1>2, HasTake
<1>4. result[m] = "busy" /\ m \notin ForAes /\ m # NULL
  BY <1>3, RequestsAssumption DEF ForSha, ForAes
<1>5. shaQueue' = Tail(shaQueue) /\ UNCHANGED <<request, piece, shaCmd, shaEvent>>
  BY DEF ShaTakes
<1>6. CmdIs'
  BY <1>5 DEF ShaOK, ShaTypes, CmdIs
<1>7. CASE Answered(m) /\ UNCHANGED sha
  <2>1. Accounts' /\ ForSha' = ForSha \ {m} /\ ForAes' = ForAes
    BY <1>3, <1>4, <1>7, AnsweredKeeps
  <2>2. ShaTypes' /\ ShaInterrupts'
    BY <1>1, <1>3, <1>5, <1>6, <1>7 DEF ShaOK, ShaTypes, CmdIs, ShaInterrupts
  <2>3. ShaHas'
    BY <1>1, <1>3, <1>5, <1>7, <2>1 DEF ShaHas
  <2> QED  BY <2>1, <2>2, <2>3 DEF ShaOK
<1>8. CASE GoesOn /\ ~ WrongCount(r)
           /\ sha' = [at |-> "next", from |-> m, todo |-> Calls(r, s), final |-> << >>, good |-> TRUE]
  <2>1. Accounts' /\ ForSha' = ForSha /\ ForAes' = ForAes
    BY <1>5, <1>8, QuietKeeps DEF GoesOn, Quiet
  <2>2. sha'.from = m /\ sha'.at = "next"
    BY <1>8
  <2>3. sha' = [at |-> sha'.at, from |-> sha'.from, todo |-> sha'.todo, final |-> sha'.final, good |-> sha'.good]
    BY <1>8
  <2>4. ShaTypes' /\ ShaInterrupts'
    BY <1>3, <1>4, <1>5, <1>6, <2>2, <2>3 DEF ShaTypes, CmdIs, ShaInterrupts
  <2>5. ShaHas'
    BY <1>3, <1>5, <1>8, <2>1, <2>2 DEF ShaHas, WrongCount
  <2> QED  BY <2>1, <2>4, <2>5 DEF ShaOK
<1>9. CASE ResourceReply(m, "ok") /\ FreeOnHeap(m) /\ UNCHANGED <<lost, told, sha>>
  BY <1>5, <1>7, <1>9 DEF Answered
<1>10. CASE WrongCount(r) /\ ResourceReply(m, "failed") /\ FreeOnHeap(m) /\ UNCHANGED <<lost, told, sha>>
  BY <1>5, <1>7, <1>10 DEF Answered
<1>11. CASE ~ WrongCount(r) /\ ReplyFailed(m) /\ UNCHANGED sha
  BY <1>5, <1>7, <1>11 DEF Answered
<1> QED  BY <1>8, <1>9, <1>10, <1>11 DEF ShaTakes

LEMMA ShaRunsKeeps ==
  ASSUME Accounts, ShaOK, ShaRuns, UNCHANGED token
  PROVE  Accounts' /\ ShaOK' /\ ForAes' = ForAes
<1>1. Accounts' /\ ForSha' = ForSha /\ ForAes' = ForAes /\ UNCHANGED <<request, sha, shaQueue>>
  BY QuietKeeps DEF ShaRuns, Quiet
<1>2. CmdIs'
  <2>1. PICK failed \in BOOLEAN : shaCmd' = [shaCmd EXCEPT !.execute = FALSE, !.failed = failed, !.blocks = << >>]
    BY DEF ShaRuns
  <2>2. CmdIs
    BY DEF ShaOK, ShaTypes, CmdIs
  <2>3. shaCmd' = [execute |-> FALSE, irq |-> shaCmd.irq, failed |-> failed, blocks |-> << >>]
    BY <2>1, <2>2 DEF CmdIs
  <2> QED  BY <2>3 DEF CmdIs
<1>3. ShaInterrupts'
  BY <1>1 DEF ShaRuns, ShaOK, ShaInterrupts
<1>4. ShaTypes'
  BY <1>1, <1>2 DEF ShaOK, ShaTypes, CmdIs
<1>5. ShaHas'
  BY <1>1 DEF ShaOK, ShaHas, WrongCount
<1> QED  BY <1>1, <1>3, <1>4, <1>5 DEF ShaOK

(* A step that is not the SHA thread's, its engine's or a program's leaves *)
(* them alone, when it leaves the requests for it.                         *)
LEMMA ShaAlone ==
  ASSUME ShaOK, UNCHANGED <<shaVars, request>>, ForSha' = ForSha
  PROVE  ShaOK'
<1>1. UNCHANGED <<sha, shaCmd, shaEvent, shaQueue>>
  BY DEF shaVars
<1>2. ShaTypes' /\ ShaInterrupts'
  BY <1>1 DEF ShaOK, ShaTypes, ShaInterrupts
<1>3. ShaHas'
  BY <1>1 DEF ShaOK, ShaHas, WrongCount
<1> QED  BY <1>2, <1>3 DEF ShaOK

LEMMA AesAlone ==
  ASSUME AesOK, UNCHANGED <<aes, aesCmd, aesEvent, aesQueue>>, ForAes' = ForAes
  PROVE  AesOK'
BY DEF AesOK, AesTypes, AesHas, AesInterrupts

LEMMA ShaThreadKeeps ==
  ASSUME IInv, ShaThread \/ (ShaRuns /\ UNCHANGED <<aesVars, callVars>>)
  PROVE  IInv'
<1>1. Accounts /\ ShaOK /\ AesOK /\ ShaTypes
  BY DEF IInv, ShaOK
<1>2. UNCHANGED <<aes, aesCmd, aesEvent, aesQueue, token>>
  BY DEF ShaThread, aesVars, callVars
<1>3. Accounts' /\ ShaOK' /\ ForAes' = ForAes
  <2>1. CASE ShaRuns
    BY <1>1, <1>2, <2>1, ShaRunsKeeps
  <2>2. ASSUME shaQueue # << >>, NEW s, ShaTakes(Head(shaQueue), s)
        PROVE  Accounts' /\ ShaOK' /\ ForAes' = ForAes
    BY <1>1, <1>2, <2>2, ShaTakesKeeps
  <2>3. CASE ShaEngineHandler
    <3>1. sha.at # "wait" /\ UNCHANGED shaQueue
      BY <2>3 DEF ShaEngineHandler, Generate, Generated, Finalized
    <3>2. sha.from # NULL /\ ~ WrongCount(request[sha.from])
      BY <1>1, <3>1 DEF ShaTypes, ShaOK, ShaHas
    <3>3. Outcome /\ CmdIs' /\ ShaWaits
      BY <1>1, <2>3, <3>2, GenerateOutcome, GeneratedOutcome, FinalizedOutcome DEF ShaEngineHandler
    <3> QED  BY <1>1, <1>2, <3>1, <3>2, <3>3, OutcomeKeeps
  <2> QED  BY <2>1, <2>2, <2>3 DEF ShaThread
<1> QED  BY <1>1, <1>2, <1>3, AesAlone DEF IInv

-----------------------------------------------------------------------------
(* The AES thread and its engine.                                          *)
LEMMA AesTakesKeeps ==
  ASSUME Accounts, AesOK, AesTakes, UNCHANGED token
  PROVE  Accounts' /\ AesOK' /\ ForSha' = ForSha /\ UNCHANGED request
<1> DEFINE m == Head(aesQueue)
<1>1. aes.from = NULL /\ aesQueue # << >> /\ aesQueue' = Tail(aesQueue) /\ UNCHANGED aesEvent
  BY DEF AesTakes
<1>2. Accounts' /\ ForSha' = ForSha /\ ForAes' = ForAes /\ UNCHANGED request
  BY QuietKeeps DEF AesTakes, Quiet
<1>3. m \in Message /\ Tail(aesQueue) \in Seq(Message) /\ Has(Tail(aesQueue), m, ForAes)
  BY <1>1, HasTake DEF AesOK, AesTypes, AesHas
<1>4. /\ aes' = [from |-> aes'.from, saved |-> aes'.saved] /\ aes'.from = m
  BY DEF AesTakes
<1>5. /\ aesCmd' = [ execute |-> aesCmd'.execute, irq |-> aesCmd'.irq, failed |-> aesCmd'.failed,
                     key |-> aesCmd'.key, iv |-> aesCmd'.iv ]
      /\ aesCmd'.execute = TRUE /\ aesCmd'.irq = TRUE
  BY DEF AesTakes, AesStarts
<1>6. AesTypes'
  BY <1>1, <1>3, <1>4, <1>5 DEF AesTypes
<1>7. AesHas'
  BY <1>1, <1>2, <1>3, <1>4 DEF AesHas
<1> QED  BY <1>2, <1>5, <1>6, <1>7 DEF AesOK, AesInterrupts

LEMMA AesDoneKeeps ==
  ASSUME Accounts, AesOK, AesDone, UNCHANGED token
  PROVE  Accounts' /\ AesOK' /\ ForSha' = ForSha /\ UNCHANGED request
<1> DEFINE m == aes.from
<1>1. /\ m \in Message /\ UNCHANGED <<request, piece, aesCmd, aesQueue>>
      /\ Has(aesQueue, m, ForAes) /\ aesQueue \in Seq(Message)
  BY DEF AesDone, AesOK, AesTypes, AesHas
<1>2. m \in ForAes /\ Has(aesQueue, NULL, ForAes \ {m})
  BY <1>1, HasEnd
<1>3. result[m] = "busy" /\ m \notin ForSha /\ ~ WrongCount(request[m])
      /\ (request[m].command = "copy" => piece[m] = NULL)
  BY <1>2 DEF ForAes, ForSha, Accounts, RequestOK
<1>4. Answered(m)
  <2>1. CASE ReplyFailed(m)
    BY <1>1, <1>3, <2>1 DEF Answered
  <2>2. CASE ResourceReply(m, "ok") /\ UNCHANGED lost /\ FreeOnHeap(m)
    BY <1>1, <2>2 DEF Answered
  <2>3. CASE ResourceReply(m, "ok") /\ UNCHANGED <<heap, lost>> /\ request[m].command = "copy"
    BY <1>1, <1>3, <2>3 DEF Answered
  <2> QED  BY <2>1, <2>2, <2>3 DEF AesDone
<1>5. Accounts' /\ ForSha' = ForSha /\ ForAes' = ForAes \ {m}
  BY <1>1, <1>3, <1>4, AnsweredKeeps
<1>6. aes' = [from |-> NULL, saved |-> aes'.saved]
  <2>1. aes = [from |-> aes.from, saved |-> aes.saved]
    BY DEF AesOK, AesTypes
  <2>2. CASE aes' = [aes EXCEPT !.from = NULL]
    <3>1. aes' = [from |-> NULL, saved |-> aes.saved]
      BY <2>1, <2>2
    <3> QED  BY <3>1
  <2>3. ASSUME NEW saved, aes' = [from |-> NULL, saved |-> saved]
        PROVE  aes' = [from |-> NULL, saved |-> aes'.saved]
    BY <2>3
  <2> QED  BY <2>2, <2>3 DEF AesDone
<1>7. aes'.from = NULL
  BY <1>6
<1>8. AesTypes' /\ AesInterrupts'
  BY <1>1, <1>6, <1>7 DEF AesOK, AesTypes, AesInterrupts
<1>9. AesHas'
  BY <1>1, <1>2, <1>5, <1>7 DEF AesHas
<1> QED  BY <1>1, <1>5, <1>8, <1>9 DEF AesOK

LEMMA AesRunsKeeps ==
  ASSUME Accounts, AesOK, AesRuns, UNCHANGED token
  PROVE  Accounts' /\ AesOK' /\ ForSha' = ForSha /\ UNCHANGED request
<1>1. Accounts' /\ ForSha' = ForSha /\ ForAes' = ForAes /\ UNCHANGED <<request, aes, aesQueue>>
  BY QuietKeeps DEF AesRuns, Quiet
<1>2. PICK failed \in BOOLEAN : aesCmd' = [aesCmd EXCEPT !.execute = FALSE, !.failed = failed]
  BY DEF AesRuns
<1>3. aesCmd' = [execute |-> FALSE, irq |-> aesCmd.irq, failed |-> failed, key |-> aesCmd.key, iv |-> aesCmd.iv]
  BY <1>2 DEF AesOK, AesTypes
<1>4. AesTypes'
  BY <1>1, <1>3 DEF AesOK, AesTypes
<1>5. AesInterrupts'
  BY <1>1 DEF AesRuns, AesOK, AesInterrupts
<1> QED  BY <1>1, <1>4, <1>5 DEF AesOK, AesHas

LEMMA AesKeeps ==
  ASSUME IInv, AesThread \/ (AesRuns /\ UNCHANGED <<shaVars, callVars>>)
  PROVE  IInv'
<1>1. Accounts /\ ShaOK /\ AesOK
  BY DEF IInv
<1>2. UNCHANGED <<shaVars, token>>
  BY DEF AesThread, callVars
<1>3. Accounts' /\ AesOK' /\ ForSha' = ForSha /\ UNCHANGED request
  BY <1>1, <1>2, AesTakesKeeps, AesDoneKeeps, AesRunsKeeps DEF AesThread, AesEngineHandler
<1> QED  BY <1>1, <1>2, <1>3, ShaAlone DEF IInv

LEMMA CacheKeeps ==
  ASSUME IInv, Cache
  PROVE  IInv'
<1>1. Quiet /\ UNCHANGED <<aes, aesCmd, aesEvent, aesQueue, shaVars, token>>
  BY DEF Cache, Evicts, Quiet, callVars
<1>2. Accounts' /\ ForSha' = ForSha /\ ForAes' = ForAes
  BY <1>1, QuietKeeps DEF IInv
<1> QED  BY <1>1, <1>2, ShaAlone, AesAlone DEF IInv, Quiet

LEMMA KeysKeep ==
  ASSUME IInv, Keys
  PROVE  IInv'
<1>1. Quiet /\ UNCHANGED <<aes, aesCmd, aesEvent, aesQueue, shaVars, token>>
  BY DEF Keys, Delete, Create, Quiet, requestVars, aesVars
<1>2. Accounts' /\ ForSha' = ForSha /\ ForAes' = ForAes
  BY <1>1, QuietKeeps DEF IInv
<1> QED  BY <1>1, <1>2, ShaAlone, AesAlone DEF IInv, Quiet

-----------------------------------------------------------------------------
(* The calls.                                                              *)
LEMMA Allocated ==
  ASSUME Accounts, NEW m \in Message, NEW h, Allowed(m, h), AllocateOnHeap(m), HoldsToken(m)
  PROVE  /\ token = NULL /\ token' = IF Synchronous(m) THEN m ELSE token
         /\ \E p \in Place \ heap : heap' = heap \cup {p} /\ piece' = [piece EXCEPT ![m] = p]
BY FreePlace DEF Accounts, RequestTypes, Allowed, AllocateOnHeap, HoldsToken

LEMMA ForShaKeeps ==
  ASSUME IInv, NEW m \in Message, NEW r, Submitted(m, r), r.src = NULL,
         shaQueue' = Append(shaQueue, m),
         UNCHANGED <<sha, shaCmd, shaEvent, aes, aesCmd, aesEvent, aesQueue>>
  PROVE  IInv'
<1>1. /\ Accounts' /\ m \notin ForSha
      /\ ForSha' = ForSha \cup {m} /\ ForAes' = ForAes
  BY SubmittedKeeps DEF IInv
<1>2. /\ Append(shaQueue, m) \in Seq(Message)
      /\ Has(Append(shaQueue, m), sha.from, ForSha \cup {m})
  BY <1>1, HasAppend DEF IInv, ShaOK, ShaTypes, ShaHas
<1>3. ShaTypes' /\ ShaInterrupts'
  BY <1>2 DEF IInv, ShaOK, ShaTypes, ShaInterrupts
<1>4. sha.from # NULL => ~ WrongCount(request'[sha.from])
  <2>1. sha.from # NULL => sha.from \in ForSha /\ sha.from \in Message
    BY HasEnd DEF IInv, ShaOK, ShaTypes, ShaHas
  <2>2. sha.from # NULL => request'[sha.from] = request[sha.from]
    BY <1>1, <2>1 DEF Submitted, IInv, Accounts, RequestTypes
  <2> QED  BY <2>2 DEF IInv, ShaOK, ShaHas, WrongCount
<1>5. ShaHas'
  BY <1>1, <1>2, <1>4 DEF ShaHas, WrongCount
<1> QED  BY <1>1, <1>3, <1>5, AesAlone DEF IInv, ShaOK

LEMMA ForAesKeeps ==
  ASSUME IInv, NEW m \in Message, NEW r, Submitted(m, r), r.src # NULL,
         aesQueue' = Append(aesQueue, m),
         UNCHANGED <<sha, shaCmd, shaEvent, shaQueue, aes, aesCmd, aesEvent>>
  PROVE  IInv'
<1>1. /\ Accounts' /\ m \notin ForSha /\ m \notin ForAes
      /\ ForSha' = ForSha /\ ForAes' = ForAes \cup {m}
  BY SubmittedKeeps DEF IInv
<1>2. /\ Append(aesQueue, m) \in Seq(Message)
      /\ Has(Append(aesQueue, m), aes.from, ForAes \cup {m})
  BY <1>1, HasAppend DEF IInv, AesOK, AesTypes, AesHas
<1>3. AesOK'
  BY <1>1, <1>2 DEF IInv, AesOK, AesTypes, AesHas, AesInterrupts
<1>4. ShaTypes' /\ ShaInterrupts'
  BY DEF IInv, ShaOK, ShaTypes, ShaInterrupts
<1>5. sha.from # NULL => ~ WrongCount(request'[sha.from])
  <2>1. sha.from # NULL => sha.from \in ForSha /\ sha.from \in Message
    BY HasEnd DEF IInv, ShaOK, ShaTypes, ShaHas
  <2>2. sha.from # NULL => request'[sha.from] = request[sha.from]
    BY <1>1, <2>1 DEF Submitted, IInv, Accounts, RequestTypes
  <2> QED  BY <2>2 DEF IInv, ShaOK, ShaHas, WrongCount
<1>6. ShaHas'
  BY <1>1, <1>5 DEF IInv, ShaOK, ShaHas, WrongCount
<1> QED  BY <1>1, <1>3, <1>4, <1>6 DEF IInv, ShaOK

LEMMA MacSubmits ==
  ASSUME IInv, NEW m \in Message, NEW h, NEW kind \in {"mac", "plain"}, NEW command, NEW custom, NEW input,
         GenerateBlockMAC(m, h, kind, command, custom, input), command # "copy"
  PROVE  IInv'
<1> DEFINE r == [NoRequest EXCEPT !.kind = kind, !.command = command, !.handle = h,
                                  !.custom = Units(m, 0, custom),
                                  !.input = Units(m, custom, input),
                                  !.secret = Secret(h),
                                  !.hurried = ~ Synchronous(m) /\ sha.at # "wait"]
<1>1. r.kind = kind /\ r.command = command /\ r.src = NULL
  BY DEF NoRequest
<1>2. r # NoRequest
  <2>1. NoRequest.kind = NULL /\ kind # NULL
    BY RequestsAssumption DEF NoRequest, Kind
  <2> QED  BY <1>1, <2>1
<1>3. Free(m, kind) /\ Allowed(m, h) /\ AllocateOnHeap(m) /\ HoldsToken(m) /\ Submits(m, r)
      /\ shaQueue' = Append(shaQueue, m) /\ UNCHANGED <<lost, sha, shaCmd, shaEvent, aes, aesCmd, aesEvent, aesQueue>>
  BY DEF GenerateBlockMAC, UNCHANGEDByCall
<1> HIDE DEF r
<1>4. Submitted(m, r)
  BY <1>1, <1>2, <1>3, Allocated DEF Submitted, Submits, Free, IInv
<1> QED  BY <1>1, <1>3, <1>4, ForShaKeeps

LEMMA CryptSubmits ==
  ASSUME IInv, NEW m \in Message, NEW h, NEW command \in {"encrypt", "decrypt"}, NEW dst,
         Crypt(m, h, command, dst)
  PROVE  IInv'
<1> DEFINE r == [NoRequest EXCEPT !.kind = "aes", !.command = command, !.secret = Secret(h),
                                  !.src = "a", !.dst = dst]
<1>1. r.kind = "aes" /\ r.command = command /\ r.src = "a"
  BY DEF NoRequest
<1>2. r # NoRequest
  <2>1. NoRequest.kind = NULL /\ "aes" # NULL
    BY RequestsAssumption DEF NoRequest, Kind
  <2> QED  BY <1>1, <2>1
<1>3. Free(m, command) /\ Allowed(m, h) /\ AllocateOnHeap(m) /\ HoldsToken(m) /\ Submits(m, r)
      /\ aesQueue' = Append(aesQueue, m) /\ UNCHANGED <<lost, sha, shaCmd, shaEvent, shaQueue, aes, aesCmd, aesEvent>>
  BY DEF Crypt, UNCHANGEDByCall
<1> HIDE DEF r
<1>4. Submitted(m, r)
  BY <1>1, <1>2, <1>3, Allocated DEF Submitted, Submits, Free, IInv, WrongCount
<1>5. "a" # NULL
  BY BufferAssumption DEF Buffer
<1> QED  BY <1>1, <1>3, <1>4, <1>5, ForAesKeeps

LEMMA HashSubmits ==
  ASSUME IInv, NEW m \in Message, NEW command, NEW input, Hash(m, command, input)
  PROVE  IInv'
<1> DEFINE r == [NoRequest EXCEPT !.kind = "sha", !.command = command, !.input = Units(m, 0, input)]
<1>1. r.kind = "sha" /\ r.src = NULL
  BY DEF NoRequest
<1>2. r # NoRequest
  <2>1. NoRequest.kind = NULL /\ "sha" # NULL
    BY RequestsAssumption DEF NoRequest, Kind
  <2> QED  BY <1>1, <2>1
<1>3. /\ Free(m, "hash") /\ Submits(m, r) /\ shaQueue' = Append(shaQueue, m)
      /\ piece' = [piece EXCEPT ![m] = NULL] /\ UNCHANGED <<heap, token>>
      /\ UNCHANGED <<lost, sha, shaCmd, shaEvent, aes, aesCmd, aesEvent, aesQueue>>
  BY DEF Hash, UNCHANGEDByCall
<1> HIDE DEF r
<1>4. Submitted(m, r)
  BY <1>1, <1>2, <1>3 DEF Submitted, Submits, Free
<1> QED  BY <1>1, <1>3, <1>4, ForShaKeeps

LEMMA VerifySubmits ==
  ASSUME IInv, NEW m \in Message, NEW n, NEW tampered, Verify(m, n, tampered)
  PROVE  IInv'
<1>1. PICK claims :
        /\ Free(m, "verify") /\ shaQueue' = Append(shaQueue, m)
        /\ Submits(m, [NoRequest EXCEPT !.kind = "verify", !.claims = claims])
        /\ piece' = [piece EXCEPT ![m] = NULL] /\ UNCHANGED <<heap, token>>
        /\ UNCHANGED <<lost, sha, shaCmd, shaEvent, aes, aesCmd, aesEvent, aesQueue>>
  BY DEF Verify, UNCHANGEDByCall
<1> DEFINE r == [NoRequest EXCEPT !.kind = "verify", !.claims = claims]
<1>2. r.kind = "verify" /\ r.src = NULL
  BY DEF NoRequest
<1>3. r # NoRequest
  <2>1. NoRequest.kind = NULL /\ "verify" # NULL
    BY RequestsAssumption DEF NoRequest, Kind
  <2> QED  BY <1>2, <2>1
<1>4. Submits(m, r)
  BY <1>1
<1> HIDE DEF r
<1>5. Submitted(m, r)
  BY <1>1, <1>2, <1>3, <1>4 DEF Submitted, Submits, Free
<1> QED  BY <1>1, <1>2, <1>5, ForShaKeeps

LEMMA CopySubmits ==
  ASSUME IInv, NEW m \in Message, Copy(m)
  PROVE  IInv'
<1> DEFINE r == [NoRequest EXCEPT !.kind = "aes", !.command = "copy", !.src = "a", !.dst = "b"]
<1>1. r.kind = "aes" /\ r.src = "a"
  BY DEF NoRequest
<1>2. r # NoRequest
  <2>1. NoRequest.kind = NULL /\ "aes" # NULL
    BY RequestsAssumption DEF NoRequest, Kind
  <2> QED  BY <1>1, <2>1
<1>3. /\ Free(m, "copy") /\ Submits(m, r) /\ aesQueue' = Append(aesQueue, m)
      /\ piece' = [piece EXCEPT ![m] = NULL] /\ UNCHANGED <<heap, token>>
      /\ UNCHANGED <<lost, sha, shaCmd, shaEvent, shaQueue, aes, aesCmd, aesEvent>>
  BY DEF Copy, UNCHANGEDByCall
<1> HIDE DEF r
<1>4. Submitted(m, r)
  BY <1>1, <1>2, <1>3 DEF Submitted, Submits, Free, WrongCount
<1>5. "a" # NULL
  BY BufferAssumption DEF Buffer
<1> QED  BY <1>1, <1>3, <1>4, <1>5, ForAesKeeps

LEMMA CallingKeeps ==
  ASSUME IInv, Calling
  PROVE  IInv'
<1>1. PICK m \in Message :
        \/ \E h \in Handle, custom \in Customs : GenerateBlockMAC(m, h, "mac", "init", custom, 0)
        \/ \E h \in Handle, command \in Command \ {"init"}, custom \in Customs, input \in Inputs :
             GenerateBlockMAC(m, h, "mac", command, custom, input)
        \/ \E h \in Handle : GenerateBlockMAC(m, h, "plain", "init", 0, 0)
        \/ \E h \in Handle, command \in {"encrypt", "decrypt"}, dst \in Buffer :
             Crypt(m, h, command, dst)
        \/ \E command \in Command, input \in Inputs : Hash(m, command, input)
        \/ \E n \in Verified, tampered \in BOOLEAN : Verify(m, n, tampered)
        \/ Copy(m)
        \/ Returns(m)
  BY DEF Calling
<1>2. \A command \in Command : command # "copy"
  BY DEF Command
<1>3. ASSUME NEW h, NEW kind \in {"mac", "plain"}, NEW command \in Command, NEW custom, NEW input,
             GenerateBlockMAC(m, h, kind, command, custom, input)
      PROVE  IInv'
  BY <1>2, <1>3, MacSubmits
<1>4. CASE Returns(m)
  <2>1. Accounts' /\ ForSha' = ForSha /\ ForAes' = ForAes
    BY <1>4, ReturnsKeeps DEF IInv
  <2>2. UNCHANGED <<sha, shaCmd, shaEvent, shaQueue, aes, aesCmd, aesEvent, aesQueue>>
    BY <1>4 DEF Returns, aesVars
  <2>3. sha.from # NULL => ~ WrongCount(request'[sha.from])
    <3>1. sha.from # NULL => sha.from \in ForSha /\ sha.from \in Message
      BY HasEnd DEF IInv, ShaOK, ShaTypes, ShaHas
    <3>2. sha.from # NULL => sha.from # m
      BY <1>4, <3>1 DEF ForSha, Returns
    <3>3. sha.from # NULL => request'[sha.from] = request[sha.from]
      BY <1>4, <3>1, <3>2 DEF Returns, IInv, Accounts, RequestTypes
    <3> QED  BY <3>3 DEF IInv, ShaOK, ShaHas, WrongCount
  <2>4. ShaOK'
    <3>1. ShaTypes' /\ ShaInterrupts'
      BY <2>2 DEF IInv, ShaOK, ShaTypes, ShaInterrupts
    <3>2. ShaHas'
      BY <2>1, <2>2, <2>3 DEF IInv, ShaOK, ShaHas, WrongCount
    <3> QED  BY <3>1, <3>2 DEF ShaOK
  <2> QED  BY <2>1, <2>2, <2>4, AesAlone DEF IInv
<1>5. "init" \in Command
  BY DEF Command
<1> QED  BY <1>1, <1>3, <1>4, <1>5, CryptSubmits, HashSubmits, VerifySubmits, CopySubmits

-----------------------------------------------------------------------------
LEMMA IInvInit == Init => IInv
<1> SUFFICES ASSUME Init PROVE IInv
  OBVIOUS
<1> USE DEF Init, RequestsInit, ShaInit, AesInit
<1>1. RequestTypes
  BY DEF RequestTypes, Result
<1>2. \A m \in Message : request[m] = NoRequest /\ result[m] = "none"
  OBVIOUS
<1>3. Accounts
  BY <1>1, <1>2 DEF Accounts, RequestOK, PiecesAccounted, Owed
<1>4. ForSha = {} /\ ForAes = {}
  BY <1>2 DEF ForSha, ForAes
<1>5. \A S : << >> \in Seq(S) /\ Elements(<< >>) = {} /\ Distinct(<< >>)
  BY DEF Elements, Distinct
<1>6. ShaOK
  BY <1>4, <1>5 DEF ShaOK, ShaTypes, ShaHas, Has, ShaInterrupts, Waiting
<1>7. AesOK
  BY <1>4, <1>5 DEF AesOK, AesTypes, AesHas, Has, AesInterrupts
<1> QED  BY <1>3, <1>6, <1>7 DEF IInv

LEMMA IInvStep == IInv /\ [Next]_vars => IInv'
<1> SUFFICES ASSUME IInv, [Next]_vars PROVE IInv'
  OBVIOUS
<1>1. CASE UNCHANGED vars
  <2>1. Quiet /\ UNCHANGED <<aes, aesCmd, aesEvent, aesQueue, shaVars, token>>
    BY <1>1 DEF vars, requestVars, aesVars, callVars, Quiet
  <2>2. Accounts' /\ ForSha' = ForSha /\ ForAes' = ForAes
    BY <2>1, QuietKeeps DEF IInv
  <2> QED  BY <2>1, <2>2, ShaAlone, AesAlone DEF IInv, Quiet
<1>2. CASE Calling  BY <1>2, CallingKeeps
<1>3. CASE Keys  BY <1>3, KeysKeep
<1>4. CASE ShaThread  BY <1>4, ShaThreadKeeps
<1>5. CASE AesThread  BY <1>5, AesKeeps
<1>6. CASE Engines  BY <1>6, ShaThreadKeeps, AesKeeps DEF Engines
<1>7. CASE Cache  BY <1>7, CacheKeeps
<1> QED  BY <1>1, <1>2, <1>3, <1>4, <1>5, <1>6, <1>7 DEF Next

LEMMA Inductive == Spec => []IInv
BY IInvInit, IInvStep, PTL DEF Spec

(* Whatever is asked for and whenever the engines fail, the vectors of a   *)
(* request stay on the kernel heap until exactly one of the engine thread  *)
(* and a synchronous caller has freed them, and the only vectors that      *)
(* nobody frees are those of asynchronous requests that failed.            *)
THEOREM PiecesAreAccounted == Spec => []PiecesAccounted
<1>1. IInv => PiecesAccounted
  BY DEF IInv, Accounts
<1> QED  BY <1>1, Inductive, PTL

(* No interleaving of callers, engine threads and interrupts leaves a      *)
(* request unanswered with nobody at work on it: its engine thread can     *)
(* run, or its engine is at work and has been told to interrupt.           *)
THEOREM NothingIsStuck == Spec => []NothingStuck
<1>1. IInv => NothingStuck
  <2> SUFFICES ASSUME IInv, NEW m \in Message, result[m] = "busy"
               PROVE  IF request[m].src = NULL
                      THEN ShaBlocked => shaCmd.execute /\ shaCmd.irq
                      ELSE AesBlocked => aesCmd.execute /\ aesCmd.irq
    BY DEF NothingStuck
  <2>1. CASE request[m].src = NULL
    <3>1. m \in ForSha
      BY <2>1 DEF ForSha
    <3>2. ~ (sha.at = "wait" /\ shaQueue = << >>)
      <4>1. shaQueue = << >> => Elements(shaQueue) = {}
        BY DEF Elements
      <4> QED  BY <3>1, <4>1 DEF IInv, ShaOK, ShaTypes, ShaHas, Has
    <3> QED  BY <2>1, <3>2 DEF ShaBlocked, IInv, ShaOK, ShaInterrupts
  <2>2. CASE request[m].src # NULL
    <3>1. m \in ForAes
      BY <2>2 DEF ForAes
    <3>2. ~ (aes.from = NULL /\ aesQueue = << >>)
      <4>1. aesQueue = << >> => Elements(aesQueue) = {}
        BY DEF Elements
      <4> QED  BY <3>1, <4>1 DEF IInv, AesOK, AesHas, Has
    <3> QED  BY <2>2, <3>2 DEF AesBlocked, IInv, AesOK, AesInterrupts
  <2> QED  BY <2>1, <2>2
<1> QED  BY <1>1, Inductive, PTL

-----------------------------------------------------------------------------
(* What the AES requests are about.  While a request waits, its input as   *)
(* the program sees it, its key and its vector are those it was made with. *)
AesCommand == {"encrypt", "decrypt", "copy"}
Asked(m, input) ==
  LET r == request[m]
      output == Cipher(r.command, r.secret, iv[m], input)
  IN wanted[m].data = output /\ wanted[m].next = NextVector(r.command, iv[m], input, output)
AesRequestOK(m) ==
  LET r == request[m]
  IN  /\ r.src = NULL => wanted[m] = NULL
      /\ r.src # NULL => r.src \in Buffer /\ r.dst \in Buffer /\ r.command \in AesCommand
      /\ r.src # NULL /\ result[m] = "busy" /\ m # aes.from => Asked(m, Data(line[m][r.src]))
      /\ result[m] = "ok" /\ wanted[m] # NULL =>
           Data(line[m][r.dst]) = wanted[m].data /\ iv[m] = wanted[m].next
(* While the thread has one, the output is not in the cache; until the     *)
(* engine is done the input is in memory, and then so is the output.       *)
Working ==
  LET m == aes.from
      r == request[m]
  IN aes.from # NULL =>
       /\ line[m][r.dst].cache = NULL
       /\ r.command = "decrypt" => wanted[m].next = aes.saved
       /\ r.command = "encrypt" => wanted[m].next = <<"last", wanted[m].data>>
       /\ r.command = "copy" => wanted[m].next = iv[m]
       /\ aesCmd.execute => /\ aesCmd.key = r.secret /\ aesCmd.iv = iv[m]
                            /\ Data(line[m][r.src]) = line[m][r.src].mem
                            /\ Asked(m, line[m][r.src].mem)
       /\ ~ aesCmd.execute /\ ~ aesCmd.failed => line[m][r.dst].mem = wanted[m].data
IsLine(l) == l = [mem |-> l.mem, cache |-> l.cache, dirty |-> l.dirty]
LinesOK ==
  /\ DOMAIN line = Message /\ DOMAIN iv = Message /\ DOMAIN wanted = Message
  /\ \A m \in Message : DOMAIN line[m] = Buffer
  /\ \A m \in Message, b \in Buffer : IsLine(line[m][b])
AesPhase == aes.from = NULL => ~ aesCmd.execute /\ ~ aesEvent
AesEvents == aesEvent => ~ aesCmd.execute
Ciphers == LinesOK /\ AesPhase /\ AesEvents /\ (\A m \in Message : AesRequestOK(m)) /\ Working

LEMMA LineIs ==
  ASSUME NEW l, IsLine(l)
  PROVE  /\ Written(l) = [mem |-> Data(l), cache |-> l.cache, dirty |-> FALSE]
         /\ Dropped(l) = [mem |-> l.mem, cache |-> NULL, dirty |-> FALSE]
         /\ ReadIn(l) = [mem |-> l.mem, cache |-> Data(l), dirty |-> l.dirty]
<1> DEFINE mem == l.mem
           cache == l.cache
           dirty == l.dirty
<1>1. l = [mem |-> mem, cache |-> cache, dirty |-> dirty]
  BY DEF IsLine
<1> HIDE DEF mem, cache, dirty
<1>2. ASSUME NEW x, NEW y PROVE [l EXCEPT !.mem = x, !.dirty = y] = [mem |-> x, cache |-> cache, dirty |-> y]
  <2> DEFINE k == [l EXCEPT !.mem = x, !.dirty = y]
             R == [mem : {x, mem}, cache : {x, cache}, dirty : {y, dirty}]
  <2>1. k \in R /\ k.mem = x /\ k.dirty = y /\ k.cache = cache
    BY <1>1
  <2> HIDE DEF k
  <2>2. k = [mem |-> x, cache |-> cache, dirty |-> y]
    BY <2>1
  <2> QED  BY <2>2 DEF k
<1>3. ASSUME NEW x, NEW y PROVE [l EXCEPT !.cache = x, !.dirty = y] = [mem |-> mem, cache |-> x, dirty |-> y]
  <2> DEFINE k == [l EXCEPT !.cache = x, !.dirty = y]
             R == [mem : {x, mem}, cache : {x, cache}, dirty : {y, dirty}]
  <2>1. k \in R /\ k.cache = x /\ k.dirty = y /\ k.mem = mem
    BY <1>1
  <2> HIDE DEF k
  <2>2. k = [mem |-> mem, cache |-> x, dirty |-> y]
    BY <2>1
  <2> QED  BY <2>2 DEF k
<1>4. \A x : [l EXCEPT !.cache = x] = [mem |-> mem, cache |-> x, dirty |-> dirty]
  BY <1>1
<1> QED  BY <1>2, <1>3, <1>4 DEF Written, Dropped, ReadIn, mem, cache, dirty

LEMMA Cached ==
  ASSUME NEW l, IsLine(l)
  PROVE  /\ Data(Written(l)) = Data(l) /\ Written(l).mem = Data(l)
         /\ Data(ReadIn(l)) = Data(l)
         /\ Dropped(l).mem = l.mem /\ Dropped(l).cache = NULL
         /\ Data(Dropped(Written(l))) = Data(l) /\ Dropped(Written(l)).mem = Data(l)
         /\ Dropped(Written(l)).cache = NULL
         /\ IsLine(Written(l)) /\ IsLine(Dropped(l)) /\ IsLine(ReadIn(l)) /\ IsLine(Dropped(Written(l)))
<1>1. Dropped(Written(l)) = [mem |-> Data(l), cache |-> NULL, dirty |-> FALSE]
  <2> DEFINE k == Written(l)
  <2>1. k = [mem |-> Data(l), cache |-> l.cache, dirty |-> FALSE]
    BY LineIs
  <2>2. IsLine(k) /\ k.mem = Data(l)
    BY <2>1 DEF IsLine
  <2> HIDE DEF k
  <2>3. Dropped(k) = [mem |-> k.mem, cache |-> NULL, dirty |-> FALSE]
    BY <2>2, LineIs
  <2> QED  BY <2>2, <2>3 DEF k
<1>2. Written(l) = [mem |-> Data(l), cache |-> l.cache, dirty |-> FALSE]
  BY LineIs
<1>3. Dropped(l) = [mem |-> l.mem, cache |-> NULL, dirty |-> FALSE]
  BY LineIs
<1>4. ReadIn(l) = [mem |-> l.mem, cache |-> Data(l), dirty |-> l.dirty]
  BY LineIs
<1>5. Data(Written(l)) = Data(l)
  BY <1>2 DEF Data
<1>6. Data(ReadIn(l)) = Data(l)
  BY <1>4 DEF Data
<1>7. Data(Dropped(Written(l))) = Data(l)
  BY <1>1 DEF Data
<1> QED  BY <1>1, <1>2, <1>3, <1>4, <1>5, <1>6, <1>7 DEF IsLine

(* What is left alone is as it was.                                        *)
LEMMA SameRequest ==
  ASSUME NEW n \in Message, AesRequestOK(n), request'[n] = request[n], wanted'[n] = wanted[n],
         iv'[n] = iv[n], line'[n] = line[n],
         result'[n] = result[n] \/ request[n].src = NULL,
         n # aes'.from => n # aes.from \/ result[n] # "busy"
  PROVE  AesRequestOK(n)'
BY DEF AesRequestOK, Asked, Data

LEMMA SameWork ==
  ASSUME Working, UNCHANGED <<aes, aesCmd>>,
         aes.from # NULL => /\ request'[aes.from] = request[aes.from] /\ wanted'[aes.from] = wanted[aes.from]
                            /\ iv'[aes.from] = iv[aes.from] /\ line'[aes.from] = line[aes.from]
  PROVE  Working'
BY DEF Working, Asked, Data

LEMMA InHands ==
  ASSUME IInv, aes.from # NULL
  PROVE  /\ aes.from \in Message /\ result[aes.from] = "busy" /\ request[aes.from].src # NULL
         /\ aes.from \in ForAes /\ request[aes.from] # NoRequest
<1>1. aes.from \in Message /\ aes.from \in ForAes
  BY HasEnd DEF IInv, AesOK, AesTypes, AesHas
<1> QED  BY <1>1 DEF ForAes, IInv, Accounts, RequestOK

(* A step that touches nothing of the requests for the AES engine.         *)
LEMMA ElsewhereKeeps ==
  ASSUME IInv, Ciphers, UNCHANGED <<request, wanted, line, iv, aes, aesCmd, aesEvent>>,
         \A n \in Message : request[n].src # NULL => result'[n] = result[n]
  PROVE  Ciphers'
<1>1. LinesOK' /\ AesPhase' /\ AesEvents'
  BY DEF Ciphers, LinesOK, AesPhase, AesEvents
<1>2. \A n \in Message : AesRequestOK(n)'
  BY SameRequest DEF Ciphers
<1> QED  BY <1>1, <1>2, SameWork DEF Ciphers

LEMMA ShaResults ==
  ASSUME IInv, ShaThread \/ ShaRuns
  PROVE  \A n \in Message : request[n].src # NULL => result'[n] = result[n]
<1>1. ASSUME NEW m \in ForSha,
             \/ Answered(m) \/ UNCHANGED result \/ ResourceReply(m, "failed") \/ ResourceReply(m, "ok")
             \/ ReplyFailed(m)
      PROVE  \A n \in Message : request[n].src # NULL => result'[n] = result[n]
  BY <1>1 DEF ForSha, Answered, ResourceReply, ReplyFailed, IInv, Accounts, RequestTypes
<1>2. CASE ShaRuns
  BY <1>2 DEF ShaRuns
<1>3. ASSUME shaQueue # << >>, NEW s, ShaTakes(Head(shaQueue), s)
      PROVE  \A n \in Message : request[n].src # NULL => result'[n] = result[n]
  <2>1. sha.from = NULL
    BY <1>3 DEF ShaTakes, IInv, ShaOK, ShaTypes
  <2>2. Head(shaQueue) \in ForSha
    BY <1>3, <2>1, HasTake DEF IInv, ShaOK, ShaTypes, ShaHas
  <2> QED  BY <1>1, <1>3, <2>2 DEF ShaTakes, GoesOn
<1>4. CASE ShaEngineHandler
  <2>1. sha.at # "wait"
    BY <1>4 DEF ShaEngineHandler, Generate, Generated, Finalized
  <2>2. ShaTypes /\ sha.from # NULL /\ ~ WrongCount(request[sha.from])
    BY <2>1 DEF ShaTypes, IInv, ShaOK, ShaHas
  <2>3. sha.from \in ForSha
    BY <2>2, HasEnd DEF IInv, ShaOK, ShaTypes, ShaHas
  <2>4. Outcome
    BY <1>4, <2>2, GenerateOutcome, GeneratedOutcome, FinalizedOutcome DEF ShaEngineHandler
  <2> QED  BY <1>1, <2>3, <2>4 DEF Outcome, Quiet
<1> QED  BY <1>2, <1>3, <1>4 DEF ShaThread

LEMMA AesTakesCiphers ==
  ASSUME IInv, Ciphers, AesTakes, UNCHANGED wanted
  PROVE  Ciphers'
<1>0. PICK m, r, l : m = Head(aesQueue) /\ r = request[m] /\ l = line[m]
  OBVIOUS
<1> DEFINE k == WritesThenDrops(l, r)
<1>1. aes.from = NULL /\ aesQueue # << >> /\ aesQueue \in Seq(Message) /\ Has(aesQueue, NULL, ForAes)
  BY DEF AesTakes, IInv, AesOK, AesTypes, AesHas
<1>2. m \in Message /\ m \in ForAes /\ m # NULL
  BY <1>0, <1>1, HasTake, RequestsAssumption
<1>3. r.src # NULL /\ result[m] = "busy" /\ r.src \in Buffer /\ r.dst \in Buffer /\ r.command \in AesCommand
      /\ Asked(m, Data(l[r.src]))
  BY <1>0, <1>1, <1>2 DEF ForAes, Ciphers, AesRequestOK
<1>4. UNCHANGED <<request, result, iv, wanted, aesEvent>> /\ ~ aesEvent
  BY <1>1 DEF AesTakes, Ciphers, AesPhase
<1>5. /\ line' = [line EXCEPT ![m] = k]
      /\ aes'.from = m /\ aes'.saved = IF r.command = "decrypt" THEN <<"last", Data(l[r.src])>> ELSE aes.saved
      /\ aesCmd'.execute = TRUE /\ aesCmd'.key = r.secret /\ aesCmd'.iv = iv[m]
  BY <1>0 DEF AesTakes, AesStarts
<1>6. DOMAIN l = Buffer /\ \A b \in Buffer : IsLine(l[b])
  BY <1>0, <1>2 DEF Ciphers, LinesOK
<1>7. /\ DOMAIN k = Buffer
      /\ k[r.dst] = IF r.dst = r.src THEN Dropped(Written(l[r.src])) ELSE Dropped(l[r.dst])
      /\ r.src # r.dst => k[r.src] = Written(l[r.src])
      /\ \A b \in Buffer : b \notin {r.src, r.dst} => k[b] = l[b]
  BY <1>3, <1>6 DEF WritesThenDrops
<1>8. /\ k[r.dst].cache = NULL /\ k[r.src].mem = Data(l[r.src]) /\ Data(k[r.src]) = Data(l[r.src])
      /\ \A b \in Buffer : IsLine(k[b])
  <2>1. CASE r.src = r.dst
    BY <1>3, <1>6, <1>7, <2>1, Cached
  <2>2. CASE r.src # r.dst
    BY <1>3, <1>6, <1>7, <2>2, Cached
  <2> QED  BY <2>1, <2>2
<1>9. line'[m] = k /\ (\A n \in Message \ {m} : line'[n] = line[n]) /\ DOMAIN line' = Message
  BY <1>2, <1>5 DEF Ciphers, LinesOK
<1> HIDE DEF k
<1>10. LinesOK'
  BY <1>2, <1>4, <1>7, <1>8, <1>9 DEF Ciphers, LinesOK
<1>11. AesPhase' /\ AesEvents'
  BY <1>2, <1>4, <1>5 DEF AesPhase, AesEvents
<1>12. \A n \in Message : AesRequestOK(n)'
  <2>1. AesRequestOK(m)'
    BY <1>0, <1>2, <1>3, <1>4, <1>5 DEF AesRequestOK, Ciphers
  <2>2. ASSUME NEW n \in Message \ {m} PROVE AesRequestOK(n)'
    BY <1>1, <1>4, <1>9, SameRequest, RequestsAssumption DEF Ciphers
  <2> QED  BY <2>1, <2>2
<1>13. Working'
  <2>1. request'[m] = r /\ wanted'[m] = wanted[m] /\ iv'[m] = iv[m]
    BY <1>0, <1>4
  <2>2. Asked(m, Data(l[r.src]))'
    BY <1>0, <1>3, <1>4, <1>8 DEF Asked, Data
  <2>3. /\ r.command = "decrypt" => wanted[m].next = <<"last", Data(l[r.src])>>
        /\ r.command = "encrypt" => wanted[m].next = <<"last", wanted[m].data>>
        /\ r.command = "copy" => wanted[m].next = iv[m]
    BY <1>0, <1>3 DEF Asked, NextVector
  <2>4. line'[m] = k /\ k[r.dst].cache = NULL /\ k[r.src].mem = Data(l[r.src])
        /\ Data(k[r.src]) = k[r.src].mem
    BY <1>8, <1>9
  <2>5. /\ line'[m][r.dst].cache = NULL
        /\ r.command = "decrypt" => wanted'[m].next = aes'.saved
        /\ r.command = "encrypt" => wanted'[m].next = <<"last", wanted'[m].data>>
        /\ r.command = "copy" => wanted'[m].next = iv'[m]
    BY <1>5, <2>1, <2>3, <2>4
  <2>6. /\ aesCmd'.key = r.secret /\ aesCmd'.iv = iv'[m]
        /\ Data(line[m][r.src])' = line'[m][r.src].mem
    BY <1>5, <2>1, <2>4 DEF Data
  <2>7. Asked(m, line[m][r.src].mem)'
    <3>1. line'[m][r.src].mem = Data(l[r.src])
      BY <2>4
    <3> QED  BY <2>2, <3>1 DEF Asked, Data
  <2>8. m = aes'.from /\ r = request'[m] /\ aesCmd'.execute
    BY <1>5, <2>1
  <2> QED  BY <2>5, <2>6, <2>7, <2>8 DEF Working
<1> QED  BY <1>10, <1>11, <1>12, <1>13 DEF Ciphers

LEMMA AesDoneCiphers ==
  ASSUME IInv, Ciphers, AesDone, UNCHANGED wanted
  PROVE  Ciphers'
<1>0. PICK m, r, l : m = aes.from /\ r = request[m] /\ l = line[m]
  OBVIOUS
<1> DEFINE saved == IF r.command = "encrypt" THEN <<"last", Data(l[r.dst])>> ELSE aes.saved
<1>1. /\ m \in Message /\ m # NULL /\ result[m] = "busy" /\ r.src # NULL
      /\ r.src \in Buffer /\ r.dst \in Buffer /\ r.command \in AesCommand
  BY <1>0, InHands, RequestsAssumption DEF AesDone, Ciphers, AesRequestOK
<1>2. /\ aesEvent /\ ~ aesEvent' /\ UNCHANGED <<request, aesCmd>> /\ ~ aesCmd.execute
  BY <1>0 DEF AesDone, Ciphers, AesEvents
<1>3. aes'.from = NULL
  <2>1. aes = [from |-> aes.from, saved |-> aes.saved]
    BY <1>0 DEF IInv, AesOK, AesTypes
  <2> QED  BY <1>0, <2>1 DEF AesDone
<1>4. AesPhase' /\ AesEvents' /\ Working'
  BY <1>0, <1>2, <1>3 DEF AesPhase, AesEvents, Working
<1>5. CASE aesCmd.failed
  <2>1. result' = [result EXCEPT ![m] = "failed"] /\ UNCHANGED <<line, iv>>
    BY <1>0, <1>5 DEF AesDone, ReplyFailed, ResourceReply
  <2>2. result'[m] = "failed" /\ \A n \in Message \ {m} : result'[n] = result[n]
    BY <1>0, <1>1, <2>1 DEF IInv, Accounts, RequestTypes
  <2>3. LinesOK'
    BY <1>0, <2>1 DEF Ciphers, LinesOK
  <2>4. AesRequestOK(m)'
    BY <1>0, <1>1, <1>2, <2>2 DEF AesRequestOK, Ciphers
  <2>5. ASSUME NEW n \in Message \ {m} PROVE AesRequestOK(n)'
    BY <1>0, <1>2, <2>1, <2>2, SameRequest DEF Ciphers
  <2> QED  BY <1>0, <1>4, <2>3, <2>4, <2>5 DEF Ciphers
<1>6. CASE ~ aesCmd.failed
  <2>1. /\ result' = [result EXCEPT ![m] = "ok"]
        /\ iv' = IF r.command = "copy" THEN iv ELSE [iv EXCEPT ![m] = saved]
        /\ line' = IF r.command = "encrypt" THEN [line EXCEPT ![m][r.dst] = ReadIn(@)] ELSE line
    BY <1>0, <1>6 DEF AesDone, ResourceReply
  <2>2. result'[m] = "ok" /\ \A n \in Message \ {m} : result'[n] = result[n]
    BY <1>0, <1>1, <2>1 DEF IInv, Accounts, RequestTypes
  <2>3. /\ DOMAIN iv' = Message /\ iv'[m] = (IF r.command = "copy" THEN iv[m] ELSE saved)
        /\ \A n \in Message \ {m} : iv'[n] = iv[n]
    BY <1>0, <1>1, <2>1 DEF Ciphers, LinesOK
  <2>4. DOMAIN l = Buffer /\ DOMAIN line = Message
        /\ \A b \in Buffer : IsLine(l[b])
    BY <1>0, <1>1 DEF Ciphers, LinesOK
  <2>5. /\ DOMAIN line' = Message /\ DOMAIN line'[m] = Buffer
        /\ \A n \in Message \ {m} : line'[n] = line[n]
        /\ \A b \in Buffer \ {r.dst} : line'[m][b] = l[b]
        /\ line'[m][r.dst] = IF r.command = "encrypt" THEN ReadIn(l[r.dst]) ELSE l[r.dst]
    BY <1>0, <1>1, <2>1, <2>4
  <2>6. LinesOK'
    <3>1. ASSUME NEW b \in Buffer
          PROVE  IsLine(line'[m][b])
      <4>1. line'[m][b] \in {l[b], ReadIn(l[b])}
        BY <1>0, <1>1, <2>5
      <4> QED  BY <1>0, <2>4, <4>1, Cached
    <3> QED  BY <1>0, <2>3, <2>5, <3>1 DEF Ciphers, LinesOK
  <2>7. Data(line'[m][r.dst]) = wanted[m].data
    <3>1. Data(line'[m][r.dst]) = Data(l[r.dst])
      BY <1>0, <1>1, <2>4, <2>5, Cached
    <3>2. Data(l[r.dst]) = wanted[m].data
      BY <1>0, <1>1, <1>2, <1>6 DEF Ciphers, Working, Data
    <3> QED  BY <1>0, <3>1, <3>2
  <2>8. iv'[m] = wanted[m].next
    <3>1. Data(l[r.dst]) = wanted[m].data
      BY <1>0, <1>1, <1>2, <1>6 DEF Ciphers, Working, Data
    <3> QED  BY <1>0, <1>1, <2>3, <3>1 DEF Ciphers, Working, AesCommand
  <2>9. AesRequestOK(m)'
    <3>1. request'[m] = r /\ wanted'[m] = wanted[m]
      BY <1>0, <1>2
    <3>2. Data(line'[m][r.dst]) = Data(line[m][r.dst])'
      BY <1>0, <1>2 DEF Data
    <3> QED  BY <1>0, <1>1, <2>2, <2>7, <2>8, <3>1, <3>2 DEF AesRequestOK
  <2>10. ASSUME NEW n \in Message \ {m} PROVE AesRequestOK(n)'
    BY <1>0, <1>2, <2>2, <2>3, <2>5, SameRequest DEF Ciphers
  <2> QED  BY <1>0, <1>4, <2>6, <2>9, <2>10 DEF Ciphers
<1> QED  BY <1>0, <1>5, <1>6

LEMMA AesRunsCiphers ==
  ASSUME IInv, Ciphers, AesRuns, UNCHANGED wanted
  PROVE  Ciphers'
<1>0. PICK m, r, l : m = aes.from /\ r = request[m] /\ l = line[m]
  OBVIOUS
<1> DEFINE output == Cipher(r.command, aesCmd.key, aesCmd.iv, l[r.src].mem)
<1>1. aesCmd.execute /\ m # NULL
  BY <1>0 DEF AesRuns, Ciphers, AesPhase
<1>2. /\ m \in Message /\ result[m] = "busy" /\ r.src # NULL
      /\ r.src \in Buffer /\ r.dst \in Buffer /\ r.command \in AesCommand
  BY <1>0, <1>1, InHands DEF Ciphers, AesRequestOK
<1>3. PICK failed \in BOOLEAN :
        /\ line' = [line EXCEPT ![m][r.dst].mem = IF failed THEN <<"half">> ELSE output]
        /\ aesCmd' = [aesCmd EXCEPT !.execute = FALSE, !.failed = failed]
  BY <1>0 DEF AesRuns
<1>4. /\ UNCHANGED <<request, result, iv, aes, wanted>>
  BY <1>0 DEF AesRuns
<1>5. aesCmd' = [execute |-> FALSE, irq |-> aesCmd.irq, failed |-> failed, key |-> aesCmd.key, iv |-> aesCmd.iv]
  BY <1>0, <1>3 DEF IInv, AesOK, AesTypes
<1>6. aesCmd'.execute = FALSE /\ aesCmd'.failed = failed
  BY <1>0, <1>5
<1>7. DOMAIN l = Buffer /\ DOMAIN line = Message
      /\ \A b \in Buffer : IsLine(l[b])
  BY <1>0, <1>2 DEF Ciphers, LinesOK
<1>8. /\ DOMAIN line' = Message /\ DOMAIN line'[m] = Buffer
      /\ \A n \in Message \ {m} : line'[n] = line[n]
      /\ \A b \in Buffer \ {r.dst} : line'[m][b] = l[b]
      /\ line'[m][r.dst] = [l[r.dst] EXCEPT !.mem = IF failed THEN <<"half">> ELSE output]
  BY <1>0, <1>2, <1>3, <1>7
<1>9. line'[m][r.dst] = [ mem |-> IF failed THEN <<"half">> ELSE output, cache |-> l[r.dst].cache,
                          dirty |-> l[r.dst].dirty ]
  BY <1>0, <1>2, <1>7, <1>8, ZenonT(60) DEF IsLine
<1>10. /\ line'[m][r.dst].mem = (IF failed THEN <<"half">> ELSE output)
       /\ line'[m][r.dst].cache = l[r.dst].cache
       /\ IsLine(line'[m][r.dst])
  BY <1>0, <1>9 DEF IsLine
<1>11. LinesOK'
  <2>1. ASSUME NEW b \in Buffer
        PROVE  IsLine(line'[m][b])
    BY <1>0, <1>7, <1>8, <1>10
  <2> QED  BY <1>0, <1>4, <1>8, <2>1, SMTT(40) DEF Ciphers, LinesOK
<1>12. AesPhase' /\ AesEvents'
  BY <1>0, <1>1, <1>4, <1>6 DEF AesPhase, AesEvents
<1>13. \A n \in Message : AesRequestOK(n)'
  <2>1. AesRequestOK(m)'
    BY <1>0, <1>2, <1>4 DEF AesRequestOK, Ciphers
  <2>2. ASSUME NEW n \in Message \ {m} PROVE AesRequestOK(n)'
    BY <1>0, <1>4, <1>8, SameRequest DEF Ciphers
  <2> QED  BY <1>0, <2>1, <2>2
<1>14. output = wanted[m].data
  BY <1>0, <1>1 DEF Ciphers, Working, Asked
<1>15. Working'
  <2>1. /\ l[r.dst].cache = NULL
        /\ r.command = "decrypt" => wanted[m].next = aes.saved
        /\ r.command = "encrypt" => wanted[m].next = <<"last", wanted[m].data>>
        /\ r.command = "copy" => wanted[m].next = iv[m]
    BY <1>0, <1>1 DEF Ciphers, Working
  <2> QED  BY <1>0, <1>4, <1>6, <1>10, <1>14, <2>1 DEF Working
<1> QED  BY <1>0, <1>11, <1>12, <1>13, <1>15 DEF Ciphers

LEMMA CacheCiphers ==
  ASSUME IInv, Ciphers, Cache
  PROVE  Ciphers'
<1>1. PICK m \in Message, b \in Buffer :
        result[m] = "busy" /\ request[m].src # NULL /\ Evicts(m, b) /\ UNCHANGED <<shaVars, callVars>>
  BY DEF Cache
<1>11. PICK r, l : r = request[m] /\ l = line[m]
  OBVIOUS
<1>2. UNCHANGED <<request, result, iv, aes, aesCmd, aesEvent, wanted>> /\ l[b].cache # NULL
      /\ line' = [line EXCEPT ![m][b] = Dropped(Written(@))]
  BY <1>1, <1>11 DEF Evicts, callVars
<1>3. DOMAIN l = Buffer /\ DOMAIN line = Message
      /\ \A c \in Buffer : IsLine(l[c])
  BY <1>1, <1>11 DEF Ciphers, LinesOK
<1>4. /\ DOMAIN line' = Message /\ DOMAIN line'[m] = Buffer
      /\ \A n \in Message \ {m} : line'[n] = line[n]
      /\ \A c \in Buffer \ {b} : line'[m][c] = l[c]
      /\ line'[m][b] = Dropped(Written(l[b]))
  BY <1>1, <1>2, <1>3, <1>11
<1>5. /\ Data(line'[m][b]) = Data(l[b]) /\ line'[m][b].mem = Data(l[b]) /\ line'[m][b].cache = NULL
      /\ IsLine(line'[m][b])
  BY <1>3, <1>4, Cached, <1>11
<1>6. LinesOK'
  <2>1. ASSUME NEW c \in Buffer
        PROVE  IsLine(line'[m][c])
    BY <1>3, <1>4, <1>5, <1>11
  <2> QED  BY <1>2, <1>4, <2>1, <1>11 DEF Ciphers, LinesOK
<1>7. AesPhase' /\ AesEvents'
  BY <1>2, <1>11 DEF Ciphers, AesPhase, AesEvents
<1>8. \A c \in Buffer : Data(line[m][c])' = Data(l[c])
  <2>1. \A c \in Buffer : Data(line[m][c])' = Data(line'[m][c])
    BY <1>11 DEF Data
  <2> QED  BY <1>4, <1>5, <2>1, <1>11
<1>9. \A n \in Message : AesRequestOK(n)'
  <2>1. AesRequestOK(m)'
    <3>1. AesRequestOK(m) /\ UNCHANGED <<request, result, iv, wanted, aes>>
      BY <1>2, <1>11 DEF Ciphers
    <3>2. r.src \in Buffer /\ r.dst \in Buffer
      BY <1>1, <3>1, <1>11 DEF AesRequestOK
    <3>3. Data(line[m][r.src])' = Data(line[m][r.src]) /\ UNCHANGED r
      BY <1>8, <3>1, <3>2, <1>11
    <3>4. result[m] = "busy"
      BY <1>1, <1>11
    <3>5. Asked(m, Data(line[m][r.src])) => Asked(m, Data(line[m][r.src]))'
      BY <3>1, <3>3, <1>11 DEF Asked
    <3> QED  BY <3>1, <3>3, <3>4, <3>5, <1>11 DEF AesRequestOK
  <2>2. ASSUME NEW n \in Message \ {m} PROVE AesRequestOK(n)'
    BY <1>2, <1>4, SameRequest, <1>11 DEF Ciphers
  <2> QED  BY <2>1, <2>2, <1>11
<1>10. Working'
  <2>1. CASE aes.from # m
    BY <1>2, <1>4, <2>1, InHands, SameWork, <1>11 DEF Ciphers
  <2>2. CASE aes.from = m
    <3>1. m # NULL /\ r.src \in Buffer /\ r.dst \in Buffer
      BY <1>1, RequestsAssumption, <1>11 DEF Ciphers, AesRequestOK
    <3>2. l[r.dst].cache = NULL /\ r.dst # b
      BY <1>2, <2>2, <3>1, <1>11 DEF Ciphers, Working
    <3>3. line'[m][r.dst] = l[r.dst]
      BY <1>4, <3>1, <3>2, <1>11
    <3>4. ASSUME aesCmd.execute
          PROVE  line'[m][r.src].mem = l[r.src].mem /\ Data(line[m][r.src])' = l[r.src].mem
      <4>1. Data(l[r.src]) = l[r.src].mem
        BY <2>2, <3>1, <3>4, <1>11 DEF Ciphers, Working
      <4> QED  BY <1>4, <1>5, <1>8, <3>1, <4>1, <1>11
    <3> QED  BY <1>2, <2>2, <3>1, <3>2, <3>3, <3>4, <1>11 DEF Ciphers, Working, Asked
  <2> QED  BY <2>1, <2>2, <1>11
<1> QED  BY <1>6, <1>7, <1>9, <1>10, <1>11 DEF Ciphers

LEMMA ShaCallCiphers ==
  ASSUME IInv, Ciphers, NEW m \in Message, request[m] = NoRequest,
         NEW r, r.src = NULL, request' = [request EXCEPT ![m] = r], result' = [result EXCEPT ![m] = "busy"],
         UNCHANGED <<wanted, line, iv, aes, aesCmd, aesEvent>>
  PROVE  Ciphers'
<1>1. /\ request'[m] = r /\ result'[m] = "busy"
      /\ \A n \in Message \ {m} : request'[n] = request[n] /\ result'[n] = result[n]
  BY DEF IInv, Accounts, RequestTypes
<1>2. LinesOK' /\ AesPhase' /\ AesEvents'
  BY DEF Ciphers, LinesOK, AesPhase, AesEvents
<1>3. AesRequestOK(m)'
  <2>1. wanted[m] = NULL
    <3>1. request[m].src = NULL
      BY DEF NoRequest
    <3> QED  BY <3>1 DEF Ciphers, AesRequestOK
  <2> QED  BY <1>1, <2>1 DEF AesRequestOK
<1>4. ASSUME NEW n \in Message \ {m} PROVE AesRequestOK(n)'
  BY <1>1, SameRequest DEF Ciphers
<1>5. Working'
  BY <1>1, InHands, SameWork DEF Ciphers
<1> QED  BY <1>2, <1>3, <1>4, <1>5 DEF Ciphers

LEMMA AesCallCiphers ==
  ASSUME IInv, Ciphers, NEW m \in Message, request[m] = NoRequest,
         NEW r, r.src = "a", r.dst \in Buffer, r.command \in AesCommand,
         request' = [request EXCEPT ![m] = r], result' = [result EXCEPT ![m] = "busy"],
         NEW output, output = Cipher(r.command, r.secret, iv[m], Data(line[m]["a"])),
         wanted' = [wanted EXCEPT ![m] =
                      [data |-> output,
                       next |-> NextVector(r.command, iv[m], Data(line[m]["a"]), output)]],
         UNCHANGED <<line, iv, aes, aesCmd, aesEvent>>
  PROVE  Ciphers'
<1>1. /\ request'[m] = r /\ result'[m] = "busy"
      /\ \A n \in Message \ {m} : request'[n] = request[n] /\ result'[n] = result[n]
  BY DEF IInv, Accounts, RequestTypes
<1>2. /\ DOMAIN wanted' = Message /\ \A n \in Message \ {m} : wanted'[n] = wanted[n]
      /\ wanted'[m].data = output
      /\ wanted'[m].next = NextVector(r.command, iv[m], Data(line[m]["a"]), output)
  BY DEF Ciphers, LinesOK
<1>3. LinesOK' /\ AesPhase' /\ AesEvents'
  BY <1>2 DEF Ciphers, LinesOK, AesPhase, AesEvents
<1>4. AesRequestOK(m)'
  <2>1. "a" # NULL /\ "a" \in Buffer
    BY BufferAssumption DEF Buffer
  <2>2. Asked(m, Data(line[m]["a"]))'
    BY <1>1, <1>2 DEF Asked, Data
  <2> QED  BY <1>1, <2>1, <2>2 DEF AesRequestOK
<1>5. ASSUME NEW n \in Message \ {m} PROVE AesRequestOK(n)'
  BY <1>1, <1>2, SameRequest DEF Ciphers
<1>6. Working'
  BY <1>1, <1>2, InHands, SameWork DEF Ciphers
<1> QED  BY <1>3, <1>4, <1>5, <1>6 DEF Ciphers

LEMMA ReturnsCiphers ==
  ASSUME IInv, Ciphers, NEW m \in Message, Returns(m)
  PROVE  Ciphers'
<1>1. /\ request'[m] = NoRequest /\ result'[m] = "none" /\ wanted'[m] = NULL /\ DOMAIN wanted' = Message
      /\ \A n \in Message \ {m} : /\ request'[n] = request[n] /\ result'[n] = result[n]
                                  /\ wanted'[n] = wanted[n]
      /\ UNCHANGED <<line, iv, aes, aesCmd, aesEvent>> /\ result[m] # "busy"
  BY DEF IInv, Accounts, RequestTypes, Ciphers, LinesOK, Returns, aesVars
<1>2. LinesOK' /\ AesPhase' /\ AesEvents'
  BY <1>1 DEF Ciphers, LinesOK, AesPhase, AesEvents
<1>3. AesRequestOK(m)'
  BY <1>1 DEF AesRequestOK, NoRequest
<1>4. ASSUME NEW n \in Message \ {m} PROVE AesRequestOK(n)'
  BY <1>1, SameRequest DEF Ciphers
<1>5. Working'
  BY <1>1, InHands, SameWork DEF Ciphers
<1> QED  BY <1>2, <1>3, <1>4, <1>5 DEF Ciphers

LEMMA CallingCiphers ==
  ASSUME IInv, Ciphers, Calling
  PROVE  Ciphers'
<1>1. ASSUME NEW m \in Message, NEW h, NEW kind, NEW command, NEW custom, NEW input,
             GenerateBlockMAC(m, h, kind, command, custom, input)
      PROVE  Ciphers'
  <2>1. PICK r : request[m] = NoRequest /\ r.src = NULL /\ Submits(m, r)
                 /\ UNCHANGED <<wanted, line, iv, aes, aesCmd, aesEvent>>
    BY <1>1 DEF GenerateBlockMAC, Free, UNCHANGEDByCall, NoRequest
  <2> QED  BY <2>1, ShaCallCiphers DEF Submits
<1>2. ASSUME NEW m \in Message, NEW command, NEW input, Hash(m, command, input)
      PROVE  Ciphers'
  <2>1. PICK r : request[m] = NoRequest /\ r.src = NULL /\ Submits(m, r)
                 /\ UNCHANGED <<wanted, line, iv, aes, aesCmd, aesEvent>>
    BY <1>2 DEF Hash, Free, UNCHANGEDByCall, NoRequest
  <2> QED  BY <2>1, ShaCallCiphers DEF Submits
<1>3. ASSUME NEW m \in Message, NEW n, NEW tampered, Verify(m, n, tampered)
      PROVE  Ciphers'
  <2>1. PICK claims :
          /\ request[m] = NoRequest /\ Submits(m, [NoRequest EXCEPT !.kind = "verify", !.claims = claims])
          /\ UNCHANGED <<wanted, line, iv, aes, aesCmd, aesEvent>>
    BY <1>3 DEF Verify, Free, UNCHANGEDByCall
  <2>2. [NoRequest EXCEPT !.kind = "verify", !.claims = claims].src = NULL
    BY DEF NoRequest
  <2> QED  BY <2>1, <2>2, ShaCallCiphers DEF Submits
<1>4. ASSUME NEW m \in Message, NEW h, NEW command \in {"encrypt", "decrypt"}, NEW dst \in Buffer,
             Crypt(m, h, command, dst)
      PROVE  Ciphers'
  <2> DEFINE r == [NoRequest EXCEPT !.kind = "aes", !.command = command, !.secret = Secret(h),
                                    !.src = "a", !.dst = dst]
             output == Cipher(command, Secret(h), iv[m], Data(line[m]["a"]))
  <2>1. r.src = "a" /\ r.dst = dst /\ r.command = command /\ r.secret = Secret(h) /\ command \in AesCommand
    BY DEF NoRequest, AesCommand
  <2>2. /\ request[m] = NoRequest /\ Submits(m, r)
        /\ wanted' = [wanted EXCEPT ![m] =
                        [data |-> output, next |-> NextVector(command, iv[m], Data(line[m]["a"]), output)]]
        /\ UNCHANGED <<line, iv, aes, aesCmd, aesEvent>>
    BY <1>4 DEF Crypt, Free, UNCHANGEDByCall
  <2> HIDE DEF r
  <2> QED  BY <2>1, <2>2, AesCallCiphers DEF Submits
<1>5. ASSUME NEW m \in Message, Copy(m)
      PROVE  Ciphers'
  <2> DEFINE r == [NoRequest EXCEPT !.kind = "aes", !.command = "copy", !.src = "a", !.dst = "b"]
             input == Data(line[m]["a"])
             output == Cipher("copy", r.secret, iv[m], input)
  <2>1. r.src = "a" /\ r.dst \in Buffer /\ r.command = "copy" /\ "copy" \in AesCommand
    BY DEF NoRequest, AesCommand, Buffer
  <2>2. output = input /\ NextVector("copy", iv[m], input, output) = iv[m]
    BY DEF Cipher, NextVector
  <2>3. /\ request[m] = NoRequest /\ Submits(m, r)
        /\ wanted' = [wanted EXCEPT ![m] = [data |-> input, next |-> iv[m]]]
        /\ UNCHANGED <<line, iv, aes, aesCmd, aesEvent>>
    BY <1>5 DEF Copy, Free, UNCHANGEDByCall
  <2> HIDE DEF r, output
  <2>4. wanted' = [wanted EXCEPT ![m] =
                      [data |-> output, next |-> NextVector(r.command, iv[m], input, output)]]
    BY <2>1, <2>2, <2>3
  <2>5. output = Cipher(r.command, r.secret, iv[m], input)
    BY <2>1 DEF output
  <2> QED  BY <2>1, <2>3, <2>4, <2>5, AesCallCiphers, ZenonT(60) DEF Submits
<1> QED  BY <1>1, <1>2, <1>3, <1>4, <1>5, ReturnsCiphers DEF Calling

LEMMA CiphersInit == Init => Ciphers
<1> SUFFICES ASSUME Init PROVE Ciphers
  OBVIOUS
<1> USE DEF Init, RequestsInit, AesInit
<1>1. LinesOK
  BY DEF LinesOK, IsLine, Blank
<1>2. AesPhase /\ AesEvents /\ Working
  BY DEF AesPhase, AesEvents, Working
<1>3. \A m \in Message : AesRequestOK(m)
  <2>1. NoRequest.src = NULL
    BY DEF NoRequest
  <2> QED  BY <2>1 DEF AesRequestOK
<1> QED  BY <1>1, <1>2, <1>3 DEF Ciphers

LEMMA CiphersStep == IInv /\ Ciphers /\ [Next]_vars => Ciphers'
<1> SUFFICES ASSUME IInv, Ciphers, [Next]_vars PROVE Ciphers'
  OBVIOUS
<1>1. CASE UNCHANGED vars
  BY <1>1, ElsewhereKeeps DEF vars, requestVars, aesVars, callVars
<1>2. CASE Calling  BY <1>2, CallingCiphers
<1>3. CASE Keys
  BY <1>3, ElsewhereKeeps DEF Keys, Delete, Create, requestVars, aesVars
<1>4. CASE ShaThread \/ (ShaRuns /\ UNCHANGED <<aesVars, callVars>>)
  <2>1. UNCHANGED <<request, wanted, line, iv, aes, aesCmd, aesEvent>>
    BY <1>4 DEF ShaThread, ShaEngineHandler, Generate, Generated, Finalized, ShaTakes, ShaRuns, aesVars, callVars
  <2> QED  BY <1>4, <2>1, ShaResults, ElsewhereKeeps
<1>5. CASE AesThread  BY <1>5, AesTakesCiphers, AesDoneCiphers DEF AesThread, AesEngineHandler, callVars
<1>6. CASE AesRuns /\ UNCHANGED <<shaVars, callVars>>  BY <1>6, AesRunsCiphers DEF callVars
<1>7. CASE Cache  BY <1>7, CacheCiphers
<1> QED  BY <1>1, <1>2, <1>3, <1>4, <1>5, <1>6, <1>7 DEF Next, Engines

(* Whatever lines the data cache drops meanwhile, whoever else uses the    *)
(* engine and however often it fails, an AES request that is answered left *)
(* what its caller asked for where the caller sees it, and its vector.     *)
THEOREM CiphersAreRight == Spec => []CipherIsRight
<1>1. Init => IInv /\ Ciphers
  BY IInvInit, CiphersInit
<1>2. (IInv /\ Ciphers) /\ [Next]_vars => (IInv /\ Ciphers)'
  BY IInvStep, CiphersStep
<1>3. IInv /\ Ciphers => CipherIsRight
  BY DEF Ciphers, AesRequestOK, CipherIsRight
<1> QED  BY <1>1, <1>2, <1>3, PTL DEF Spec

-----------------------------------------------------------------------------
(* Hashes and MACs.  The invariant, Digests, says what the engine's         *)
(* registers, the context and the calls still to be made come to together:  *)
(* the padded message that the caller expects to be hashed.  First what is  *)
(* needed of sequences and blocks, then the invariant, then one lemma for   *)
(* each piece of the thread's work and for each call of a program.          *)

(* A sequence of any things; data of programs, which no code of its own     *)
(* meaning is mistaken for.                                                 *)
Sequence(s) == s \in Seq(Elements(s))
Plain(s) == Sequence(s) /\ <<"final">> \notin Elements(s)
Full(s) == Len(s) % Block = 0

(* Lengths and blocks.                                                      *)
LEMMA BlockSize == /\ Block \in Nat /\ Block > 1
                   /\ LengthSize \in 1 .. Block - 1 /\ MaxBlocks \in Nat /\ MaxBlocks > 0
<1>1. Block \in Nat /\ LengthSize \in 1 .. Block - 1 /\ MaxBlocks \in Nat \ {0}  BY ShaAssumption
<1> QED  BY <1>1

LEMMA Quotient ==
  ASSUME NEW n \in Nat
  PROVE  /\ n \div Block \in Nat /\ n % Block \in 0 .. Block - 1
         /\ n = (n \div Block) * Block + (n % Block)
BY BlockSize

LEMMA OneQuotient ==
  ASSUME NEW q \in Int, NEW r \in 0 .. Block - 1, NEW s \in Int, NEW t \in 0 .. Block - 1,
         q * Block + r = s * Block + t
  PROVE  q = s /\ r = t
<1> USE BlockSize
<1>1. (q - s) * Block = t - r  OBVIOUS
<1>2. CASE q > s
  <2>1. (q - s) * Block >= Block  BY <1>2
  <2> QED  BY <1>1, <2>1
<1>3. CASE q < s
  <2>1. (s - q) * Block >= Block  BY <1>3
  <2>2. (s - q) * Block = r - t  OBVIOUS
  <2> QED  BY <2>1, <2>2
<1> QED  BY <1>1, <1>2, <1>3

LEMMA QuotientIs ==
  ASSUME NEW q \in Nat, NEW r \in 0 .. Block - 1
  PROVE  /\ q * Block + r \in Nat
         /\ (q * Block + r) \div Block = q /\ (q * Block + r) % Block = r
<1> DEFINE n == q * Block + r
<1>1. n \in Nat
  <2>1. q * Block \in Nat  BY BlockSize
  <2> QED  BY <2>1, BlockSize
<1>2. n \div Block \in Nat /\ n % Block \in 0 .. Block - 1 /\ n = (n \div Block) * Block + (n % Block)
  <2> HIDE DEF n
  <2> QED  BY <1>1, Quotient
<1>3. n = q * Block + r  OBVIOUS
<1> HIDE DEF n
<1>4. n \div Block = q /\ n % Block = r
  <2> DEFINE s == n \div Block
             t == n % Block
  <2>1. s \in Nat /\ t \in 0 .. Block - 1 /\ q * Block + r = s * Block + t  BY <1>2, <1>3
  <2> HIDE DEF s, t
  <2>2. q = s /\ r = t  BY <2>1, OneQuotient
  <2> QED  BY <2>2 DEF s, t
<1> QED  BY <1>1, <1>4 DEF n

LEMMA FullSum ==
  ASSUME NEW a \in Nat, NEW b \in Nat, a % Block = 0
  PROVE  /\ a = (a \div Block) * Block
         /\ (a + b) \div Block = (a \div Block) + (b \div Block)
         /\ (a + b) % Block = b % Block
<1>1. a \div Block \in Nat /\ a = (a \div Block) * Block  BY Quotient, BlockSize
<1>2. /\ b \div Block \in Nat /\ b % Block \in 0 .. Block - 1
      /\ b = (b \div Block) * Block + (b % Block)
  BY Quotient
<1> DEFINE p == a \div Block
           q == b \div Block
           r == b % Block
<1>3. p \in Nat /\ q \in Nat /\ r \in 0 .. Block - 1 /\ a = p * Block /\ b = q * Block + r
  BY <1>1, <1>2
<1>4. SUFFICES (a + b) \div Block = p + q /\ (a + b) % Block = r
  BY <1>1
<1> HIDE DEF p, q, r
<1>5. a + b = (p + q) * Block + r
  BY <1>3, BlockSize
<1>6. p + q \in Nat  BY <1>3
<1> QED  BY <1>3, <1>5, <1>6, QuotientIs

-----------------------------------------------------------------------------
(* Sequences of any things.                                                 *)
LEMMA IsSequence == ASSUME NEW S, NEW s \in Seq(S) PROVE Sequence(s)
<1>1. Len(s) \in Nat /\ DOMAIN s = 1 .. Len(s) /\ s \in [1 .. Len(s) -> S]  BY LenProperties
<1>2. s \in [1 .. Len(s) -> Elements(s)]  BY <1>1 DEF Elements
<1>3. Seq(Elements(s)) = UNION {[1 .. n -> Elements(s)] : n \in Nat}  BY SeqDef
<1> QED  BY <1>1, <1>2, <1>3 DEF Sequence

LEMMA SequenceFacts ==
  ASSUME NEW s, Sequence(s)
  PROVE  /\ Len(s) \in Nat /\ DOMAIN s = 1 .. Len(s)
         /\ Elements(s) = {s[i] : i \in 1 .. Len(s)}
         /\ s = [i \in 1 .. Len(s) |-> s[i]]
<1>1. s \in Seq(Elements(s))  BY DEF Sequence
<1>2. Len(s) \in Nat /\ DOMAIN s = 1 .. Len(s) /\ s \in [1 .. Len(s) -> Elements(s)]
  BY <1>1, LenProperties
<1>3. s = [i \in DOMAIN s |-> s[i]]  BY <1>2
<1> QED  BY <1>2, <1>3 DEF Elements

LEMMA Made ==
  ASSUME NEW n \in Nat, NEW s, s = [i \in 1 .. n |-> s[i]]
  PROVE  Sequence(s) /\ Len(s) = n
<1>1. DOMAIN s = 1 .. n  OBVIOUS
<1>2. s \in [1 .. n -> Elements(s)]  BY <1>1 DEF Elements
<1>3. Seq(Elements(s)) = UNION {[1 .. k -> Elements(s)] : k \in Nat}  BY SeqDef
<1>4. s \in Seq(Elements(s))  BY <1>2, <1>3
<1>5. Len(s) \in Nat /\ DOMAIN s = 1 .. Len(s)  BY <1>4, LenProperties
<1>6. Len(s) = n  BY <1>1, <1>5
<1> QED  BY <1>4, <1>6 DEF Sequence

LEMMA SameSequence ==
  ASSUME NEW s, NEW t, Sequence(s), Sequence(t), Len(s) = Len(t),
         \A i \in 1 .. Len(s) : s[i] = t[i]
  PROVE  s = t
<1>1. s = [i \in 1 .. Len(s) |-> s[i]] /\ t = [i \in 1 .. Len(t) |-> t[i]]  BY SequenceFacts
<1> QED  BY <1>1

LEMMA Both ==
  ASSUME NEW s, NEW t, Sequence(s), Sequence(t)
  PROVE  \E S : s \in Seq(S) /\ t \in Seq(S)
<1> DEFINE S == Elements(s) \cup Elements(t)
<1>1. s \in Seq(S)  BY SeqMonotonic DEF Sequence
<1>2. t \in Seq(S)  BY SeqMonotonic DEF Sequence
<1> QED  BY <1>1, <1>2

LEMMA Joined ==
  ASSUME NEW s, NEW t, Sequence(s), Sequence(t)
  PROVE  /\ Sequence(s \o t) /\ Len(s \o t) = Len(s) + Len(t)
         /\ \A i \in 1 .. Len(s) + Len(t) :
              (s \o t)[i] = IF i <= Len(s) THEN s[i] ELSE t[i - Len(s)]
<1>1. PICK S : s \in Seq(S) /\ t \in Seq(S)  BY Both
<1>2. s \o t \in Seq(S)  BY <1>1, ConcatProperties
<1> QED  BY <1>1, <1>2, ConcatProperties, IsSequence

LEMMA NoSequence == Sequence(<< >>) /\ Len(<< >>) = 0
<1>1. << >> \in Seq({}) /\ Len(<< >>) = 0  BY EmptySeq
<1> QED  BY <1>1, IsSequence

LEMMA EmptyIs == ASSUME NEW s, Sequence(s), Len(s) = 0 PROVE s = << >>
BY NoSequence, SameSequence

LEMMA JoinedEmpty == ASSUME NEW s, Sequence(s) PROVE << >> \o s = s /\ s \o << >> = s
<1>1. s \in Seq(Elements(s))  BY DEF Sequence
<1> QED  BY <1>1, ConcatEmptySeq

LEMMA Associated ==
  ASSUME NEW s, NEW t, NEW u, Sequence(s), Sequence(t), Sequence(u)
  PROVE  (s \o t) \o u = s \o (t \o u)
<1> DEFINE S == Elements(s) \cup Elements(t) \cup Elements(u)
<1>1. s \in Seq(S) /\ t \in Seq(S) /\ u \in Seq(S)  BY SeqMonotonic DEF Sequence
<1> HIDE DEF S
<1> QED  BY <1>1, ConcatAssociative

LEMMA One == ASSUME NEW x PROVE Sequence(<<x>>) /\ Len(<<x>>) = 1 /\ <<x>>[1] = x
<1>1. <<x>> \in Seq({x})  OBVIOUS
<1> QED  BY <1>1, IsSequence

(* A part of a sequence.                                                    *)
LEMMA PartOf ==
  ASSUME NEW s, Sequence(s), NEW m \in Nat, NEW n \in Nat, m >= 1, n <= Len(s)
  PROVE  /\ Sequence(SubSeq(s, m, n))
         /\ Len(SubSeq(s, m, n)) = IF m <= n THEN n - m + 1 ELSE 0
         /\ \A i \in 1 .. n - m + 1 : SubSeq(s, m, n)[i] = s[m + i - 1]
<1>1. Len(s) \in Nat /\ Elements(s) = {s[i] : i \in 1 .. Len(s)}  BY SequenceFacts
<1>2. \A i \in m .. n : s[i] \in Elements(s)  BY <1>1
<1>3. m \in Int /\ n \in Int  OBVIOUS
<1>4. SubSeq(s, m, n) \in Seq(Elements(s))  BY <1>2, <1>3, SubSeqProperties
<1>5. /\ Len(SubSeq(s, m, n)) = IF m <= n THEN n - m + 1 ELSE 0
      /\ \A i \in 1 .. n - m + 1 : SubSeq(s, m, n)[i] = s[m + i - 1]
  BY <1>2, <1>3, SubSeqProperties
<1> QED  BY <1>4, <1>5, IsSequence

-----------------------------------------------------------------------------
(* The blocks of a sequence, and of one that follows another.               *)
LEMMA BlocksFacts ==
  ASSUME NEW s, Sequence(s)
  PROVE  /\ Sequence(BlocksOf(s)) /\ Len(BlocksOf(s)) = Len(s) \div Block
         /\ Len(s) \div Block \in Nat
         /\ \A j \in 1 .. Len(s) \div Block :
              BlocksOf(s)[j] = SubSeq(s, (j - 1) * Block + 1, j * Block)
<1>1. Len(s) \in Nat  BY SequenceFacts
<1>2. Len(s) \div Block \in Nat  BY <1>1, Quotient
<1> DEFINE n == Len(s) \div Block
           b == BlocksOf(s)
<1>3. b = [j \in 1 .. n |-> SubSeq(s, (j - 1) * Block + 1, j * Block)]  BY DEF BlocksOf
<1>4. b = [j \in 1 .. n |-> b[j]]  BY <1>3
<1>5. Sequence(b) /\ Len(b) = n
  <2> HIDE DEF n, b
  <2> QED  BY <1>2, <1>4, Made DEF n
<1> QED  BY <1>2, <1>3, <1>5

LEMMA Inside ==
  ASSUME NEW n \in Nat, NEW j \in 1 .. n
  PROVE  /\ (j - 1) * Block \in Nat /\ j * Block \in Nat /\ n * Block \in Nat
         /\ j * Block = (j - 1) * Block + Block /\ j * Block <= n * Block
<1> USE BlockSize
<1>1. j \in Nat /\ j - 1 \in Nat /\ n - j \in Nat  OBVIOUS
<1>2. (j - 1) * Block \in Nat /\ j * Block \in Nat /\ n * Block \in Nat /\ (n - j) * Block \in Nat
  BY <1>1
<1>3. n * Block = (n - j) * Block + j * Block  BY <1>1
<1> QED  BY <1>1, <1>2, <1>3

LEMMA BlocksJoined ==
  ASSUME NEW s, NEW t, Sequence(s), Sequence(t), Full(s)
  PROVE  /\ BlocksOf(s \o t) = BlocksOf(s) \o BlocksOf(t)
         /\ Full(t) => Full(s \o t)
<1> DEFINE u == s \o t
           p == Len(s) \div Block
           q == Len(t) \div Block
<1>1. Len(s) \in Nat /\ Len(t) \in Nat  BY SequenceFacts
<1>2. /\ Sequence(u) /\ Len(u) = Len(s) + Len(t)
      /\ \A i \in 1 .. Len(s) + Len(t) : u[i] = IF i <= Len(s) THEN s[i] ELSE t[i - Len(s)]
  BY Joined
<1>3. /\ Len(s) = p * Block /\ Len(u) \div Block = p + q /\ Len(u) % Block = Len(t) % Block
      /\ p \in Nat /\ q \in Nat
  <2>1. Len(s) % Block = 0 /\ Len(u) = Len(s) + Len(t)  BY <1>2 DEF Full
  <2>2. p \in Nat /\ q \in Nat  BY <1>1, Quotient
  <2>3. /\ Len(s) = p * Block /\ (Len(s) + Len(t)) \div Block = p + q
        /\ (Len(s) + Len(t)) % Block = Len(t) % Block
    BY <1>1, <2>1, FullSum
  <2> HIDE DEF u, p, q
  <2> QED  BY <2>1, <2>2, <2>3
<1>4. Len(t) >= q * Block
  <2>1. Len(t) = q * Block + (Len(t) % Block) /\ Len(t) % Block \in 0 .. Block - 1
    BY <1>1, Quotient
  <2>2. q * Block \in Nat  BY <1>3, BlockSize
  <2> QED  BY <2>1, <2>2, BlockSize
<1>5. /\ Sequence(BlocksOf(s)) /\ Len(BlocksOf(s)) = p
      /\ \A j \in 1 .. p : BlocksOf(s)[j] = SubSeq(s, (j - 1) * Block + 1, j * Block)
  BY BlocksFacts
<1>6. /\ Sequence(BlocksOf(t)) /\ Len(BlocksOf(t)) = q
      /\ \A j \in 1 .. q : BlocksOf(t)[j] = SubSeq(t, (j - 1) * Block + 1, j * Block)
  BY BlocksFacts
<1>7. /\ Sequence(BlocksOf(u)) /\ Len(BlocksOf(u)) = p + q
      /\ \A j \in 1 .. p + q : BlocksOf(u)[j] = SubSeq(u, (j - 1) * Block + 1, j * Block)
  <2> HIDE DEF u
  <2> QED  BY <1>2, <1>3, BlocksFacts
<1>8. /\ Sequence(BlocksOf(s) \o BlocksOf(t)) /\ Len(BlocksOf(s) \o BlocksOf(t)) = p + q
      /\ \A j \in 1 .. p + q : (BlocksOf(s) \o BlocksOf(t))[j] =
           IF j <= p THEN BlocksOf(s)[j] ELSE BlocksOf(t)[j - p]
  <2> DEFINE v == BlocksOf(s)
             w == BlocksOf(t)
  <2>1. Sequence(v) /\ Sequence(w) /\ Len(v) = p /\ Len(w) = q  BY <1>5, <1>6
  <2> HIDE DEF v, w, p, q
  <2>2. /\ Sequence(v \o w) /\ Len(v \o w) = p + q
        /\ \A j \in 1 .. p + q : (v \o w)[j] = IF j <= p THEN v[j] ELSE w[j - p]
    BY <2>1, Joined
  <2> QED  BY <2>2 DEF v, w
<1> HIDE DEF u, p, q
<1>9. ASSUME NEW j \in 1 .. p + q
      PROVE  BlocksOf(u)[j] = (BlocksOf(s) \o BlocksOf(t))[j]
  <2> DEFINE m == (j - 1) * Block + 1
             n == j * Block
             a == SubSeq(u, m, n)
  <2>1. BlocksOf(u)[j] = a  BY <1>7
  <2>2. p + q \in Nat /\ (p + q) * Block = p * Block + q * Block  BY <1>3, BlockSize
  <2>3. /\ m \in Nat /\ m >= 1 /\ n \in Nat /\ n = m + Block - 1 /\ n <= (p + q) * Block
    BY <2>2, Inside, BlockSize
  <2>4. n <= Len(u)
    <3>1. p * Block \in Nat /\ q * Block \in Nat  BY <1>3, BlockSize
    <3> HIDE DEF n
    <3> QED  BY <1>1, <1>2, <1>3, <1>4, <2>2, <2>3, <3>1
  <2>5. /\ Sequence(a) /\ Len(a) = Block
        /\ \A i \in 1 .. Block : a[i] = u[m + i - 1]
    <3> HIDE DEF m, n
    <3>1. /\ Sequence(a) /\ Len(a) = IF m <= n THEN n - m + 1 ELSE 0
          /\ \A i \in 1 .. n - m + 1 : a[i] = u[m + i - 1]
      BY <1>2, <2>3, <2>4, PartOf
    <3>2. n - m + 1 = Block /\ m <= n  BY <2>3, BlockSize
    <3> QED  BY <3>1, <3>2
  <2>6. CASE j <= p
    <3> DEFINE b == SubSeq(s, m, n)
    <3>1. j \in 1 .. p  BY <1>3, <2>6
    <3>2. n <= Len(s)  BY <1>3, <3>1, Inside
    <3>3. /\ Sequence(b) /\ Len(b) = Block
          /\ \A i \in 1 .. Block : b[i] = s[m + i - 1]
      <4> HIDE DEF m, n
      <4>1. /\ Sequence(b) /\ Len(b) = IF m <= n THEN n - m + 1 ELSE 0
            /\ \A i \in 1 .. n - m + 1 : b[i] = s[m + i - 1]
        BY <2>3, <3>2, PartOf
      <4>2. n - m + 1 = Block /\ m <= n  BY <2>3, BlockSize
      <4> QED  BY <4>1, <4>2
    <3>4. \A i \in 1 .. Block : u[m + i - 1] = s[m + i - 1]
      <4> HIDE DEF m, n
      <4>1. \A i \in 1 .. Block : m + i - 1 \in 1 .. Len(s)  BY <1>1, <2>3, <3>2, BlockSize
      <4> QED  BY <1>1, <1>2, <4>1
    <3>5. a = b
      <4> HIDE DEF a, b
      <4> QED  BY <2>5, <3>3, <3>4, SameSequence
    <3>6. BlocksOf(s)[j] = b  BY <1>5, <3>1
    <3>7. (BlocksOf(s) \o BlocksOf(t))[j] = BlocksOf(s)[j]  BY <1>8, <2>6
    <3> HIDE DEF a, b
    <3> QED  BY <2>1, <3>5, <3>6, <3>7
  <2>7. CASE ~ (j <= p)
    <3> DEFINE k == j - p
               x == (k - 1) * Block + 1
               y == k * Block
               b == SubSeq(t, x, y)
    <3>1. k \in 1 .. q  BY <1>3, <2>7
    <3>2. x \in Nat /\ x >= 1 /\ y \in Nat /\ y = x + Block - 1 /\ y <= q * Block
      <4> HIDE DEF k
      <4> QED  BY <1>3, <3>1, Inside, BlockSize
    <3>3. y <= Len(t)
      <4>1. q * Block \in Nat  BY <1>3, BlockSize
      <4> HIDE DEF y
      <4> QED  BY <1>1, <1>4, <3>2, <4>1
    <3>4. /\ Sequence(b) /\ Len(b) = Block
          /\ \A i \in 1 .. Block : b[i] = t[x + i - 1]
      <4> HIDE DEF x, y
      <4>1. /\ Sequence(b) /\ Len(b) = IF x <= y THEN y - x + 1 ELSE 0
            /\ \A i \in 1 .. y - x + 1 : b[i] = t[x + i - 1]
        BY <3>2, <3>3, PartOf
      <4>2. y - x + 1 = Block /\ x <= y  BY <3>2, BlockSize
      <4> QED  BY <4>1, <4>2
    <3>5. m = Len(s) + x
      <4>1. (j - 1) * Block = p * Block + (k - 1) * Block  BY <1>3, BlockSize
      <4>2. p * Block \in Nat /\ (k - 1) * Block \in Nat  BY <1>3, <3>1, BlockSize
      <4>3. (j - 1) * Block + 1 = p * Block + ((k - 1) * Block + 1)  BY <4>1, <4>2
      <4> QED  BY <1>3, <4>3
    <3>6. \A i \in 1 .. Block : u[m + i - 1] = t[x + i - 1]
      <4> HIDE DEF m, n, x, y
      <4> TAKE i \in 1 .. Block
      <4> DEFINE z == m + i - 1
                 k2 == x + i - 1
      <4>1. z \in 1 .. Len(s) + Len(t) /\ ~ (z <= Len(s)) /\ z - Len(s) = k2
        BY <1>1, <3>2, <3>3, <3>5, BlockSize
      <4>2. u[z] = t[k2]
        <5> HIDE DEF z, k2
        <5> QED  BY <1>2, <4>1
      <4> QED  BY <4>2
    <3>7. a = b
      <4> HIDE DEF a, b, m, n, x, y
      <4> QED  BY <2>5, <3>4, <3>6, SameSequence
    <3>8. BlocksOf(t)[k] = b  BY <1>6, <3>1
    <3>9. (BlocksOf(s) \o BlocksOf(t))[j] = BlocksOf(t)[k]  BY <1>8, <2>7
    <3> HIDE DEF a, b
    <3> QED  BY <2>1, <3>7, <3>8, <3>9
  <2> QED  BY <2>6, <2>7
<1>10. BlocksOf(u) = BlocksOf(s) \o BlocksOf(t)
  <2> DEFINE v == BlocksOf(u)
             w == BlocksOf(s) \o BlocksOf(t)
  <2>1. /\ Sequence(v) /\ Sequence(w) /\ Len(v) = Len(w) /\ Len(v) = p + q
        /\ \A j \in 1 .. p + q : v[j] = w[j]
    BY <1>7, <1>8, <1>9
  <2> HIDE DEF v, w
  <2>2. v = w  BY <2>1, SameSequence
  <2> QED  BY <2>2 DEF v, w
<1>11. Full(t) => Full(u)  BY <1>3 DEF Full
<1> QED  BY <1>10, <1>11 DEF u

(* The blocks of some data and the rest.                                    *)
LEMMA WholeAndRest ==
  ASSUME NEW s, Sequence(s)
  PROVE  /\ Sequence(Whole(s)) /\ Full(Whole(s)) /\ Len(Whole(s)) = Len(s) - (Len(s) % Block)
         /\ Len(Whole(s)) \div Block = Len(s) \div Block
         /\ Sequence(Rest(s)) /\ Len(Rest(s)) = Len(s) % Block
         /\ Whole(s) \o Rest(s) = s /\ BlocksOf(Whole(s)) = BlocksOf(s)
         /\ Len(s) < Block => Rest(s) = s
<1> DEFINE n == Len(s)
           q == n \div Block
           r == n % Block
           w == Whole(s)
           x == Rest(s)
<1>1. n \in Nat /\ q \in Nat /\ r \in 0 .. Block - 1 /\ n = q * Block + r /\ q * Block \in Nat
  BY SequenceFacts, Quotient, BlockSize
<1>2. w = SubSeq(s, 1, n - r) /\ x = SubSeq(s, n - r + 1, n)  BY DEF Whole, Rest, Floored
<1> HIDE DEF n, q, r, w, x
<1>3. n = Len(s) /\ n - r \in Nat /\ n - r <= n /\ r <= n  BY <1>1, BlockSize DEF n
<1>4. /\ Sequence(w) /\ Len(w) = n - r
      /\ \A i \in 1 .. n - r : w[i] = s[i]
  <2>1. /\ Sequence(w) /\ Len(w) = IF 1 <= n - r THEN n - r - 1 + 1 ELSE 0
        /\ \A i \in 1 .. n - r - 1 + 1 : w[i] = s[1 + i - 1]
    BY <1>2, <1>3, PartOf
  <2>2. n - r - 1 + 1 = n - r /\ (~ (1 <= n - r) => n - r = 0)  BY <1>1, <1>3
  <2>3. \A i \in 1 .. n - r : 1 + i - 1 = i  BY <1>1, <1>3
  <2> QED  BY <2>1, <2>2, <2>3
<1>5. /\ Sequence(x) /\ Len(x) = r
      /\ \A i \in 1 .. r : x[i] = s[n - r + i]
  <2>0. n - r + 1 \in Nat /\ n - r + 1 >= 1 /\ n \in Nat /\ n <= Len(s)  BY <1>1, <1>3
  <2>1. /\ Sequence(x) /\ Len(x) = IF n - r + 1 <= n THEN n - (n - r + 1) + 1 ELSE 0
        /\ \A i \in 1 .. n - (n - r + 1) + 1 : x[i] = s[(n - r + 1) + i - 1]
    BY <1>2, <2>0, PartOf
  <2>2. n - (n - r + 1) + 1 = r /\ (~ (n - r + 1 <= n) => r = 0)  BY <1>1, <1>3
  <2>3. \A i \in 1 .. r : (n - r + 1) + i - 1 = n - r + i  BY <1>1, <1>3
  <2> QED  BY <2>1, <2>2, <2>3
<1>6. Full(w) /\ Len(w) \div Block = q
  <2>1. n - r = q * Block + 0 /\ 0 \in 0 .. Block - 1  BY <1>1, BlockSize
  <2> QED  BY <1>1, <1>4, <2>1, QuotientIs DEF Full
<1>7. w \o x = s
  <2> DEFINE v == w \o x
  <2>1. /\ Sequence(v) /\ Len(v) = Len(w) + Len(x)
        /\ \A i \in 1 .. Len(w) + Len(x) : v[i] = IF i <= Len(w) THEN w[i] ELSE x[i - Len(w)]
    BY <1>4, <1>5, Joined
  <2> HIDE DEF v
  <2>2. Len(v) = n  BY <1>1, <1>3, <1>4, <1>5, <2>1
  <2>3. ASSUME NEW i \in 1 .. n PROVE v[i] = s[i]
    <3>1. CASE i <= n - r
      <4>1. v[i] = w[i] /\ i \in 1 .. n - r  BY <1>1, <1>3, <1>4, <1>5, <2>1, <2>2, <3>1
      <4> QED  BY <1>4, <4>1
    <3>2. CASE ~ (i <= n - r)
      <4>1. i - (n - r) \in 1 .. r /\ n - r + (i - (n - r)) = i
        BY <1>1, <1>3, <3>2, BlockSize
      <4>2. v[i] = x[i - (n - r)]  BY <1>4, <1>5, <2>1, <2>2, <3>2
      <4>3. x[i - (n - r)] = s[n - r + (i - (n - r))]  BY <1>5, <4>1
      <4> QED  BY <4>1, <4>2, <4>3
    <3> QED  BY <3>1, <3>2
  <2>4. v = s  BY <1>3, <2>1, <2>2, <2>3, SameSequence
  <2> QED  BY <2>4 DEF v
<1>8. BlocksOf(w) = BlocksOf(s)
  <2>1. Len(x) \div Block = 0
    <3>1. 0 * Block + r = r /\ 0 \in Nat  BY <1>1, BlockSize
    <3> QED  BY <1>1, <1>5, <3>1, QuotientIs
  <2>2. BlocksOf(x) = << >>  BY <1>5, <2>1, BlocksFacts, EmptyIs
  <2>3. BlocksOf(s) = BlocksOf(w) \o BlocksOf(x)  BY <1>4, <1>5, <1>6, <1>7, BlocksJoined
  <2>4. Sequence(BlocksOf(w))  BY <1>4, BlocksFacts
  <2> QED  BY <2>2, <2>3, <2>4, JoinedEmpty
<1>9. n < Block => x = s
  <2> SUFFICES ASSUME n < Block PROVE x = s  OBVIOUS
  <2>1. n = 0 * Block + n /\ n \in 0 .. Block - 1 /\ 0 \in Nat  BY <1>1, BlockSize
  <2>2. r = n  BY <1>1, <2>1, OneQuotient
  <2>3. Len(w) = 0  BY <1>1, <1>4, <2>2
  <2>4. w = << >>  BY <1>4, <2>3, EmptyIs
  <2> QED  BY <1>5, <1>7, <2>4, JoinedEmpty
<1> QED  BY <1>3, <1>4, <1>5, <1>6, <1>7, <1>8, <1>9 DEF n, q, r, w, x

-----------------------------------------------------------------------------
(* What the code puts after a message is what the standard does.            *)
PadSize(n) == IF n + 1 < Block - (LengthSize - 1) THEN Block ELSE 2 * Block
PadUnit(rest, length, i) ==
  IF i > PadSize(Len(rest)) - LengthSize THEN <<"length", length>>
  ELSE IF i <= Len(rest) THEN rest[i]
  ELSE IF i = Len(rest) + 1 THEN <<"end">> ELSE <<"zero">>
Pad(rest, length) == [i \in 1 .. PadSize(Len(rest)) |-> PadUnit(rest, length, i)]
Zeros(data) == CHOOSE n \in 0 .. Block - 1 : (Len(data) + 1 + n + LengthSize) % Block = 0
ZeroUnits(n) == [i \in 1 .. n |-> <<"zero">>]
LengthUnits(n) == [i \in 1 .. LengthSize |-> <<"length", n>>]

LEMMA LastBlocksAre ==
  ASSUME NEW rest, NEW length PROVE LastBlocks(rest, length) = BlocksOf(Pad(rest, length))
BY DEF LastBlocks, Pad, PadUnit, PadSize

LEMMA PaddedIs ==
  ASSUME NEW data
  PROVE  Padded(data) = ((data \o <<<<"end">>>>) \o ZeroUnits(Zeros(data))) \o LengthUnits(Len(data))
BY DEF Padded, Zeros, ZeroUnits, LengthUnits

LEMMA PadSizes ==
  ASSUME NEW n \in 0 .. Block - 1
  PROVE  /\ PadSize(n) \in Nat /\ PadSize(n) - (n + 1 + LengthSize) \in 0 .. Block - 1
         /\ \E q \in Nat : q > 0 /\ PadSize(n) = q * Block + 0
<1> USE BlockSize
<1>1. Block = 1 * Block + 0 /\ 2 * Block = 2 * Block + 0 /\ 1 \in Nat /\ 2 \in Nat  OBVIOUS
<1>2. CASE n + 1 < Block - (LengthSize - 1)
  <2>1. PadSize(n) = Block  BY <1>2 DEF PadSize
  <2> QED  BY <1>1, <1>2, <2>1
<1>3. CASE ~ (n + 1 < Block - (LengthSize - 1))
  <2>1. PadSize(n) = 2 * Block  BY <1>3 DEF PadSize
  <2> QED  BY <1>1, <1>3, <2>1
<1> QED  BY <1>2, <1>3

LEMMA PadFacts ==
  ASSUME NEW rest, Sequence(rest), Len(rest) < Block, NEW length
  PROVE  /\ Sequence(Pad(rest, length)) /\ Len(Pad(rest, length)) = PadSize(Len(rest))
         /\ Full(Pad(rest, length)) /\ PadSize(Len(rest)) \div Block > 0
         /\ \A i \in 1 .. PadSize(Len(rest)) : Pad(rest, length)[i] = PadUnit(rest, length, i)
<1>1. Len(rest) \in 0 .. Block - 1  BY SequenceFacts, BlockSize
<1>2. PadSize(Len(rest)) \in Nat  BY <1>1, PadSizes
<1>3. PICK q \in Nat : q > 0 /\ PadSize(Len(rest)) = q * Block + 0  BY <1>1, PadSizes
<1> DEFINE n == PadSize(Len(rest))
           p == Pad(rest, length)
<1>4. p = [i \in 1 .. n |-> p[i]] /\ \A i \in 1 .. n : p[i] = PadUnit(rest, length, i)  BY DEF Pad
<1>5. Sequence(p) /\ Len(p) = n
  <2> HIDE DEF n, p
  <2> QED  BY <1>2, <1>4, Made DEF n
<1>6. n % Block = 0 /\ n \div Block = q
  <2>1. 0 \in 0 .. Block - 1  BY BlockSize
  <2> QED  BY <1>3, <2>1, QuotientIs
<1> QED  BY <1>3, <1>4, <1>5, <1>6 DEF Full

LEMMA ZerosAre ==
  ASSUME NEW data, Sequence(data)
  PROVE  LET n == Len(data) % Block IN Zeros(data) = PadSize(n) - (n + 1 + LengthSize)
<1> USE BlockSize
<1> DEFINE n == Len(data) % Block
           q == Len(data) \div Block
           z == PadSize(n) - (n + 1 + LengthSize)
<1>1. /\ Len(data) \in Nat /\ n \in 0 .. Block - 1 /\ q \in Nat
      /\ Len(data) = q * Block + n
  BY SequenceFacts, Quotient
<1> HIDE DEF n, q
<1>2. PadSize(n) \in Nat /\ z \in 0 .. Block - 1  BY <1>1, PadSizes
<1>3. PICK p \in Nat : p > 0 /\ PadSize(n) = p * Block + 0  BY <1>1, PadSizes
<1>4. Len(data) + 1 + z + LengthSize = (q + p) * Block + 0
  <2>1. (q + p) * Block = q * Block + p * Block  BY <1>1, <1>3
  <2>2. q * Block \in Nat /\ p * Block \in Nat  BY <1>1, <1>3
  <2> QED  BY <1>1, <1>2, <1>3, <2>1, <2>2
<1>5. (Len(data) + 1 + z + LengthSize) % Block = 0
  <2>1. q + p \in Nat /\ 0 \in 0 .. Block - 1  BY <1>1, <1>3
  <2>2. ((q + p) * Block + 0) % Block = 0  BY <2>1, QuotientIs
  <2> HIDE DEF z
  <2> QED  BY <1>4, <2>2
<1>6. ASSUME NEW k \in 0 .. Block - 1, (Len(data) + 1 + k + LengthSize) % Block = 0
      PROVE  k = z
  <2> DEFINE m == Len(data) + 1 + k + LengthSize
             s == m \div Block
  <2>1. m \in Nat  BY <1>1
  <2>2. s \in Nat /\ m = s * Block + 0
    <3> HIDE DEF m
    <3> QED  BY <1>6, <2>1, Quotient DEF m
  <2> HIDE DEF s
  <2>3. s * Block + z = (q + p) * Block + k
    <3>1. s * Block \in Int /\ (q + p) * Block \in Int  BY <1>1, <1>3, <2>2
    <3> HIDE DEF z
    <3> QED  BY <1>1, <1>2, <1>4, <2>2, <3>1
  <2>4. q + p \in Int /\ s \in Int  BY <1>1, <1>3, <2>2
  <2> HIDE DEF z
  <2> QED  BY <1>2, <2>3, <2>4, OneQuotient
<1>7. Zeros(data) = z
  <2> HIDE DEF z
  <2> QED  BY <1>2, <1>5, <1>6 DEF Zeros
<1> QED  BY <1>7 DEF n, z

(* A message that ends a block, some data, and the end of both.             *)
LEMMA PaddedJoined ==
  ASSUME NEW d, NEW x, Sequence(d), Full(d), Sequence(x)
  PROVE  Padded(d \o x) = (d \o Whole(x)) \o Pad(Rest(x), Len(d) + Len(x))
<1> USE BlockSize
<1> DEFINE e == d \o x
           w == d \o Whole(x)
           rest == Rest(x)
           n == Len(e)
           p == Pad(rest, n)
           size == PadSize(Len(rest))
           z == Zeros(e)
           k == Len(w)
           r == Len(rest)
<1>1. Len(d) \in Nat /\ Len(x) \in Nat  BY SequenceFacts
<1>2. /\ Sequence(Whole(x)) /\ Len(Whole(x)) = Len(x) - (Len(x) % Block) /\ Sequence(rest)
      /\ r = Len(x) % Block /\ Whole(x) \o rest = x
  BY WholeAndRest
<1>3. r \in 0 .. Block - 1  BY <1>1, <1>2, Quotient
<1>4. Sequence(e) /\ n = Len(d) + Len(x) /\ n \in Nat  BY <1>1, Joined
<1>5. Sequence(w) /\ k = Len(d) + Len(Whole(x)) /\ e = w \o rest
  <2>1. e = d \o (Whole(x) \o rest)  BY <1>2
  <2>2. (d \o Whole(x)) \o rest = d \o (Whole(x) \o rest)
    <3> DEFINE f == Whole(x)
    <3>1. Sequence(f) /\ Sequence(rest)  BY <1>2
    <3> HIDE DEF f, rest
    <3> QED  BY <3>1, Associated, SMTT(60)
  <2>3. Sequence(w) /\ k = Len(d) + Len(Whole(x))  BY <1>2, Joined
  <2> QED  BY <2>1, <2>2, <2>3
<1>6. k \in Nat /\ n = k + r
  <2>1. Len(Whole(x)) \in Nat  BY <1>2, SequenceFacts
  <2> QED  BY <1>1, <1>2, <1>3, <1>4, <1>5, <2>1
<1>7. /\ \A i \in 1 .. n : e[i] = IF i <= k THEN w[i] ELSE rest[i - k]
  <2> DEFINE f == w \o rest
  <2>1. \A i \in 1 .. k + r : f[i] = IF i <= k THEN w[i] ELSE rest[i - k]
    <3> HIDE DEF w, rest
    <3> QED  BY <1>2, <1>5, Joined
  <2>2. e = f  BY <1>5
  <2> HIDE DEF e, f, w, rest, n, k, r
  <2> QED  BY <1>6, <2>1, <2>2
<1>8. n % Block = r
  <2>1. Len(d) % Block = 0  BY DEF Full
  <2> HIDE DEF n
  <2> QED  BY <1>1, <1>2, <1>4, <2>1, FullSum
<1>9. size \in Nat /\ z = size - (r + 1 + LengthSize) /\ z \in 0 .. Block - 1
  <2>1. z = PadSize(n % Block) - ((n % Block) + 1 + LengthSize)
    <3> HIDE DEF e
    <3> QED  BY <1>4, ZerosAre
  <2>2. z = PadSize(r) - (r + 1 + LengthSize)
    <3> HIDE DEF n, r, z
    <3> QED  BY <1>8, <2>1
  <2>3. PadSize(r) \in Nat /\ PadSize(r) - (r + 1 + LengthSize) \in 0 .. Block - 1
    <3> HIDE DEF r
    <3> QED  BY <1>3, PadSizes
  <2> HIDE DEF z, r
  <2> QED  BY <2>2, <2>3 DEF r
<1>10. /\ Sequence(p) /\ Len(p) = size
       /\ \A i \in 1 .. size : p[i] = PadUnit(rest, n, i)
  <2>1. Sequence(rest) /\ Len(rest) < Block  BY <1>2, <1>3
  <2> HIDE DEF rest, n
  <2> QED  BY <2>1, PadFacts
<1> DEFINE zs == ZeroUnits(z)
           ls == LengthUnits(n)
           b == e \o <<<<"end">>>>
           c == b \o zs
           v == c \o ls
           o == <<<<"end">>>>
<1>11. Sequence(zs) /\ Len(zs) = z /\ \A i \in 1 .. z : zs[i] = <<"zero">>
  <2> HIDE DEF z
  <2>1. zs = [i \in 1 .. z |-> zs[i]] /\ \A i \in 1 .. z : zs[i] = <<"zero">>  BY DEF ZeroUnits
  <2>2. z \in Nat  BY <1>9
  <2> HIDE DEF zs
  <2> QED  BY <2>1, <2>2, Made
<1>12. Sequence(ls) /\ Len(ls) = LengthSize /\ \A i \in 1 .. LengthSize : ls[i] = <<"length", n>>
  <2> HIDE DEF n
  <2>1. /\ ls = [i \in 1 .. LengthSize |-> ls[i]]
        /\ \A i \in 1 .. LengthSize : ls[i] = <<"length", n>>
    BY DEF LengthUnits
  <2>2. LengthSize \in Nat  OBVIOUS
  <2> HIDE DEF ls
  <2> QED  BY <2>1, <2>2, Made
<1>13. Sequence(o) /\ Len(o) = 1 /\ o[1] = <<"end">>  BY One
<1> HIDE DEF z, n, e, zs, ls, o
<1>14. /\ Sequence(b) /\ Len(b) = n + 1
       /\ \A i \in 1 .. n + 1 : b[i] = IF i <= n THEN e[i] ELSE <<"end">>
  <2>1. /\ Sequence(e \o o) /\ Len(e \o o) = n + 1
        /\ \A i \in 1 .. n + 1 : (e \o o)[i] = IF i <= n THEN e[i] ELSE o[i - n]
    BY <1>4, <1>13, Joined, ZenonT(60) DEF n
  <2>2. \A i \in 1 .. n + 1 : ~ (i <= n) => i - n = 1  BY <1>4
  <2>3. b = e \o o  BY DEF o
  <2> HIDE DEF b
  <2> QED  BY <1>13, <2>1, <2>2, <2>3
<1> HIDE DEF b
<1>15. /\ Sequence(c) /\ Len(c) = n + 1 + z
       /\ \A i \in 1 .. n + 1 + z : c[i] = IF i <= n + 1 THEN b[i] ELSE <<"zero">>
  <2>1. /\ Sequence(c) /\ Len(c) = n + 1 + z
        /\ \A i \in 1 .. n + 1 + z : c[i] = IF i <= n + 1 THEN b[i] ELSE zs[i - (n + 1)]
    BY <1>11, <1>14, Joined
  <2>2. \A i \in 1 .. n + 1 + z : ~ (i <= n + 1) => i - (n + 1) \in 1 .. z  BY <1>4, <1>9
  <2> HIDE DEF c
  <2> QED  BY <1>11, <2>1, <2>2
<1> HIDE DEF c
<1>16. /\ Sequence(v) /\ Len(v) = n + 1 + z + LengthSize
       /\ \A i \in 1 .. n + 1 + z + LengthSize :
            v[i] = IF i <= n + 1 + z THEN c[i] ELSE <<"length", n>>
  <2>1. /\ Sequence(v) /\ Len(v) = n + 1 + z + LengthSize
        /\ \A i \in 1 .. n + 1 + z + LengthSize :
             v[i] = IF i <= n + 1 + z THEN c[i] ELSE ls[i - (n + 1 + z)]
    BY <1>12, <1>15, Joined, SMTT(60)
  <2>2. \A i \in 1 .. n + 1 + z + LengthSize :
          ~ (i <= n + 1 + z) => i - (n + 1 + z) \in 1 .. LengthSize
    BY <1>4, <1>9, SMTT(60)
  <2> HIDE DEF v
  <2> QED  BY <1>12, <2>1, <2>2
<1>17. Padded(e) = v  BY PaddedIs DEF v, c, b, zs, ls, z, n
<1> HIDE DEF v
<1> DEFINE y == w \o p
<1> HIDE DEF p, w, rest, size, k, r
<1>18. /\ Sequence(y) /\ Len(y) = k + size
       /\ \A i \in 1 .. k + size : y[i] = IF i <= k THEN w[i] ELSE p[i - k]
  BY <1>5, <1>10, Joined DEF k
<1> HIDE DEF y
<1>19. n + 1 + z + LengthSize = k + size  BY <1>3, <1>6, <1>9
<1>20. ASSUME NEW i \in 1 .. k + size PROVE v[i] = y[i]
  <2> DEFINE j == i - k
  <2>0. r = Len(rest) /\ size = PadSize(Len(rest))  BY DEF r, size
  <2>1. ~ (i <= k) => j \in 1 .. size /\ y[i] = PadUnit(rest, n, j)
    <3> SUFFICES ASSUME ~ (i <= k) PROVE j \in 1 .. size /\ y[i] = PadUnit(rest, n, j)  OBVIOUS
    <3>1. j \in 1 .. size  BY <1>6, <1>9
    <3>2. y[i] = p[j]  BY <1>18
    <3> HIDE DEF j
    <3> QED  BY <1>10, <3>1, <3>2
  <2>2. CASE i <= k
    <3>1. i \in 1 .. n /\ i <= n /\ i <= n + 1 /\ i <= n + 1 + z  BY <1>3, <1>6, <1>9, <2>2
    <3>2. v[i] = c[i] /\ c[i] = b[i] /\ b[i] = e[i] /\ e[i] = w[i]
      BY <1>4, <1>6, <1>7, <1>9, <1>14, <1>15, <1>16, <1>19, <2>2, <3>1, SMTT(60)
    <3> QED  BY <1>18, <2>2, <3>2
  <2>3. CASE ~ (i <= k) /\ i <= n
    <3>1. i \in 1 .. n /\ i <= n + 1 /\ i <= n + 1 + z  BY <1>3, <1>6, <1>9, <2>3
    <3>2. v[i] = c[i] /\ c[i] = b[i] /\ b[i] = e[i] /\ e[i] = rest[j]
      BY <1>4, <1>6, <1>7, <1>9, <1>14, <1>15, <1>16, <1>19, <2>3, <3>1, SMTT(60)
    <3>3. j <= r /\ ~ (j > size - LengthSize)  BY <1>3, <1>6, <1>9, <2>3
    <3>4. PadUnit(rest, n, j) = rest[j]
      <4> HIDE DEF j
      <4> QED  BY <2>0, <3>3 DEF PadUnit
    <3> QED  BY <2>1, <2>3, <3>2, <3>4
  <2>4. CASE i = n + 1
    <3>1. v[i] = c[i] /\ c[i] = b[i] /\ b[i] = <<"end">>
      <4>1. i \in 1 .. n + 1 /\ i \in 1 .. n + 1 + z /\ i \in 1 .. n + 1 + z + LengthSize
            /\ i <= n + 1 /\ i <= n + 1 + z /\ ~ (i <= n)
        BY <1>4, <1>9, <2>4
      <4> QED  BY <1>14, <1>15, <1>16, <4>1
    <3>2. j = r + 1 /\ ~ (j > size - LengthSize) /\ ~ (j <= r) /\ ~ (i <= k)
      BY <1>3, <1>6, <1>9, <2>4
    <3>3. PadUnit(rest, n, j) = <<"end">>
      <4> HIDE DEF j
      <4> QED  BY <2>0, <3>2 DEF PadUnit
    <3> QED  BY <2>1, <3>1, <3>2, <3>3
  <2>5. CASE n + 1 < i /\ i <= n + 1 + z
    <3>1. v[i] = c[i] /\ c[i] = <<"zero">>
      <4>1. i \in 1 .. n + 1 + z /\ i \in 1 .. n + 1 + z + LengthSize /\ ~ (i <= n + 1)
        BY <1>4, <1>9, <2>5
      <4> QED  BY <1>15, <1>16, <2>5, <4>1
    <3>2. j # r + 1 /\ ~ (j > size - LengthSize) /\ ~ (j <= r) /\ ~ (i <= k)
      BY <1>3, <1>6, <1>9, <2>5
    <3>3. PadUnit(rest, n, j) = <<"zero">>
      <4> HIDE DEF j
      <4> QED  BY <2>0, <3>2 DEF PadUnit
    <3> QED  BY <2>1, <3>1, <3>2, <3>3
  <2>6. CASE i > n + 1 + z
    <3>1. v[i] = <<"length", n>>
      <4>1. i \in 1 .. n + 1 + z + LengthSize /\ ~ (i <= n + 1 + z)  BY <1>4, <1>9, <1>19, <2>6
      <4> QED  BY <1>16, <4>1
    <3>2. j > size - LengthSize /\ ~ (i <= k)  BY <1>3, <1>6, <1>9, <2>6
    <3>3. PadUnit(rest, n, j) = <<"length", n>>
      <4> HIDE DEF j
      <4> QED  BY <2>0, <3>2 DEF PadUnit
    <3> QED  BY <2>1, <3>1, <3>2, <3>3
  <2> QED  BY <1>4, <1>6, <1>9, <2>2, <2>3, <2>4, <2>5, <2>6
<1>21. v = y  BY <1>16, <1>18, <1>19, <1>20, SameSequence
<1> QED  BY <1>4, <1>17, <1>21 DEF y, w, p, e, rest, n

LEMMA Digested ==
  ASSUME NEW d, NEW x, Sequence(d), Full(d), Sequence(x)
  PROVE  /\ Digest(d \o x) = BlocksOf(d \o x) \o LastBlocks(Rest(x), Len(d) + Len(x))
         /\ BlocksOf(d \o x) = BlocksOf(d) \o BlocksOf(x)
         /\ Sequence(LastBlocks(Rest(x), Len(d) + Len(x)))
         /\ Len(LastBlocks(Rest(x), Len(d) + Len(x))) \in Nat \ {0}
<1> DEFINE w == d \o Whole(x)
           n == Len(d) + Len(x)
           rest == Rest(x)
           p == Pad(rest, n)
<1>1. /\ Sequence(Whole(x)) /\ Full(Whole(x)) /\ BlocksOf(Whole(x)) = BlocksOf(x)
      /\ Sequence(rest) /\ Len(rest) = Len(x) % Block
  BY WholeAndRest
<1>2. Len(x) \in Nat /\ Len(rest) < Block  BY <1>1, SequenceFacts, Quotient, BlockSize
<1>3. Sequence(w) /\ Full(w) /\ BlocksOf(w) = BlocksOf(d) \o BlocksOf(x)
  BY <1>1, Joined, BlocksJoined
<1>4. BlocksOf(d \o x) = BlocksOf(d) \o BlocksOf(x)  BY BlocksJoined
<1>5. Sequence(p) /\ Len(p) \div Block > 0
  <2> HIDE DEF rest, n
  <2> QED  BY <1>1, <1>2, PadFacts
<1>6. Padded(d \o x) = w \o p  BY PaddedJoined
<1>7. LastBlocks(rest, n) = BlocksOf(p)  BY LastBlocksAre
<1>8. BlocksOf(w \o p) = BlocksOf(w) \o BlocksOf(p)
  <2> HIDE DEF w, p
  <2> QED  BY <1>3, <1>5, BlocksJoined
<1>9. Digest(d \o x) = BlocksOf(w \o p)  BY <1>6 DEF Digest
<1>10. Sequence(BlocksOf(p)) /\ Len(BlocksOf(p)) \in Nat \ {0}
  <2> HIDE DEF p
  <2>1. Len(p) \div Block \in Nat \ {0}  BY <1>5, BlocksFacts
  <2> QED  BY <1>5, <2>1, BlocksFacts
<1> HIDE DEF w, p
<1> QED  BY <1>3, <1>4, <1>7, <1>8, <1>9, <1>10

-----------------------------------------------------------------------------
(* A context that has hashed a message, and the messages that requests are  *)
(* about: that of a MAC begins with the key.                                *)
Holding(d) == [state |-> BlocksOf(d), length |-> Len(d)]
Prefix(t) == IF t.key = NULL THEN << >> ELSE Key("inner", t.key)
Said(t) == Prefix(t) \o t.data
Promised(m) == Told(told[m], request[m])
Goal(m) == Said(Promised(m))

(* What a request is made of.  What is verified is no longer than one       *)
(* command takes, and its hash is as long as a hash of it.                  *)
ClaimOK(c) ==
  /\ Plain(c.data) /\ Len(c.data) \div Block <= MaxBlocks
  /\ Len(c.hash) = Len(Digest(c.data))
RequestShape(m) ==
  LET r == request[m]
  IN  /\ r.kind = NULL => result[m] = "none"
      /\ r.kind # "verify" => r.claims = << >>
      /\ r.kind \in {"sha", "mac", "plain", "verify", NULL} <=> r.src = NULL
      /\ r.src # NULL => r.kind = "aes"
      /\ r.kind = "sha" => /\ r.command \in Command /\ Plain(r.input)
                           /\ r.secret = NULL /\ r.custom = << >>
      /\ r.kind = "mac" => /\ r.command \in Command /\ Plain(r.input) /\ Plain(r.custom)
                           /\ r.command = "init" => r.input = << >>
      /\ r.kind = "verify" => /\ r.claims = <<r.claims[1], r.claims[2]>>
                              /\ ClaimOK(r.claims[1]) /\ ClaimOK(r.claims[2])

(* The key that a request is to be signed with stays until it is taken,     *)
(* unless the program hurries on.                                           *)
KeyKept(m) ==
  LET r == request[m]
  IN result[m] = "busy" /\ r.kind = "mac" /\ ~ r.hurried /\ sha.from # m =>
       /\ r.handle \in Handle /\ Secret(r.handle) = r.secret
       /\ token = m \/ (sha.at = "wait" /\ shaQueue = <<m>>)

(* The context of a thread that is told the truth, unless it is being used  *)
(* or was used up.                                                          *)
UsedUp(m) == request[m].command = "finalize" /\ result[m] = "ok"
InUse(m) == sha.from = m /\ request[m].kind # "verify"
ToldOK(m) ==
  /\ told[m] = [sound |-> told[m].sound, key |-> told[m].key, data |-> told[m].data]
  /\ told[m].sound \in BOOLEAN /\ Plain(told[m].data)
  /\ told[m].sound /\ ~ UsedUp(m) /\ ~ InUse(m) =>
       ctx[m] = Holding(Said(told[m])) /\ Full(Said(told[m]))

(* The answers that the property is about.                                  *)
Genuine(m) == \A i \in DOMAIN request[m].claims :
                request[m].claims[i].hash = Digest(request[m].claims[i].data)
Owes(m) == request[m].kind \in {"sha", "mac"} /\ request[m].command = "finalize" /\ told[m].sound
AnswerOK(m) ==
  result[m] = "ok" => /\ Genuine(m)
                      /\ Owes(m) => answer[m] = Expected(told[m], request[m])

(* The thread and its engine.  The engine goes on from the blocks of what   *)
(* came before a call, b, with those of its data, x.                        *)
ShaPhase ==
  /\ sha.at \in {"wait", "next", "event", "spin", "panic"}
  /\ sha.at \in {"wait", "next"} => ~ shaCmd.execute /\ ~ shaEvent
  /\ sha.at = "event" => (shaEvent <=> ~ shaCmd.execute) /\ shaCmd.irq
  /\ sha.at = "spin" => ~ shaEvent /\ ~ shaCmd.irq
  /\ shaCmd.failed => errors # 0
  /\ errors \in Nat

Before(c, d) == IF c.command = "init" THEN << >> ELSE d
Engine(at, command, b, x, c) ==
  LET e == b \o x
  IN /\ at = "next" => command = "init" \/ (c = Holding(b) /\ Full(b))
     /\ at = "event" =>
          /\ c = Holding(b) /\ Full(b) /\ (command # "finalize" => Full(e))
          /\ shaCmd.execute => hash \o shaCmd.blocks = BlocksOf(e)
          /\ ~ shaCmd.execute => shaCmd.failed \/ hash = BlocksOf(e)
     /\ at = "spin" =>
          /\ command = "finalize"
          /\ shaCmd.execute => hash = BlocksOf(e) /\ hash \o shaCmd.blocks = Digest(e)
          /\ ~ shaCmd.execute => hash = IF shaCmd.failed THEN BlocksOf(e) ELSE Digest(e)
Registers(d) == Engine(sha.at, Call.command, Before(Call, d), DataOf(Call), ctx[Context])

(* What is still to be called for a hash or a MAC when d is in the context. *)
Outer(r) == CallOf(Key("outer", r.secret), "init")
FinalCall == CallOf(<<<<"final">>>>, "finalize")
Feeding(c) == /\ c = CallOf(c.data, c.command) /\ c.command \in {"init", "contribute"}
              /\ Plain(c.data)
              /\ c.command = "init" => Len(c.data) \notin 1 .. Block - 1
Hashing(m, d) ==
  LET r == request[m]
      todo == sha.todo
      goal == Goal(m)
      ready == sha.good => sha.final = Digest(goal)
  IN \/ /\ r.command # "finalize"
        /\ Len(todo) = 1 /\ todo = <<todo[1]>> /\ Feeding(todo[1])
        /\ Before(todo[1], d) \o todo[1].data = goal
     \/ /\ r.command # "finalize"
        /\ Len(todo) = 2 /\ todo = <<todo[1], todo[2]>> /\ Feeding(todo[1]) /\ Feeding(todo[2])
        /\ todo[2].command = "contribute"
        /\ (Before(todo[1], d) \o todo[1].data) \o todo[2].data = goal
     \/ /\ r.kind = "sha" /\ r.command = "finalize"
        /\ todo = <<CallOf(r.input, "finalize")>>
        /\ d \o r.input = goal
     \/ /\ r.kind = "mac" /\ r.command = "finalize"
        /\ \/ /\ todo = <<CallOf(r.custom, "contribute"), CallOf(r.input, "finalize"),
                          Outer(r), FinalCall>>
              /\ (d \o r.custom) \o r.input = goal
           \/ todo = <<CallOf(r.input, "finalize"), Outer(r), FinalCall>> /\ d \o r.input = goal
           \/ todo = <<Outer(r), FinalCall>> /\ ready
           \/ todo = <<FinalCall>> /\ d = Key("outer", r.secret) /\ ready

(* What is still to be called for a verification.                           *)
Filled(c) == CallOf(Whole(c.data), "init")
Checked(c) == [data |-> Rest(c.data), command |-> "finalize", claim |-> c.hash]
Right(c) == c.hash = Digest(c.data)
Verifying(m, d) ==
  LET c1 == request[m].claims[1]
      c2 == request[m].claims[2]
  IN \/ sha.todo = <<Filled(c1), Checked(c1), Filled(c2), Checked(c2)>>
     \/ sha.todo = <<Checked(c1), Filled(c2), Checked(c2)>> /\ d = Whole(c1.data)
     \/ sha.todo = <<Filled(c2), Checked(c2)>> /\ Right(c1)
     \/ sha.todo = <<Checked(c2)>> /\ d = Whole(c2.data) /\ Right(c1)

Unclaimed == /\ Sequence(sha.todo) /\ sha.todo # << >>
             /\ \A i \in 1 .. Len(sha.todo) : sha.todo[i].claim = << >>
Serving ==
  LET m == sha.from
  IN sha.at \in {"next", "event", "spin"} =>
       IF request[m].kind = "verify" THEN \E d : Sequence(d) /\ Verifying(m, d) /\ Registers(d)
       ELSE /\ Unclaimed
            /\ Promised(m).sound => \E d : Sequence(d) /\ Hashing(m, d) /\ Registers(d)
Panics == sha.at = "panic" /\ errors = 0 => ~ Genuine(sha.from)

Domains == DOMAIN told = Message /\ DOMAIN answer = Message /\ DOMAIN ctx = Message \cup {NULL}
ThreadOK(m) == RequestShape(m) /\ KeyKept(m) /\ ToldOK(m) /\ AnswerOK(m)
Digests ==
  /\ Domains /\ \A m \in Message : ThreadOK(m)
  /\ ShaPhase /\ Serving /\ Panics

LEMMA HoldingNothing == Holding(<< >>) = NoContext /\ Full(<< >>) /\ BlocksOf(<< >>) = << >>
<1>1. Sequence(<< >>) /\ Len(<< >>) = 0  BY NoSequence
<1>2. 0 = 0 * Block + 0 /\ 0 \in 0 .. Block - 1 /\ 0 \in Nat  BY BlockSize
<1>3. 0 \div Block = 0 /\ 0 % Block = 0  BY <1>2, QuotientIs
<1>4. BlocksOf(<< >>) = << >>  BY <1>1, <1>3, BlocksFacts, EmptyIs
<1> QED  BY <1>1, <1>3, <1>4 DEF Holding, NoContext, Full

LEMMA Pieces ==
  ASSUME NEW s, Sequence(s)
  PROVE  \A x : x \in Elements(s) <=> \E i \in 1 .. Len(s) : x = s[i]
<1>1. Elements(s) = {s[i] : i \in 1 .. Len(s)}  BY SequenceFacts
<1> QED  BY <1>1

LEMMA KeyIs ==
  ASSUME NEW pad, NEW secret
  PROVE  LET k == Key(pad, secret) IN Plain(k) /\ Len(k) = Block /\ Full(k)
<1> DEFINE k == Key(pad, secret)
<1>1. k = [i \in 1 .. Block |-> k[i]] /\ \A i \in 1 .. Block : k[i] = <<pad, secret>>  BY DEF Key
<1> HIDE DEF k
<1>2. Sequence(k) /\ Len(k) = Block  BY <1>1, Made, BlockSize
<1>3. <<pad, secret>> # <<"final">>  OBVIOUS
<1>4. <<"final">> \notin Elements(k)
  <2> SUFFICES ASSUME <<"final">> \in Elements(k) PROVE FALSE  OBVIOUS
  <2>1. PICK i \in 1 .. Len(k) : <<"final">> = k[i]  BY <1>2, Pieces
  <2> QED  BY <1>1, <1>2, <1>3, <2>1
<1>5. Full(k)
  <2>1. Block = 1 * Block + 0 /\ 1 \in Nat /\ 0 \in 0 .. Block - 1  BY BlockSize
  <2>2. (1 * Block + 0) % Block = 0  BY <2>1, QuotientIs
  <2> QED  BY <1>2, <2>1, <2>2 DEF Full
<1> QED  BY <1>2, <1>4, <1>5 DEF Plain, k

LEMMA PlainJoined ==
  ASSUME NEW s, NEW t, Plain(s), Plain(t) PROVE Plain(s \o t)
<1>1. Sequence(s) /\ Sequence(t)  BY DEF Plain
<1> DEFINE u == s \o t
<1>2. /\ Sequence(u) /\ Len(u) = Len(s) + Len(t)
      /\ \A i \in 1 .. Len(s) + Len(t) : u[i] = IF i <= Len(s) THEN s[i] ELSE t[i - Len(s)]
  BY <1>1, Joined
<1>3. Len(s) \in Nat /\ Len(t) \in Nat  BY <1>1, SequenceFacts
<1> HIDE DEF u
<1>4. ASSUME NEW i \in 1 .. Len(u) PROVE u[i] # <<"final">>
  <2>1. CASE i <= Len(s)
    <3>1. i \in 1 .. Len(s) /\ u[i] = s[i]  BY <1>2, <1>3, <2>1
    <3> QED  BY <1>1, <3>1, Pieces DEF Plain
  <2>2. CASE ~ (i <= Len(s))
    <3> DEFINE j == i - Len(s)
    <3>1. j \in 1 .. Len(t)  BY <1>2, <1>3, <2>2
    <3>2. u[i] = t[j]  BY <1>2, <2>2
    <3> HIDE DEF j
    <3> QED  BY <1>1, <3>1, <3>2, Pieces DEF Plain
  <2> QED  BY <2>1, <2>2
<1>5. <<"final">> \notin Elements(u)  BY <1>2, <1>4, Pieces
<1> QED  BY <1>2, <1>5 DEF Plain, u

LEMMA PlainParts ==
  ASSUME NEW s, Plain(s) PROVE Plain(Whole(s)) /\ Plain(Rest(s))
<1>1. Sequence(s)  BY DEF Plain
<1> DEFINE a == Whole(s)
           b == Rest(s)
<1>2. Sequence(a) /\ Sequence(b) /\ a \o b = s  BY <1>1, WholeAndRest
<1> HIDE DEF a, b
<1>3. /\ Len(s) = Len(a) + Len(b) /\ Len(a) \in Nat /\ Len(b) \in Nat
      /\ \A i \in 1 .. Len(a) + Len(b) : s[i] = IF i <= Len(a) THEN a[i] ELSE b[i - Len(a)]
  <2>1. /\ Len(a \o b) = Len(a) + Len(b)
        /\ \A i \in 1 .. Len(a) + Len(b) : (a \o b)[i] = IF i <= Len(a) THEN a[i] ELSE b[i - Len(a)]
    BY <1>2, Joined
  <2> QED  BY <1>2, <2>1, SequenceFacts
<1>4. \A i \in 1 .. Len(s) : s[i] # <<"final">>  BY <1>1, Pieces DEF Plain
<1>5. ASSUME NEW i \in 1 .. Len(a) PROVE a[i] # <<"final">>
  <2>1. i \in 1 .. Len(a) + Len(b) /\ i <= Len(a)  BY <1>3
  <2> QED  BY <1>3, <1>4, <2>1
<1>6. ASSUME NEW i \in 1 .. Len(b) PROVE b[i] # <<"final">>
  <2> DEFINE j == Len(a) + i
  <2>1. j \in 1 .. Len(a) + Len(b) /\ ~ (j <= Len(a)) /\ j - Len(a) = i  BY <1>3
  <2> HIDE DEF j
  <2>2. s[j] = b[i]  BY <1>3, <2>1
  <2> QED  BY <1>3, <1>4, <2>1, <2>2
<1>7. <<"final">> \notin Elements(a) /\ <<"final">> \notin Elements(b)  BY <1>2, <1>5, <1>6, Pieces
<1> QED  BY <1>2, <1>7 DEF Plain, a, b

LEMMA PlainIs ==
  ASSUME NEW s, Plain(s) PROVE Sequence(s) /\ s # <<<<"final">>>>
<1>1. Sequence(s)  BY DEF Plain
<1> SUFFICES ASSUME s = <<<<"final">>>> PROVE FALSE  BY <1>1
<1>2. Len(s) = 1 /\ s[1] = <<"final">>  BY One
<1>3. 1 \in 1 .. Len(s)  BY <1>2
<1> QED  BY <1>1, <1>2, <1>3, Pieces DEF Plain

LEMMA PlainNothing == Plain(<< >>)
<1>1. Sequence(<< >>) /\ Len(<< >>) = 0  BY NoSequence
<1>2. \A i \in 1 .. Len(<< >>) : FALSE  BY <1>1
<1> QED  BY <1>1, <1>2, Pieces DEF Plain

(* The length of a hash is given by that of the message, and is more than   *)
(* that of its blocks.                                                      *)
LEMMA DigestLength ==
  ASSUME NEW s, Sequence(s)
  PROVE  /\ Len(Digest(s)) = (Len(s) \div Block) + (PadSize(Len(s) % Block) \div Block)
         /\ Len(BlocksOf(s)) \in Nat /\ Len(BlocksOf(s)) < Len(Digest(s))
<1> DEFINE n == Len(<< >>) + Len(s)
           last == LastBlocks(Rest(s), n)
<1>1. Sequence(<< >>) /\ << >> \o s = s  BY NoSequence, JoinedEmpty
<1>2. /\ Digest(<< >> \o s) = BlocksOf(<< >> \o s) \o last
      /\ Sequence(last) /\ Len(last) \in Nat \ {0}
  BY <1>1, HoldingNothing, Digested
<1>3. Digest(s) = BlocksOf(s) \o last  BY <1>1, <1>2
<1>4. Sequence(BlocksOf(s)) /\ Len(BlocksOf(s)) = Len(s) \div Block /\ Len(s) \div Block \in Nat
  BY BlocksFacts
<1>5. Len(Digest(s)) = Len(BlocksOf(s)) + Len(last)
  <2> HIDE DEF last
  <2> QED  BY <1>2, <1>3, <1>4, Joined
<1>6. Len(last) = PadSize(Len(s) % Block) \div Block
  <2> DEFINE rest == Rest(s)
             p == Pad(rest, n)
  <2>1. Sequence(rest) /\ Len(rest) = Len(s) % Block  BY WholeAndRest
  <2>2. Len(rest) < Block  BY <2>1, SequenceFacts, Quotient, BlockSize
  <2>3. Sequence(p) /\ Len(p) = PadSize(Len(rest))
    <3> HIDE DEF rest, n
    <3> QED  BY <2>1, <2>2, PadFacts
  <2>4. last = BlocksOf(p)  BY LastBlocksAre
  <2>5. Len(BlocksOf(p)) = Len(p) \div Block
    <3> HIDE DEF p
    <3> QED  BY <2>3, BlocksFacts
  <2> QED  BY <2>1, <2>3, <2>4, <2>5
<1> HIDE DEF last
<1> QED  BY <1>2, <1>4, <1>5, <1>6

-----------------------------------------------------------------------------
(* What the thread does with the engine for one call.                       *)
Fed(d) == Before(Call, d) \o DataOf(Call)
Goes(at) == sha' = [sha EXCEPT !.at = at] /\ GoesOn
ServedIs == /\ sha = [at |-> sha.at, from |-> sha.from, todo |-> sha.todo, final |-> sha.final,
                      good |-> sha.good]
            /\ Context \in DOMAIN ctx /\ ~ (sha.at = "wait")

LEMMA SameCall ==
  ASSUME ServedIs, NEW at, sha' = [sha EXCEPT !.at = at], UNCHANGED request
  PROVE  /\ sha'.at = at /\ UNCHANGED <<Call, DataOf(Call), Context, sha.todo, sha.from, sha.final, sha.good>>
         /\ \A d : Before(Call, d)' = Before(Call, d)
<1>1. sha' = [at |-> at, from |-> sha.from, todo |-> sha.todo, final |-> sha.final, good |-> sha.good]
  BY DEF ServedIs
<1>2. /\ sha'.at = at /\ sha'.from = sha.from /\ sha'.todo = sha.todo /\ sha'.final = sha.final
      /\ sha'.good = sha.good
  BY <1>1
<1> QED  BY <1>2 DEF Call, DataOf, Context, Caller, Before

LEMMA NoCalls ==
  ASSUME NEW d, Sequence(d)
  PROVE  Sequence(Before(Call, d)) /\ (Call.command # "init" => Before(Call, d) = d)
BY NoSequence DEF Before

LEMMA FedFacts ==
  ASSUME NEW d, Sequence(d), Sequence(DataOf(Call)), Full(Before(Call, d))
  PROVE  LET x == DataOf(Call)
             b == Before(Call, d)
             n == Len(b) + Len(x)
         IN /\ Sequence(Fed(d)) /\ Len(Fed(d)) = n /\ Sequence(b) /\ Len(b) \in Nat /\ Len(x) \in Nat
            /\ BlocksOf(Fed(d)) = BlocksOf(b) \o BlocksOf(x)
            /\ Digest(Fed(d)) = BlocksOf(Fed(d)) \o LastBlocks(Rest(x), n)
            /\ Full(x) => Full(Fed(d))
            /\ Len(x) < Block => BlocksOf(Fed(d)) = BlocksOf(b) /\ Rest(x) = x
<1> DEFINE x == DataOf(Call)
           b == Before(Call, d)
<1>1. Sequence(b) /\ Sequence(x) /\ Full(b) /\ Fed(d) = b \o x  BY NoCalls DEF Fed
<1> HIDE DEF b, x
<1>2. Len(b) \in Nat /\ Len(x) \in Nat /\ Sequence(b \o x) /\ Len(b \o x) = Len(b) + Len(x)
  BY <1>1, Joined, SequenceFacts
<1>3. /\ BlocksOf(b \o x) = BlocksOf(b) \o BlocksOf(x) /\ (Full(x) => Full(b \o x))
      /\ Digest(b \o x) = BlocksOf(b \o x) \o LastBlocks(Rest(x), Len(b) + Len(x))
  BY <1>1, BlocksJoined, Digested
<1>4. ASSUME Len(x) < Block PROVE BlocksOf(b \o x) = BlocksOf(b) /\ Rest(x) = x
  <2>1. Len(x) = 0 * Block + Len(x) /\ Len(x) \in 0 .. Block - 1 /\ 0 \in Nat
    BY <1>2, <1>4, BlockSize
  <2>2. Len(x) \div Block = 0  BY <2>1, QuotientIs
  <2>3. BlocksOf(x) = << >>  BY <1>1, <2>2, BlocksFacts, EmptyIs
  <2>4. Sequence(BlocksOf(b))  BY <1>1, BlocksFacts
  <2> QED  BY <1>1, <1>3, <1>4, <2>3, <2>4, JoinedEmpty, WholeAndRest
<1> QED  BY <1>1, <1>2, <1>3, <1>4 DEF b, x

LEMMA GenerateIs ==
  ASSUME Generate, ~ Refused
  PROVE  LET data == DataOf(Call)
             context == Reset(ctx[Context])
         IN \/ /\ Len(data) >= Block
               /\ ctx' = [ctx EXCEPT ![Context] = context]
               /\ Starts(BlocksOf(data), context.state, TRUE)
               /\ sha' = [sha EXCEPT !.at = "event"]
               /\ GoesOn
            \/ /\ Len(data) < Block /\ Call.command = "finalize"
               /\ Starts(LastBlocks(data, context.length + Len(data)), context.state, FALSE)
               /\ sha' = [sha EXCEPT !.at = "spin"]
               /\ GoesOn
            \/ /\ Len(data) < Block /\ Call.command # "finalize"
               /\ ctx' = [ctx EXCEPT ![Context] = context]
               /\ IF Call.command = "init" THEN Proceeds ELSE Fails
BY DEF Generate

LEMMA GenerateRuns ==
  ASSUME ServedIs, CmdIs, Generate, sha.at = "next", NEW d, Sequence(d), Registers(d),
         Sequence(DataOf(Call)), ~ Refused,
         Call.command = "init" => Len(DataOf(Call)) \notin 1 .. Block - 1
  PROVE  \/ Goes("event") /\ Registers(d)'
         \/ Goes("spin") /\ Registers(d)'
         \/ /\ Call.command = "init" /\ Proceeds
            /\ ctx'[Context] = Holding(Fed(d)) /\ Full(Fed(d))
         \/ Call.command \notin {"init", "finalize"} /\ Len(DataOf(Call)) < Block /\ Fails
<1> DEFINE x == DataOf(Call)
           b == Before(Call, d)
           e == Fed(d)
           n == Len(b) + Len(x)
           context == Reset(ctx[Context])
<1>1. context = Holding(b) /\ Full(b)
  <2>1. CASE Call.command = "init"
    BY <2>1, HoldingNothing DEF Before, Reset
  <2>2. CASE Call.command # "init"
    BY <2>2 DEF Before, Reset, Registers, Engine
  <2> QED  BY <2>1, <2>2
<1>2. /\ Sequence(e) /\ Len(e) = n /\ Sequence(b) /\ Len(b) \in Nat /\ Len(x) \in Nat
      /\ BlocksOf(e) = BlocksOf(b) \o BlocksOf(x)
      /\ Digest(e) = BlocksOf(e) \o LastBlocks(Rest(x), n)
      /\ Full(x) => Full(e)
      /\ Len(x) < Block => BlocksOf(e) = BlocksOf(b) /\ Rest(x) = x
  BY <1>1, FedFacts
<1>3. context.state = BlocksOf(b) /\ context.length = Len(b)  BY <1>1 DEF Holding
<1>4. UNCHANGED request  BY DEF Generate
<1>5. e = b \o x  BY DEF Fed
<1>6. ASSUME Len(x) >= Block, ctx' = [ctx EXCEPT ![Context] = context],
             Starts(BlocksOf(x), context.state, TRUE), sha' = [sha EXCEPT !.at = "event"]
      PROVE  Registers(d)'
  <2>1. /\ UNCHANGED <<Call, DataOf(Call), Context>> /\ sha'.at = "event"
        /\ Before(Call, d)' = Before(Call, d)
    BY <1>4, <1>6, SameCall
  <2>2. ctx'[Context] = context  BY <1>6 DEF ServedIs
  <2>3. shaCmd'.execute = TRUE /\ hash' \o shaCmd'.blocks = BlocksOf(e)
    <3>1. hash' = BlocksOf(b) /\ shaCmd'.execute = TRUE /\ shaCmd'.blocks = BlocksOf(x)
      BY <1>3, <1>6 DEF Starts
    <3> QED  BY <1>2, <3>1
  <2>4. Call.command # "finalize" => Full(e)
    <3>1. Call.command # "finalize" => Len(x) % Block = 0  BY <1>6 DEF Refused
    <3> QED  BY <1>2, <3>1 DEF Full
  <2>5. Engine("event", Call.command, b, x, ctx[Context])'
    <3>1. Call' = Call /\ x' = x /\ b' = b /\ (ctx[Context])' = context  BY <2>1, <2>2
    <3> HIDE DEF b, x, context, e
    <3> QED  BY <1>1, <1>5, <2>3, <2>4, <3>1 DEF Engine
  <2> QED  BY <2>1, <2>5 DEF Registers
<1>7. ASSUME Len(x) < Block, Call.command = "finalize",
             Starts(LastBlocks(x, context.length + Len(x)), context.state, FALSE),
             sha' = [sha EXCEPT !.at = "spin"]
      PROVE  Registers(d)'
  <2>1. /\ UNCHANGED <<Call, DataOf(Call), Context>> /\ sha'.at = "spin"
        /\ Before(Call, d)' = Before(Call, d)
    BY <1>4, <1>7, SameCall
  <2>2. /\ hash' = BlocksOf(e) /\ shaCmd'.execute = TRUE
        /\ shaCmd'.blocks = LastBlocks(Rest(x), n)
    BY <1>2, <1>3, <1>7 DEF Starts
  <2>3. hash' \o shaCmd'.blocks = Digest(e)  BY <1>2, <2>2
  <2>4. Engine("spin", Call.command, b, x, ctx[Context])'
    <3>1. Call' = Call /\ x' = x /\ b' = b  BY <2>1
    <3> HIDE DEF b, x, context, e
    <3> QED  BY <1>5, <1>7, <2>2, <2>3, <3>1 DEF Engine
  <2> QED  BY <2>1, <2>4 DEF Registers
<1>8. ASSUME Len(x) < Block, Call.command = "init", ctx' = [ctx EXCEPT ![Context] = context]
      PROVE  ctx'[Context] = Holding(e) /\ Full(e)
  <2>1. Len(x) = 0  BY <1>2, <1>8, BlockSize
  <2>2. x = << >>  BY <2>1, EmptyIs
  <2>3. b = << >>  BY <1>8 DEF Before
  <2>4. e = << >>
    <3>1. << >> \o << >> = << >>  BY NoSequence, JoinedEmpty
    <3> QED  BY <1>5, <2>2, <2>3, <3>1
  <2>5. ctx'[Context] = context  BY <1>8 DEF ServedIs
  <2> QED  BY <1>1, <2>3, <2>4, <2>5
<1> DEFINE Full1 == /\ ctx' = [ctx EXCEPT ![Context] = context]
                    /\ Starts(BlocksOf(x), context.state, TRUE)
                    /\ sha' = [sha EXCEPT !.at = "event"] /\ GoesOn
           Last1 == /\ Starts(LastBlocks(x, context.length + Len(x)), context.state, FALSE)
                    /\ sha' = [sha EXCEPT !.at = "spin"] /\ GoesOn
           Short1 == /\ ctx' = [ctx EXCEPT ![Context] = context]
                     /\ IF Call.command = "init" THEN Proceeds ELSE Fails
<1>12. \/ Len(x) >= Block /\ Full1
       \/ Len(x) < Block /\ Call.command = "finalize" /\ Last1
       \/ Len(x) < Block /\ Call.command # "finalize" /\ Short1
  BY GenerateIs
<1>13. Len(x) \in Nat /\ Block \in Nat  BY <1>2, BlockSize
<1>14. /\ Len(x) >= Block => Full1
       /\ Len(x) < Block /\ Call.command = "finalize" => Last1
       /\ Len(x) < Block /\ Call.command # "finalize" => Short1
  <2> HIDE DEF x, Full1, Last1, Short1
  <2> QED  BY <1>12, <1>13
<1>9. CASE Len(x) >= Block
  <2>1. /\ ctx' = [ctx EXCEPT ![Context] = context] /\ GoesOn
        /\ Starts(BlocksOf(x), context.state, TRUE) /\ sha' = [sha EXCEPT !.at = "event"]
    BY <1>14, <1>9
  <2> QED  BY <1>6, <1>9, <2>1 DEF Goes
<1>10. CASE Len(x) < Block /\ Call.command = "finalize"
  <2>1. /\ Starts(LastBlocks(x, context.length + Len(x)), context.state, FALSE) /\ GoesOn
        /\ sha' = [sha EXCEPT !.at = "spin"]
    BY <1>14, <1>10
  <2> QED  BY <1>7, <1>10, <2>1 DEF Goes
<1>11. CASE Len(x) < Block /\ Call.command # "finalize"
  <2>1. /\ ctx' = [ctx EXCEPT ![Context] = context]
        /\ IF Call.command = "init" THEN Proceeds ELSE Fails
    BY <1>14, <1>11
  <2> QED  BY <1>8, <1>11, <2>1
<1> QED  BY <1>2, <1>9, <1>10, <1>11, BlockSize

LEMMA GeneratedRuns ==
  ASSUME ServedIs, CmdIs, ShaPhase, Generated, NEW d, Sequence(d), Registers(d),
         Sequence(DataOf(Call))
  PROVE  \/ shaCmd.failed /\ Fails
         \/ Goes("spin") /\ Registers(d)'
         \/ /\ Call.command # "finalize" /\ Proceeds
            /\ ctx'[Context] = Holding(Fed(d)) /\ Full(Fed(d))
<1> DEFINE x == DataOf(Call)
           b == Before(Call, d)
           e == Fed(d)
           n == Len(b) + Len(x)
           length == ctx[Context].length + Len(x)
<1>1. sha.at = "event" /\ shaEvent /\ ~ shaCmd.execute /\ UNCHANGED request
  BY DEF Generated, ShaPhase
<1>2. /\ ctx[Context] = Holding(b) /\ Full(b) /\ (Call.command # "finalize" => Full(b \o x))
      /\ shaCmd.failed \/ hash = BlocksOf(b \o x)
  BY <1>1 DEF Registers, Engine
<1>3. e = b \o x  BY DEF Fed
<1>4. /\ Sequence(e) /\ Len(e) = n
      /\ Digest(e) = BlocksOf(e) \o LastBlocks(Rest(x), n)
  BY <1>2, FedFacts
<1>5. length = n  BY <1>2 DEF Holding
<1>6. CASE shaCmd.failed
  BY <1>6 DEF Generated
<1>7. CASE ~ shaCmd.failed /\ Call.command = "finalize"
  <2>1. /\ Starts(LastBlocks(Rest(x), length), hash, FALSE) /\ sha' = [sha EXCEPT !.at = "spin"]
        /\ GoesOn
    BY <1>7 DEF Generated
  <2>2. /\ UNCHANGED <<Call, DataOf(Call), Context>> /\ sha'.at = "spin"
        /\ Before(Call, d)' = Before(Call, d)
    BY <1>1, <2>1, SameCall
  <2>3. /\ hash' = BlocksOf(e) /\ shaCmd'.execute = TRUE
        /\ shaCmd'.blocks = LastBlocks(Rest(x), n)
    BY <1>2, <1>3, <1>5, <1>7, <2>1 DEF Starts
  <2>4. hash' \o shaCmd'.blocks = Digest(e)  BY <1>4, <2>3
  <2>5. Engine("spin", Call.command, b, x, ctx[Context])'
    <3>1. Call' = Call /\ x' = x /\ b' = b  BY <2>2
    <3> HIDE DEF b, x, e
    <3> QED  BY <1>3, <1>7, <2>3, <2>4, <3>1 DEF Engine
  <2> QED  BY <2>1, <2>2, <2>5 DEF Registers, Goes
<1>8. CASE ~ shaCmd.failed /\ Call.command # "finalize"
  <2>1. ctx' = [ctx EXCEPT ![Context] = [state |-> hash, length |-> length]] /\ Proceeds
    BY <1>8 DEF Generated
  <2>2. ctx'[Context] = [state |-> hash, length |-> length]  BY <2>1 DEF ServedIs
  <2>3. hash = BlocksOf(e) /\ length = Len(e) /\ Full(e)  BY <1>2, <1>3, <1>4, <1>5, <1>8
  <2> QED  BY <1>8, <2>1, <2>2, <2>3 DEF Holding
<1> QED  BY <1>6, <1>7, <1>8

LEMMA EngineRuns ==
  ASSUME ServedIs, CmdIs, ShaPhase, ShaRuns, UNCHANGED <<request, ctx>>, NEW d, Registers(d)
  PROVE  Registers(d)'
<1> DEFINE x == DataOf(Call)
           b == Before(Call, d)
           c == ctx[Context]
<1>1. UNCHANGED sha  BY DEF ShaRuns
<1>2. Call' = Call /\ x' = x /\ b' = b /\ c' = c /\ sha'.at = sha.at
  BY <1>1 DEF Call, DataOf, Before, Context, Caller
<1>3. shaCmd.execute /\ sha.at # "next"  BY DEF ShaRuns, ShaPhase
<1>4. PICK failed \in BOOLEAN :
        /\ hash' = IF failed THEN hash ELSE hash \o shaCmd.blocks
        /\ shaCmd' = [shaCmd EXCEPT !.execute = FALSE, !.failed = failed, !.blocks = << >>]
  BY Zenon DEF ShaRuns
<1>5. shaCmd' = [execute |-> FALSE, irq |-> shaCmd.irq, failed |-> failed, blocks |-> << >>]
  BY <1>4 DEF CmdIs
<1>6. shaCmd'.execute = FALSE /\ shaCmd'.failed = failed  BY <1>5
<1>7. Engine(sha.at, Call.command, b, x, c)  BY DEF Registers
<1>8. Engine(sha.at, Call.command, b, x, c)'
  <2> HIDE DEF b, x, c
  <2> QED  BY <1>2, <1>3, <1>4, <1>6, <1>7 DEF Engine
<1> QED  BY <1>8 DEF Registers

-----------------------------------------------------------------------------
(* Calls in turn.                                                           *)
LEMMA Turns ==
  ASSUME NEW a, NEW b, NEW c, NEW e
  PROVE  /\ Len(<<a>>) = 1 /\ Head(<<a>>) = a
         /\ Len(<<a, b>>) = 2 /\ Head(<<a, b>>) = a /\ Tail(<<a, b>>) = <<b>>
         /\ Len(<<a, b, c>>) = 3 /\ Head(<<a, b, c>>) = a /\ Tail(<<a, b, c>>) = <<b, c>>
         /\ Len(<<a, b, c, e>>) = 4 /\ Head(<<a, b, c, e>>) = a
         /\ Tail(<<a, b, c, e>>) = <<b, c, e>>
OBVIOUS

LEMMA TurnsAre ==
  ASSUME NEW a, NEW b, NEW c, NEW e
  PROVE  /\ Sequence(<<a>>) /\ Sequence(<<a, b>>) /\ Sequence(<<a, b, c>>) /\ Sequence(<<a, b, c, e>>)
         /\ <<a>> # << >> /\ <<a, b>> # << >> /\ <<a, b, c>> # << >> /\ <<a, b, c, e>> # << >>
<1> DEFINE S == {a, b, c, e}
<1>1. /\ <<a>> \in Seq(S) /\ <<a, b>> \in Seq(S) /\ <<a, b, c>> \in Seq(S) /\ <<a, b, c, e>> \in Seq(S)
  OBVIOUS
<1>2. /\ Sequence(<<a>>) /\ Sequence(<<a, b>>) /\ Sequence(<<a, b, c>>) /\ Sequence(<<a, b, c, e>>)
  BY <1>1, IsSequence
<1>3. /\ <<a>> # << >> /\ <<a, b>> # << >> /\ <<a, b, c>> # << >> /\ <<a, b, c, e>> # << >>
  OBVIOUS
<1> QED  BY <1>2, <1>3

LEMMA FourAre ==
  ASSUME NEW s, NEW t, Sequence(s), Sequence(t), Len(s) + Len(t) = 4, NEW u, Sequence(u), Len(u) = 4,
         \A i \in 1 .. 4 : u[i] = IF i <= Len(s) THEN s[i] ELSE t[i - Len(s)]
  PROVE  s \o t = u
<1> DEFINE v == s \o t
<1>1. Sequence(v) /\ Len(v) = 4 /\ \A i \in 1 .. 4 : v[i] = IF i <= Len(s) THEN s[i] ELSE t[i - Len(s)]
  BY Joined
<1> HIDE DEF v
<1>2. \A i \in 1 .. Len(v) : v[i] = u[i]  BY <1>1
<1>3. v = u  BY <1>1, <1>2, SameSequence
<1> QED  BY <1>3 DEF v

LEMMA OneOfFour == \A i \in 1 .. 4 : i = 1 \/ i = 2 \/ i = 3 \/ i = 4
OBVIOUS

LEMMA OneAndThree ==
  ASSUME NEW a, NEW b, NEW c, NEW e
  PROVE  <<a>> \o <<b, c, e>> = <<a, b, c, e>>
<1> DEFINE u == <<a, b, c, e>>
           s == <<a>>
           t == <<b, c, e>>
<1>1. /\ Sequence(u) /\ Len(u) = 4 /\ u[1] = a /\ u[2] = b /\ u[3] = c /\ u[4] = e
      /\ Sequence(s) /\ Len(s) = 1 /\ s[1] = a
      /\ Sequence(t) /\ Len(t) = 3 /\ t[1] = b /\ t[2] = c /\ t[3] = e
  BY TurnsAre
<1> HIDE DEF s, t, u
<1>2. \A i \in 1 .. 4 : u[i] = IF i <= Len(s) THEN s[i] ELSE t[i - Len(s)]
  BY <1>1, OneOfFour
<1>4. Len(s) + Len(t) = 4  BY <1>1
<1>3. s \o t = u  BY <1>1, <1>2, <1>4, FourAre
<1> QED  BY <1>3 DEF s, t, u

LEMMA TwoAndTwo ==
  ASSUME NEW a, NEW b, NEW c, NEW e
  PROVE  <<a, b>> \o <<c, e>> = <<a, b, c, e>>
<1> DEFINE u == <<a, b, c, e>>
           s == <<a, b>>
           t == <<c, e>>
<1>1. /\ Sequence(u) /\ Len(u) = 4 /\ u[1] = a /\ u[2] = b /\ u[3] = c /\ u[4] = e
      /\ Sequence(s) /\ Len(s) = 2 /\ s[1] = a /\ s[2] = b
      /\ Sequence(t) /\ Len(t) = 2 /\ t[1] = c /\ t[2] = e
  BY TurnsAre
<1> HIDE DEF s, t, u
<1>2. \A i \in 1 .. 4 : u[i] = IF i <= Len(s) THEN s[i] ELSE t[i - Len(s)]
  BY <1>1, OneOfFour
<1>4. Len(s) + Len(t) = 4  BY <1>1
<1>3. s \o t = u  BY <1>1, <1>2, <1>4, FourAre
<1> QED  BY <1>3 DEF s, t, u

LEMMA OneAndOne ==
  ASSUME NEW a, NEW b PROVE <<a>> \o <<b>> = <<a, b>>
<1> DEFINE s == <<a>>
           t == <<b>>
           v == s \o t
           w == <<a, b>>
<1>1. /\ Sequence(s) /\ Len(s) = 1 /\ s[1] = a /\ Sequence(t) /\ Len(t) = 1 /\ t[1] = b
      /\ Sequence(w) /\ Len(w) = 2 /\ w[1] = a /\ w[2] = b
  BY TurnsAre, Zenon
<1> HIDE DEF s, t, w
<1>2. Sequence(v) /\ Len(v) = 2 /\ \A i \in 1 .. 2 : v[i] = IF i <= Len(s) THEN s[i] ELSE t[i - Len(s)]
  BY <1>1, Joined
<1> HIDE DEF v
<1>3. \A i \in 1 .. 2 : i = 1 \/ i = 2  OBVIOUS
<1>4. \A i \in 1 .. Len(v) : v[i] = w[i]  BY <1>1, <1>2, <1>3
<1>5. v = w  BY <1>1, <1>2, <1>4, SameSequence
<1> QED  BY <1>5 DEF v, s, t, w

LEMMA Chained ==
  ASSUME NEW a, NEW b, NEW c, NEW e
  PROVE  FlattenSeq(<<<<a, b>>, <<c, e>>>>) = <<a, b, c, e>>
<1> DEFINE s == <<<<a, b>>, <<c, e>>>>
           Is(f) == f = [i \in 1 .. Len(s) |-> IF i = 1 THEN s[i] ELSE f[i - 1] \o s[i]]
           g == [i \in 1 .. 2 |-> IF i = 1 THEN <<a, b>> ELSE <<a, b, c, e>>]
           f == CHOOSE f : Is(f)
<1>1. Len(s) = 2 /\ s[1] = <<a, b>> /\ s[2] = <<c, e>>  OBVIOUS
<1>2. Is(g)
  <2>1. \A i \in 1 .. 2 : i = 1 \/ i = 2  OBVIOUS
  <2>2. g[1] = <<a, b>>  OBVIOUS
  <2>6. g[2] = <<a, b, c, e>>
    <3>1. 2 \in 1 .. 2 /\ ~ (2 = 1)  OBVIOUS
    <3> QED  BY <3>1
  <2>7. <<a, b>> \o <<c, e>> = <<a, b, c, e>>  BY TwoAndTwo
  <2>3. \A i \in 1 .. 2 : g[i] = IF i = 1 THEN s[i] ELSE g[i - 1] \o s[i]
    <3> SUFFICES ASSUME NEW i \in 1 .. 2
                 PROVE  g[i] = IF i = 1 THEN s[i] ELSE g[i - 1] \o s[i]
      OBVIOUS
    <3> HIDE DEF s, g
    <3>1. CASE i = 1  BY <1>1, <2>2, <3>1
    <3>2. CASE i = 2
      <4>1. g[i - 1] = g[1] /\ i # 1  BY <3>2
      <4> QED  BY <1>1, <2>2, <2>6, <2>7, <3>2, <4>1
    <3> QED  BY <2>1, <3>1, <3>2
  <2> HIDE DEF s
  <2>4. g = [i \in 1 .. 2 |-> g[i]]  OBVIOUS
  <2> HIDE DEF g
  <2> QED  BY <1>1, <2>3, <2>4
<1>3. Is(f)
  <2> HIDE DEF Is, g
  <2> QED  BY <1>2
<1>4. FlattenSeq(s) = f[2]  BY <1>1 DEF FlattenSeq
<1> HIDE DEF f, s
<1>5. f[1] = s[1] /\ f[2] = f[1] \o s[2]
  <2>1. 1 \in 1 .. 2 /\ 2 \in 1 .. 2 /\ 2 # 1 /\ 2 - 1 = 1  OBVIOUS
  <2>2. f = [i \in 1 .. 2 |-> IF i = 1 THEN s[i] ELSE f[i - 1] \o s[i]]  BY <1>1, <1>3
  <2> QED  BY <2>1, <2>2
<1>6. FlattenSeq(s) = <<a, b>> \o <<c, e>>  BY <1>1, <1>4, <1>5
<1> QED  BY <1>6, TwoAndTwo DEF s

(* What a call hashes.                                                      *)
LEMMA CallIs ==
  ASSUME NEW x, NEW command
  PROVE  /\ CallOf(x, command).data = x /\ CallOf(x, command).command = command
         /\ CallOf(x, command).claim = << >>
BY DEF CallOf

LEMMA DataIs ==
  ASSUME Plain(Call.data)
  PROVE  DataOf(Call) = Call.data /\ Sequence(DataOf(Call))
BY PlainIs DEF DataOf

-----------------------------------------------------------------------------
(* What a step leaves alone.                                                *)
LEMMA KeyStays ==
  ASSUME NEW n \in Message, KeyKept(n), sha.from # n, UNCHANGED keyring,
         request'[n] = request[n], result'[n] = result[n],
         token = n => token' = n,
         sha.at = "wait" /\ shaQueue = <<n>> => sha'.at = "wait" /\ shaQueue' = <<n>>
  PROVE  KeyKept(n)'
BY DEF KeyKept, Secret

LEMMA OthersStay ==
  ASSUME NEW n \in Message, ThreadOK(n), KeyKept(n)', sha.from # n,
         request'[n] = request[n], result'[n] = result[n], told'[n] = told[n], ctx'[n] = ctx[n],
         answer'[n] = answer[n]
  PROVE  ThreadOK(n)'
<1>1. RequestShape(n)'
  <2>1. RequestShape(n)  BY DEF ThreadOK
  <2> QED  BY <2>1 DEF RequestShape, ClaimOK
<1>2. ToldOK(n)'
  <2>1. ToldOK(n) /\ ~ InUse(n) /\ (UsedUp(n)' <=> UsedUp(n))  BY DEF ThreadOK, InUse, UsedUp
  <2> QED  BY <2>1 DEF ToldOK, InUse
<1>3. AnswerOK(n)'
  <2>1. AnswerOK(n)  BY DEF ThreadOK
  <2> QED  BY <2>1 DEF AnswerOK, Genuine, Owes
<1> QED  BY <1>1, <1>2, <1>3 DEF ThreadOK

(* The thread has one request in its hands.                                 *)
LEMMA InShaHands ==
  ASSUME IInv, Digests, sha.at # "wait"
  PROVE  LET m == sha.from
         IN /\ m \in Message /\ m # NULL /\ result[m] = "busy" /\ m \in ForSha
            /\ request[m].kind \in {"sha", "mac", "verify"} /\ ~ WrongCount(request[m])
            /\ ThreadOK(m) /\ RequestShape(m) /\ ToldOK(m) /\ ServedIs /\ CmdIs
            /\ Context = IF request[m].kind = "verify" THEN NULL ELSE m
<1> DEFINE m == sha.from
<1>1. /\ ShaTypes /\ ShaHas  BY DEF IInv, ShaOK
<1>2. m \in Message /\ m # NULL  BY <1>1 DEF ShaTypes
<1>3. m \in ForSha /\ ~ WrongCount(request[m])
  <2>1. shaQueue \in Seq(Message) /\ Has(shaQueue, m, ForSha)  BY <1>1 DEF ShaTypes, ShaHas
  <2> QED  BY <1>1, <1>2, <2>1, HasEnd DEF ShaHas
<1>4. result[m] = "busy" /\ request[m].src = NULL  BY <1>3 DEF ForSha
<1>5. ThreadOK(m) /\ RequestShape(m) /\ ToldOK(m)  BY <1>2 DEF Digests, ThreadOK
<1>6. request[m].kind \in {"sha", "mac", "verify"}
  <2>1. request[m].kind \in {"sha", "mac", "plain", "verify", NULL}
    BY <1>4, <1>5 DEF RequestShape
  <2>2. request[m].kind # NULL  BY <1>4, <1>5 DEF RequestShape
  <2>3. request[m].kind # "plain"  BY <1>3 DEF WrongCount
  <2> QED  BY <2>1, <2>2, <2>3
<1>7. Context = IF request[m].kind = "verify" THEN NULL ELSE m  BY DEF Context, Caller
<1>8. Context \in DOMAIN ctx  BY <1>2, <1>7 DEF Digests, Domains
<1>9. ServedIs  BY <1>1, <1>8 DEF ServedIs, ShaTypes
<1>10. CmdIs  BY <1>1 DEF ShaTypes, CmdIs
<1> QED  BY <1>2, <1>3, <1>4, <1>5, <1>6, <1>7, <1>9, <1>10

OnlyFor(m) ==
  /\ UNCHANGED <<request, token, keyring>> /\ Domains'
  /\ \A n \in Message \ {m} : /\ result'[n] = result[n] /\ told'[n] = told[n] /\ ctx'[n] = ctx[n]
                              /\ answer'[n] = answer[n]
LEMMA HandlerKeeps ==
  ASSUME IInv, Digests, sha.at # "wait", NEW m \in Message, m = sha.from, OnlyFor(m), ThreadOK(m)'
  PROVE  Domains' /\ \A n \in Message : ThreadOK(n)'
<1>1. ASSUME NEW n \in Message \ {m} PROVE ThreadOK(n)'
  <2>1. /\ request'[n] = request[n] /\ result'[n] = result[n] /\ told'[n] = told[n]
        /\ ctx'[n] = ctx[n] /\ answer'[n] = answer[n] /\ UNCHANGED <<token, keyring>>
    BY <1>1 DEF OnlyFor
  <2>2. ThreadOK(n) /\ KeyKept(n) /\ m # n  BY <1>1 DEF Digests, ThreadOK
  <2>3. KeyKept(n)'  BY <2>1, <2>2, KeyStays
  <2> QED  BY <2>1, <2>2, <2>3, OthersStay
<1> QED  BY <1>1 DEF OnlyFor

(* What is said of the request in hand by a step that keeps it, by one that *)
(* fails it, and by one that answers it.                                    *)
LEMMA MineGoesOn ==
  ASSUME NEW m \in Message, ThreadOK(m), result[m] = "busy",
         request'[m] = request[m], result'[m] = result[m], told'[m] = told[m], sha'.from = m,
         request[m].kind = "verify" => ctx'[m] = ctx[m]
  PROVE  ThreadOK(m)'
<1>1. RequestShape(m)'
  <2>1. RequestShape(m)  BY DEF ThreadOK
  <2> QED  BY <2>1 DEF RequestShape, ClaimOK
<1>2. KeyKept(m)'  BY DEF KeyKept
<1>3. ToldOK(m)'
  <2>1. ToldOK(m) /\ ~ UsedUp(m)  BY DEF ThreadOK, UsedUp
  <2>2. CASE request[m].kind = "verify"
    <3>1. ~ InUse(m) /\ ctx'[m] = ctx[m]  BY <2>2 DEF InUse
    <3> QED  BY <2>1, <3>1 DEF ToldOK
  <2>3. CASE request[m].kind # "verify"
    <3>1. InUse(m)'  BY <2>3 DEF InUse
    <3> QED  BY <2>1, <3>1 DEF ToldOK
  <2> QED  BY <2>2, <2>3
<1>4. AnswerOK(m)'  BY DEF AnswerOK
<1> QED  BY <1>1, <1>2, <1>3, <1>4 DEF ThreadOK

LEMMA MineFails ==
  ASSUME NEW m \in Message, RequestShape(m), request[m].kind # NULL,
         request'[m] = request[m], result'[m] = "failed",
         told'[m] = NothingTold
  PROVE  ThreadOK(m)'
<1>1. RequestShape(m)'  BY DEF RequestShape, ClaimOK
<1>2. KeyKept(m)'  BY DEF KeyKept
<1>3. ToldOK(m)'
  <2>1. told'[m] = [sound |-> FALSE, key |-> NULL, data |-> << >>]  BY DEF NothingTold
  <2>2. told'[m].sound = FALSE /\ told'[m].key = NULL /\ told'[m].data = << >>  BY <2>1
  <2> QED  BY <2>1, <2>2, PlainNothing DEF ToldOK
<1>4. AnswerOK(m)'  BY DEF AnswerOK
<1> QED  BY <1>1, <1>2, <1>3, <1>4 DEF ThreadOK

(* What is told after a request.                                            *)
LEMMA PromisedIs ==
  ASSUME NEW m \in Message, RequestShape(m), ToldOK(m), request[m].kind \in {"sha", "mac", "verify"}
  PROVE  LET r == request[m]
             t == told[m]
             p == Promised(m)
         IN /\ p = [sound |-> p.sound, key |-> p.key, data |-> p.data]
            /\ p.sound \in BOOLEAN /\ Plain(p.data)
            /\ r.kind = "verify" => p = t
            /\ r.kind # "verify" =>
                 /\ Plain(r.custom) /\ Plain(r.input) /\ Plain(r.custom \o r.input)
                 /\ r.command \in Command
                 /\ p.key = IF r.command = "init" THEN r.secret ELSE t.key
                 /\ p.data = IF r.command = "init" THEN r.custom \o r.input
                             ELSE t.data \o (r.custom \o r.input)
                 /\ p.sound =>
                      /\ ~ r.hurried
                      /\ r.command # "init" => t.sound /\ ((t.key = NULL) <=> (r.kind = "sha"))
                      /\ r.command = "init" /\ r.kind = "sha" =>
                           Len(r.custom \o r.input) \notin 1 .. Block - 1
<1> DEFINE r == request[m]
           t == told[m]
           p == Promised(m)
           new == r.custom \o r.input
<1>1. t = [sound |-> t.sound, key |-> t.key, data |-> t.data] /\ t.sound \in BOOLEAN /\ Plain(t.data)
  BY DEF ToldOK
<1>2. CASE r.kind = "verify"
  <2>1. p = t  BY <1>2 DEF Promised, Told
  <2> HIDE DEF p
  <2> QED  BY <1>1, <1>2, <2>1 DEF p
<1>3. CASE r.kind # "verify"
  <2>1. Plain(r.custom) /\ Plain(r.input) /\ r.command \in Command
    BY <1>3, PlainNothing DEF RequestShape
  <2>2. Plain(new)  BY <2>1, PlainJoined
  <2> DEFINE fits == r.command = "init" \/ (t.sound /\ (t.key = NULL) = (r.kind = "sha"))
             short == r.command = "init" /\ r.kind = "sha" /\ Len(new) \in 1 .. Block - 1
             key == IF r.command = "init" THEN r.secret ELSE t.key
             data == IF r.command = "init" THEN new ELSE t.data \o new
  <2>3. p = [sound |-> fits /\ ~ short /\ ~ r.hurried, key |-> key, data |-> data]
    BY <1>3 DEF Promised, Told
  <2>4. Plain(data)  BY <1>1, <2>2, PlainJoined
  <2> HIDE DEF p
  <2>5. p.sound = (fits /\ ~ short /\ ~ r.hurried) /\ p.key = key /\ p.data = data  BY <2>3
  <2>6. p = [sound |-> p.sound, key |-> p.key, data |-> p.data] /\ p.sound \in BOOLEAN
    <3>1. (fits /\ ~ short /\ ~ r.hurried) \in BOOLEAN  OBVIOUS
    <3> QED  BY <2>3, <2>5, <3>1
  <2>7. p.sound => fits /\ ~ short /\ ~ r.hurried  BY <2>5
  <2> QED  BY <1>3, <2>1, <2>2, <2>4, <2>5, <2>6, <2>7 DEF p
<1> QED  BY <1>2, <1>3

LEMMA MineEnds ==
  ASSUME NEW m \in Message, RequestShape(m), ToldOK(m), result[m] = "busy",
         request[m].kind \in {"sha", "mac", "verify"},
         request'[m] = request[m], result'[m] = "ok", NEW sound \in BOOLEAN,
         told'[m] = [Promised(m) EXCEPT !.sound = Promised(m).sound /\ sound],
         request[m].kind = "verify" => Genuine(m) /\ ctx'[m] = ctx[m],
         request[m].kind # "verify" /\ Promised(m).sound /\ sound =>
           IF request[m].command = "finalize" THEN answer'[m] = Expected(Promised(m), request[m])
           ELSE ctx'[m] = Holding(Goal(m)) /\ Full(Goal(m))
  PROVE  ThreadOK(m)'
<1> DEFINE r == request[m]
           t == told[m]
           p == Promised(m)
<1>1. /\ p = [sound |-> p.sound, key |-> p.key, data |-> p.data]
      /\ p.sound \in BOOLEAN /\ Plain(p.data) /\ (r.kind = "verify" => p = t)
  BY PromisedIs
<1>2. told'[m] = [p EXCEPT !.sound = p.sound /\ sound]  OBVIOUS
<1> HIDE DEF p
<1>3. /\ told'[m] = [sound |-> p.sound /\ sound, key |-> p.key, data |-> p.data]
      /\ (p.sound /\ sound) \in BOOLEAN
  BY <1>1, <1>2
<1>4. told'[m].sound = (p.sound /\ sound) /\ told'[m].key = p.key /\ told'[m].data = p.data
  BY <1>3
<1>5. RequestShape(m)'  BY DEF RequestShape, ClaimOK
<1>6. KeyKept(m)'  BY DEF KeyKept
<1>7. Said(told'[m]) = Said(p)  BY <1>4 DEF Said, Prefix
<1>8. ToldOK(m)'
  <2>1. /\ told'[m] = [sound |-> told'[m].sound, key |-> told'[m].key, data |-> told'[m].data]
        /\ told'[m].sound \in BOOLEAN /\ Plain(told'[m].data)
    BY <1>1, <1>3, <1>4
  <2>2. ASSUME told'[m].sound, ~ UsedUp(m)'
        PROVE  \/ InUse(m)'
               \/ ctx'[m] = Holding(Said(told'[m])) /\ Full(Said(told'[m]))
    <3>1. p.sound /\ sound /\ r.command # "finalize"  BY <1>4, <2>2 DEF UsedUp
    <3>2. CASE r.kind = "verify"
      <4>1. ~ UsedUp(m) /\ ~ InUse(m) /\ t.sound /\ ctx'[m] = ctx[m] /\ p = t
        BY <1>1, <3>1, <3>2 DEF UsedUp, InUse
      <4>2. ctx[m] = Holding(Said(t)) /\ Full(Said(t))  BY <4>1 DEF ToldOK
      <4> QED  BY <1>7, <4>1, <4>2
    <3>3. CASE r.kind # "verify"
      <4>1. ctx'[m] = Holding(Goal(m)) /\ Full(Goal(m))  BY <3>1, <3>3 DEF p
      <4>2. Goal(m) = Said(p)  BY DEF Goal, p
      <4> QED  BY <1>7, <4>1, <4>2
    <3> QED  BY <3>2, <3>3
  <2> QED  BY <2>1, <2>2 DEF ToldOK
<1>9. AnswerOK(m)'
  <2>1. Genuine(m)'
    <3>1. Genuine(m)
      <4>1. CASE r.kind = "verify"  BY <4>1
      <4>2. CASE r.kind # "verify"
        <5>1. r.claims = << >>  BY <4>2 DEF RequestShape
        <5>2. DOMAIN r.claims = {}  BY <5>1
        <5> QED  BY <5>2 DEF Genuine
      <4> QED  BY <4>1, <4>2
    <3> QED  BY <3>1 DEF Genuine
  <2>2. ASSUME Owes(m)' PROVE answer'[m] = Expected(told'[m], request'[m])
    <3>1. /\ r.kind # "verify" /\ r.command = "finalize" /\ p.sound /\ sound
      BY <1>4, <2>2 DEF Owes
    <3>2. answer'[m] = Expected(p, r)  BY <3>1 DEF p
    <3>3. Expected(told'[m], r) = Expected(p, r)  BY <1>4 DEF Expected
    <3> QED  BY <3>2, <3>3
  <2> QED  BY <2>1, <2>2 DEF AnswerOK
<1> QED  BY <1>5, <1>6, <1>8, <1>9 DEF ThreadOK

-----------------------------------------------------------------------------
(* The next call.                                                           *)
LEMMA NextRegisters ==
  ASSUME NEW d, sha'.at = "next", Call'.command = "init" \/ (ctx'[Context'] = Holding(d) /\ Full(d))
  PROVE  Registers(d)'
<1>1. CASE Call'.command = "init"  BY <1>1 DEF Registers, Engine
<1>2. CASE Call'.command # "init"
  <2>1. Before(Call, d)' = d  BY <1>2 DEF Before
  <2> QED  BY <1>2, <2>1 DEF Registers, Engine
<1> QED  BY <1>1, <1>2

(* In each place of its calls, what the thread hashes next.                 *)
Serves(m, d) == /\ Sequence(d) /\ Registers(d)
                /\ IF request[m].kind = "verify" THEN Verifying(m, d) ELSE Hashing(m, d)
LEMMA ServesStay ==
  ASSUME NEW m, NEW d, UNCHANGED <<request, told>>, sha'.todo = sha.todo,
         sha'.final = sha.final, sha'.good = sha.good, Serves(m, d), Registers(d)'
  PROVE  Serves(m, d)'
<1>1. Goal(m)' = Goal(m)  BY DEF Goal, Promised
<1>2. Verifying(m, d) => Verifying(m, d)'  BY DEF Verifying, Filled, Checked, Right
<1>3. Hashing(m, d) => Hashing(m, d)'  BY <1>1, Zenon DEF Hashing, Feeding
<1> QED  BY <1>2, <1>3 DEF Serves

LEMMA OnToNext ==
  ASSUME ServedIs, Proceeds, Len(sha.todo) # 1, UNCHANGED request
  PROVE  /\ GoesOn /\ sha'.at = "next" /\ sha'.from = sha.from /\ sha'.todo = Tail(sha.todo)
         /\ sha'.final = sha.final /\ sha'.good = sha.good
         /\ Call' = Head(Tail(sha.todo)) /\ Context' = Context
<1>1. sha' = [sha EXCEPT !.at = "next", !.todo = Tail(@)] /\ GoesOn  BY DEF Proceeds
<1>2. sha' = [ at |-> "next", from |-> sha.from, todo |-> Tail(sha.todo), final |-> sha.final,
               good |-> sha.good ]
  BY <1>1 DEF ServedIs
<1>3. /\ sha'.at = "next" /\ sha'.from = sha.from /\ sha'.todo = Tail(sha.todo)
      /\ sha'.final = sha.final /\ sha'.good = sha.good
  BY <1>2
<1> QED  BY <1>1, <1>3 DEF Call, Context, Caller

LEMMA OuterIs ==
  ASSUME NEW r
  PROVE  /\ Outer(r).command = "init" /\ Outer(r).data = Key("outer", r.secret) /\ Outer(r).claim = << >>
         /\ Plain(Outer(r).data) /\ Len(Outer(r).data) = Block
BY CallIs, KeyIs DEF Outer

LEMMA FinalCallIs ==
  /\ FinalCall.command = "finalize" /\ FinalCall.data = <<<<"final">>>> /\ FinalCall.claim = << >>
BY CallIs DEF FinalCall

LEMMA CheckIs ==
  ASSUME NEW c, Plain(c.data)
  PROVE  /\ Filled(c).command = "init" /\ Filled(c).data = Whole(c.data) /\ Filled(c).claim = << >>
         /\ Checked(c).command = "finalize" /\ Checked(c).data = Rest(c.data) /\ Checked(c).claim = c.hash
         /\ Plain(Whole(c.data)) /\ Plain(Rest(c.data)) /\ Full(Whole(c.data))
         /\ Len(Whole(c.data)) \in Nat /\ Len(Whole(c.data)) \div Block = Len(c.data) \div Block
         /\ Len(Rest(c.data)) \in Nat /\ Len(Rest(c.data)) < Block
         /\ Whole(c.data) \o Rest(c.data) = c.data
<1>1. Sequence(c.data)  BY DEF Plain
<1>2. /\ Filled(c).command = "init" /\ Filled(c).data = Whole(c.data) /\ Filled(c).claim = << >>
      /\ Checked(c).command = "finalize" /\ Checked(c).data = Rest(c.data) /\ Checked(c).claim = c.hash
  BY CallIs DEF Filled, Checked
<1>3. Plain(Whole(c.data)) /\ Plain(Rest(c.data))  BY PlainParts
<1>4. /\ Full(Whole(c.data)) /\ Len(Whole(c.data)) \div Block = Len(c.data) \div Block
      /\ Len(Rest(c.data)) = Len(c.data) % Block /\ Whole(c.data) \o Rest(c.data) = c.data
      /\ Sequence(Whole(c.data)) /\ Sequence(Rest(c.data))
  BY <1>1, WholeAndRest
<1>5. Len(c.data) \in Nat /\ Len(Whole(c.data)) \in Nat /\ Len(Rest(c.data)) \in Nat
  BY <1>1, <1>4, SequenceFacts
<1>6. Len(Rest(c.data)) < Block
  <2> DEFINE n == Len(c.data) % Block
  <2>1. n \in 0 .. Block - 1  BY <1>5, Quotient
  <2>2. Len(Rest(c.data)) = n  BY <1>4
  <2>3. Block \in Nat  BY BlockSize
  <2> HIDE DEF n
  <2> QED  BY <2>1, <2>2, <2>3
<1> QED  BY <1>2, <1>3, <1>4, <1>5, <1>6

(* A call of a verification, and of a hash or a MAC.                        *)
LEMMA VerifyingCalls ==
  ASSUME NEW m \in Message, RequestShape(m), request[m].kind = "verify", NEW d, Verifying(m, d)
  PROVE  /\ Plain(Call.data) /\ DataOf(Call) = Call.data /\ Sequence(DataOf(Call))
         /\ Call.command = "init" => Len(DataOf(Call)) \notin 1 .. Block - 1
         /\ Call.command \in {"init", "finalize"} /\ ~ Refused
<1> DEFINE c1 == request[m].claims[1]
           c2 == request[m].claims[2]
<1>1. ClaimOK(c1) /\ ClaimOK(c2)  BY DEF RequestShape
<1> HIDE DEF c1, c2
<1>2. Call \in {Filled(c1), Checked(c1), Filled(c2), Checked(c2)}
  <2>1. \/ sha.todo = <<Filled(c1), Checked(c1), Filled(c2), Checked(c2)>>
        \/ sha.todo = <<Checked(c1), Filled(c2), Checked(c2)>>
        \/ sha.todo = <<Filled(c2), Checked(c2)>>
        \/ sha.todo = <<Checked(c2)>>
    BY DEF Verifying, c1, c2
  <2> QED  BY <2>1, Turns DEF Call
<1>3. ASSUME NEW c, ClaimOK(c), Call = Filled(c) \/ Call = Checked(c)
      PROVE  /\ Plain(Call.data) /\ DataOf(Call) = Call.data /\ Sequence(DataOf(Call))
             /\ Call.command = "init" => Len(DataOf(Call)) \notin 1 .. Block - 1
             /\ Call.command \in {"init", "finalize"} /\ ~ Refused
  <2>1. Plain(c.data) /\ Len(c.data) \div Block <= MaxBlocks  BY <1>3 DEF ClaimOK
  <2>2. /\ Filled(c).command = "init" /\ Filled(c).data = Whole(c.data)
        /\ Checked(c).command = "finalize" /\ Checked(c).data = Rest(c.data)
        /\ Plain(Whole(c.data)) /\ Plain(Rest(c.data)) /\ Full(Whole(c.data))
        /\ Len(Whole(c.data)) \in Nat /\ Len(Whole(c.data)) \div Block = Len(c.data) \div Block
        /\ Len(Rest(c.data)) \in Nat /\ Len(Rest(c.data)) < Block
    BY <2>1, CheckIs
  <2>3. CASE Call = Filled(c)
    <3>1. Plain(Call.data)  BY <2>2, <2>3
    <3>2. DataOf(Call) = Call.data /\ Sequence(DataOf(Call))  BY <3>1, DataIs
    <3> DEFINE n == Len(DataOf(Call))
    <3>3. n \in Nat /\ n % Block = 0 /\ n \div Block <= MaxBlocks /\ Call.command = "init"
      BY <2>1, <2>2, <2>3, <3>2 DEF Full
    <3>4. n \notin 1 .. Block - 1
      <4> HIDE DEF n
      <4> SUFFICES ASSUME n \in 1 .. Block - 1 PROVE FALSE  OBVIOUS
      <4>1. n = 0 * Block + n /\ n \in 0 .. Block - 1 /\ 0 \in Nat  BY BlockSize
      <4>2. n % Block = n  BY <4>1, QuotientIs
      <4> QED  BY <3>3, <4>2
    <3>5. ~ Refused
      <4>1. ~ (n \div Block > MaxBlocks)
        <5>1. n \div Block \in Nat /\ MaxBlocks \in Nat  BY <3>3, Quotient, BlockSize
        <5> HIDE DEF n
        <5> QED  BY <3>3, <5>1
      <4> QED  BY <3>3, <4>1 DEF Refused
    <3> QED  BY <3>1, <3>2, <3>3, <3>4, <3>5
  <2>4. CASE Call = Checked(c)
    <3>1. Plain(Call.data)  BY <2>2, <2>4
    <3>2. DataOf(Call) = Call.data /\ Sequence(DataOf(Call))  BY <3>1, DataIs
    <3>3. Call.command = "finalize" /\ Len(DataOf(Call)) \in Nat /\ Len(DataOf(Call)) < Block
      BY <2>2, <2>4, <3>2
    <3>4. ~ Refused
      <4>1. ~ (Len(DataOf(Call)) >= Block)  BY <3>3, BlockSize
      <4> QED  BY <4>1 DEF Refused
    <3> QED  BY <3>1, <3>2, <3>3, <3>4
  <2> QED  BY <1>3, <2>3, <2>4
<1> QED  BY <1>1, <1>2, <1>3

LEMMA HashingCalls ==
  ASSUME NEW m \in Message, RequestShape(m), request[m].kind \in {"sha", "mac"}, NEW d, Hashing(m, d)
  PROVE  /\ Call = FinalCall \/ (Plain(Call.data) /\ DataOf(Call) = Call.data)
         /\ Sequence(DataOf(Call))
         /\ Call.command = "init" => Len(DataOf(Call)) \notin 1 .. Block - 1
<1> DEFINE r == request[m]
<1>1. Plain(r.input) /\ Plain(r.custom)  BY PlainNothing DEF RequestShape
<1>2. \/ Feeding(Call) \/ Call = CallOf(r.input, "finalize") \/ Call = CallOf(r.custom, "contribute")
      \/ Call = Outer(r) \/ Call = FinalCall
  <2>1. Call = Head(sha.todo)  BY DEF Call
  <2>2. \/ Len(sha.todo) = 1 /\ sha.todo = <<sha.todo[1]>> /\ Feeding(sha.todo[1])
        \/ Len(sha.todo) = 2 /\ sha.todo = <<sha.todo[1], sha.todo[2]>> /\ Feeding(sha.todo[1])
        \/ sha.todo = <<CallOf(r.input, "finalize")>>
        \/ sha.todo = <<CallOf(r.custom, "contribute"), CallOf(r.input, "finalize"), Outer(r), FinalCall>>
        \/ sha.todo = <<CallOf(r.input, "finalize"), Outer(r), FinalCall>>
        \/ sha.todo = <<Outer(r), FinalCall>>
        \/ sha.todo = <<FinalCall>>
    BY DEF Hashing
  <2>3. ASSUME NEW a, sha.todo = <<a>> PROVE Call = a  BY <2>1, <2>3, Turns
  <2>4. ASSUME NEW a, NEW b, sha.todo = <<a, b>> PROVE Call = a  BY <2>1, <2>4, Turns
  <2>5. ASSUME NEW a, NEW b, NEW c, sha.todo = <<a, b, c>> PROVE Call = a  BY <2>1, <2>5, Turns
  <2>6. ASSUME NEW a, NEW b, NEW c, NEW e, sha.todo = <<a, b, c, e>> PROVE Call = a
    BY <2>1, <2>6, Turns
  <2> QED  BY <2>2, <2>3, <2>4, <2>5, <2>6
<1>3. CASE Call = FinalCall
  <2>1. DataOf(Call) = <<<<"digest", sha.final>>>> /\ Call.command = "finalize"
    BY <1>3, FinalCallIs DEF DataOf
  <2> QED  BY <1>3, <2>1, One
<1>4. CASE Call # FinalCall
  <2>1. Plain(Call.data) /\ (Call.command = "init" => Len(Call.data) \notin 1 .. Block - 1)
    <3>1. CASE Feeding(Call)  BY <3>1 DEF Feeding
    <3>2. CASE Call = CallOf(r.input, "finalize")  BY <1>1, <3>2, CallIs
    <3>3. CASE Call = CallOf(r.custom, "contribute")  BY <1>1, <3>3, CallIs
    <3>4. CASE Call = Outer(r)  BY <3>4, OuterIs, BlockSize
    <3> QED  BY <1>2, <1>4, <3>1, <3>2, <3>3, <3>4
  <2> QED  BY <2>1, DataIs
<1> QED  BY <1>3, <1>4

(* After a call that is not a final one its context holds what was fed, and *)
(* the thread is done or goes on to the next call.                          *)
Proceeded(m, e) ==
  \/ /\ Ends(TRUE) /\ request[m].kind # "verify" /\ request[m].command # "finalize"
     /\ e = Goal(m)
  \/ GoesOn /\ sha'.at = "next" /\ sha'.from = m /\ Serves(m, e)'

LEMMA VerifyingProceeds ==
  ASSUME NEW m \in Message, m = sha.from, RequestShape(m), request[m].kind = "verify", ServedIs,
         UNCHANGED request, NEW d, NEW e, e = Fed(d), Sequence(e), Verifying(m, d),
         Call.command # "finalize", Proceeds, ctx'[Context] = Holding(e) /\ Full(e)
  PROVE  Proceeded(m, e)
<1> DEFINE c1 == request[m].claims[1]
           c2 == request[m].claims[2]
<1>1. Plain(c1.data) /\ Plain(c2.data)  BY DEF RequestShape, ClaimOK
<1>2. DataOf(Call) = Call.data  BY VerifyingCalls
<1>3. c1' = c1 /\ c2' = c2  OBVIOUS
<1>4. e = Before(Call, d) \o Call.data  BY <1>2 DEF Fed
<1> HIDE DEF c1, c2
<1>5. /\ Filled(c1).command = "init" /\ Checked(c1).command = "finalize"
      /\ Filled(c2).command = "init" /\ Checked(c2).command = "finalize"
      /\ Filled(c1).data = Whole(c1.data) /\ Filled(c2).data = Whole(c2.data)
      /\ Plain(Whole(c1.data)) /\ Plain(Whole(c2.data))
  BY <1>1, CheckIs
<1>6. \A w : Plain(w) => << >> \o w = w  BY PlainIs, JoinedEmpty
<1>7. CASE sha.todo = <<Filled(c1), Checked(c1), Filled(c2), Checked(c2)>>
  <2>1. Len(sha.todo) = 4 /\ Tail(sha.todo) = <<Checked(c1), Filled(c2), Checked(c2)>> /\ Call = Filled(c1)
    BY <1>7, Turns DEF Call
  <2>2. /\ GoesOn /\ sha'.at = "next" /\ sha'.from = m /\ sha'.todo = Tail(sha.todo)
        /\ Context' = Context
    BY <2>1, OnToNext
  <2>3. e = Whole(c1.data)
    <3>1. Before(Call, d) = << >>  BY <1>5, <2>1 DEF Before
    <3> QED  BY <1>4, <1>5, <1>6, <2>1, <3>1
  <2>4. Verifying(m, e)'  BY <1>3, <2>1, <2>2, <2>3, Zenon DEF Verifying, c1, c2, Filled, Checked
  <2>5. Registers(e)'  BY <2>2, NextRegisters
  <2> QED  BY <2>2, <2>4, <2>5 DEF Serves, Proceeded
<1>8. CASE sha.todo = <<Filled(c2), Checked(c2)>> /\ Right(c1)
  <2>1. Len(sha.todo) = 2 /\ Tail(sha.todo) = <<Checked(c2)>> /\ Call = Filled(c2)
    BY <1>8, Turns DEF Call
  <2>2. /\ GoesOn /\ sha'.at = "next" /\ sha'.from = m /\ sha'.todo = Tail(sha.todo)
        /\ Context' = Context
    BY <2>1, OnToNext
  <2>3. e = Whole(c2.data)
    <3>1. Before(Call, d) = << >>  BY <1>5, <2>1 DEF Before
    <3> QED  BY <1>4, <1>5, <1>6, <2>1, <3>1
  <2>4. Verifying(m, e)'  BY <1>3, <1>8, <2>1, <2>2, <2>3, Zenon DEF Verifying, c1, c2, Filled, Checked, Right
  <2>5. Registers(e)'  BY <2>2, NextRegisters
  <2> QED  BY <2>2, <2>4, <2>5 DEF Serves, Proceeded
<1>9. sha.todo # <<Checked(c1), Filled(c2), Checked(c2)>> /\ sha.todo # <<Checked(c2)>>
  BY <1>5, Turns DEF Call
<1> QED  BY <1>7, <1>8, <1>9 DEF Verifying, c1, c2

LEMMA HashingProceeds ==
  ASSUME NEW m \in Message, m = sha.from, RequestShape(m), request[m].kind \in {"sha", "mac"}, ServedIs,
         UNCHANGED <<request, told>> \/ ~ GoesOn, NEW d, NEW e, e = Fed(d), Sequence(e), Sequence(d),
         Hashing(m, d), UNCHANGED request,
         Call.command # "finalize", Proceeds, ctx'[Context] = Holding(e) /\ Full(e)
  PROVE  Proceeded(m, e)
<1> DEFINE r == request[m]
           todo == sha.todo
           goal == Goal(m)
<1>1. Call = FinalCall \/ DataOf(Call) = Call.data  BY HashingCalls
<1>2. Call # FinalCall  BY FinalCallIs
<1>3. e = Before(Call, d) \o Call.data  BY <1>1, <1>2 DEF Fed
<1>4. Call = Head(todo)  BY DEF Call
<1>5. ASSUME Len(todo) # 1, Hashing(m, e)' PROVE Proceeded(m, e)
  <2>1. GoesOn /\ sha'.at = "next" /\ sha'.from = m /\ Context' = Context
    BY <1>5, OnToNext
  <2>2. Registers(e)'  BY <2>1, NextRegisters
  <2>3. r.kind # "verify" /\ request'[m] = r  OBVIOUS
  <2> QED  BY <1>5, <2>1, <2>2, <2>3 DEF Proceeded, Serves
<1>6. ASSUME Len(todo) # 1
      PROVE  /\ sha'.todo = Tail(todo) /\ sha'.final = sha.final /\ sha'.good = sha.good
             /\ request'[m] = request[m] /\ Goal(m)' = Goal(m)
  <2>1. sha'.todo = Tail(todo) /\ sha'.final = sha.final /\ sha'.good = sha.good /\ GoesOn
    BY <1>6, OnToNext
  <2>2. Goal(m)' = Goal(m)  BY <2>1 DEF Goal, Promised, GoesOn
  <2> QED  BY <2>1, <2>2
<1>7. CASE r.command # "finalize"
  <2>1. CASE Len(todo) = 1 /\ todo = <<todo[1]>> /\ Before(todo[1], d) \o todo[1].data = goal
    <3>1. Call = todo[1]  BY <1>4, <2>1, Turns
    <3>2. e = goal  BY <1>3, <2>1, <3>1
    <3>3. Ends(TRUE)  BY <2>1 DEF Proceeds
    <3> QED  BY <1>7, <3>2, <3>3 DEF Proceeded
  <2>2. CASE /\ Len(todo) = 2 /\ todo = <<todo[1], todo[2]>> /\ Feeding(todo[2])
             /\ todo[2].command = "contribute"
             /\ (Before(todo[1], d) \o todo[1].data) \o todo[2].data = goal
    <3> DEFINE a == todo[1]
               b == todo[2]
    <3>7. todo = <<a, b>>  BY <2>2
    <3>8. (Before(a, d) \o a.data) \o b.data = goal  BY <2>2
    <3>3. Feeding(b) /\ b.command = "contribute"  BY <2>2
    <3> HIDE DEF a, b
    <3>1. Call = a /\ Tail(todo) = <<b>> /\ Len(todo) = 2 /\ Len(todo) # 1  BY <1>4, <3>7, Turns
    <3>2. e \o b.data = goal  BY <1>3, <3>1, <3>8
    <3>4. Before(b, e) = e  BY <3>3 DEF Before
    <3>5. /\ sha'.todo = <<b>> /\ request'[m].command # "finalize" /\ Goal(m)' = goal
      BY <1>6, <1>7, <3>1, Zenon
    <3>6. Len(sha'.todo) = 1 /\ sha'.todo[1] = b /\ sha'.todo = <<sha'.todo[1]>>
      BY <3>5, Turns
    <3>9. Hashing(m, e)'
      <4>2. /\ request'[m].command # "finalize"
            /\ Len(sha'.todo) = 1 /\ sha'.todo = <<sha'.todo[1]>> /\ Feeding(sha'.todo[1])
            /\ Before(sha'.todo[1], e) \o sha'.todo[1].data = Goal(m)'
        BY <3>2, <3>3, <3>4, <3>5, <3>6
      <4> QED  BY <4>2, Zenon DEF Hashing
    <3> QED  BY <1>5, <3>1, <3>9
  <2> QED  BY <1>7, <2>1, <2>2, Zenon DEF Hashing
<1>8. CASE r.command = "finalize"
  <2>1. \/ /\ todo = <<CallOf(r.custom, "contribute"), CallOf(r.input, "finalize"), Outer(r), FinalCall>>
           /\ r.kind = "mac" /\ (d \o r.custom) \o r.input = goal
        \/ r.kind = "mac" /\ todo = <<Outer(r), FinalCall>> /\ (sha.good => sha.final = Digest(goal))
    <3>1. todo # <<CallOf(r.input, "finalize")>> /\ todo # <<FinalCall>>
      BY <1>4, Turns, CallIs, FinalCallIs
    <3>2. todo # <<CallOf(r.input, "finalize"), Outer(r), FinalCall>>
      BY <1>4, Turns, CallIs
    <3> QED  BY <1>8, <3>1, <3>2, Zenon DEF Hashing
  <2>2. CASE /\ todo = <<CallOf(r.custom, "contribute"), CallOf(r.input, "finalize"), Outer(r), FinalCall>>
             /\ r.kind = "mac" /\ (d \o r.custom) \o r.input = goal
    <3>1. /\ Call = CallOf(r.custom, "contribute") /\ Len(todo) = 4 /\ Len(todo) # 1
          /\ Tail(todo) = <<CallOf(r.input, "finalize"), Outer(r), FinalCall>>
      BY <1>4, <2>2, Turns
    <3>2. e = d \o r.custom
      <4>1. Call.command = "contribute" /\ Call.data = r.custom  BY <3>1, CallIs
      <4>2. Before(Call, d) = d  BY <4>1 DEF Before
      <4> QED  BY <1>3, <4>1, <4>2
    <3>3. e \o r.input = goal  BY <2>2, <3>2
    <3>4. r.kind = "mac"  BY <2>2
    <3>5. /\ sha'.todo = <<CallOf(r.input, "finalize"), Outer(r), FinalCall>>
          /\ request'[m] = r /\ Goal(m)' = goal
      BY <1>6, <3>1, Zenon
    <3>6. Hashing(m, e)'  BY <1>8, <3>3, <3>4, <3>5 DEF Hashing, Outer, FinalCall, CallOf
    <3> QED  BY <1>5, <3>1, <3>6
  <2>3. CASE r.kind = "mac" /\ todo = <<Outer(r), FinalCall>> /\ (sha.good => sha.final = Digest(goal))
    <3>1. Call = Outer(r) /\ Len(todo) = 2 /\ Len(todo) # 1 /\ Tail(todo) = <<FinalCall>>
      BY <1>4, <2>3, Turns
    <3>2. e = Key("outer", r.secret)
      <4>1. Call.command = "init" /\ Call.data = Key("outer", r.secret) /\ Plain(Call.data)
        BY <3>1, OuterIs
      <4> QED  BY <1>3, <4>1, PlainIs, JoinedEmpty DEF Before
    <3>4. r.kind = "mac"  BY <2>3
    <3>5. /\ sha'.todo = <<FinalCall>> /\ sha'.final = sha.final /\ sha'.good = sha.good
          /\ request'[m] = r /\ Goal(m)' = goal
      BY <1>6, <3>1
    <3>6. sha'.good => sha'.final = Digest(Goal(m)')  BY <2>3, <3>5
    <3>7. Hashing(m, e)'  BY <1>8, <3>2, <3>4, <3>5, <3>6 DEF Hashing, Outer, FinalCall, CallOf
    <3> QED  BY <1>5, <3>1, <3>7
  <2> QED  BY <2>1, <2>2, <2>3, Zenon
<1> QED  BY <1>7, <1>8

(* After a final call.                                                      *)
LEMMA SpinIs ==
  ASSUME ShaPhase, Finalized, NEW d, Registers(d)
  PROVE  /\ Call.command = "finalize" /\ Fed(d) = d \o DataOf(Call)
         /\ hash = IF shaCmd.failed THEN BlocksOf(Fed(d)) ELSE Digest(Fed(d))
         /\ shaCmd.failed => errors # 0
<1>1. sha.at = "spin" /\ ~ shaCmd.execute  BY DEF Finalized
<1>2. /\ Call.command = "finalize"
      /\ hash = IF shaCmd.failed THEN BlocksOf(Fed(d)) ELSE Digest(Fed(d))
  BY <1>1 DEF Registers, Engine, Fed
<1>3. Before(Call, d) = d  BY <1>2 DEF Before
<1> QED  BY <1>2, <1>3 DEF Fed, ShaPhase

LEMMA FinalizedIs ==
  ASSUME ServedIs, Finalized
  PROVE  \/ /\ Call.claim \notin {<< >>, hash} /\ sha'.at = "panic" /\ sha'.from = sha.from
            /\ GoesOn /\ UNCHANGED answer
         \/ /\ Call.claim \in {<< >>, hash} /\ Len(sha.todo) = 1
            /\ Ends(sha.good /\ ~ shaCmd.failed) /\ answer' = [answer EXCEPT ![sha.from] = hash]
         \/ /\ Call.claim \in {<< >>, hash} /\ Len(sha.todo) # 1
            /\ sha'.at = "next" /\ sha'.from = sha.from /\ sha'.todo = Tail(sha.todo)
            /\ sha'.final = hash /\ sha'.good = ~ shaCmd.failed
            /\ GoesOn /\ UNCHANGED answer
<1>1. CASE Call.claim \notin {<< >>, hash}
  <2>1. sha' = [sha EXCEPT !.at = "panic"] /\ GoesOn /\ UNCHANGED answer
    BY <1>1 DEF Finalized, HMAC_Panic
  <2>2. sha' = [at |-> "panic", from |-> sha.from, todo |-> sha.todo, final |-> sha.final, good |-> sha.good]
    BY <2>1 DEF ServedIs
  <2>3. sha'.at = "panic" /\ sha'.from = sha.from  BY <2>2
  <2> QED  BY <1>1, <2>1, <2>3
<1>2. CASE Call.claim \in {<< >>, hash} /\ Len(sha.todo) = 1
  BY <1>2 DEF Finalized, Caller
<1>3. CASE Call.claim \in {<< >>, hash} /\ Len(sha.todo) # 1
  <2>1. /\ sha' = [sha EXCEPT !.at = "next", !.todo = Tail(@), !.final = hash, !.good = ~ shaCmd.failed]
        /\ GoesOn /\ UNCHANGED answer
    BY <1>3 DEF Finalized
  <2>2. sha' = [at |-> "next", from |-> sha.from, todo |-> Tail(sha.todo), final |-> hash,
                good |-> ~ shaCmd.failed]
    BY <2>1 DEF ServedIs
  <2>3. /\ sha'.at = "next" /\ sha'.from = sha.from /\ sha'.todo = Tail(sha.todo)
        /\ sha'.final = hash /\ sha'.good = ~ shaCmd.failed
    BY <2>2
  <2> QED  BY <1>3, <2>1, <2>3
<1> QED  BY <1>1, <1>2, <1>3

LEMMA ClaimHolds ==
  ASSUME NEW c, ClaimOK(c), c.hash \in {<< >>, hash},
         hash = IF shaCmd.failed THEN BlocksOf(c.data) ELSE Digest(c.data)
  PROVE  Right(c)
<1>1. /\ Len(c.hash) = Len(Digest(c.data)) /\ Sequence(c.data)
      /\ Len(BlocksOf(c.data)) \in Nat /\ Len(BlocksOf(c.data)) < Len(Digest(c.data))
      /\ Len(Digest(c.data)) \in Nat
  <2>1. Sequence(c.data) /\ Len(c.hash) = Len(Digest(c.data))  BY DEF ClaimOK, Plain
  <2>2. Len(BlocksOf(c.data)) \in Nat /\ Len(BlocksOf(c.data)) < Len(Digest(c.data))
    BY <2>1, DigestLength
  <2>3. Sequence(Digest(c.data))
    <3>1. Sequence(<< >>) /\ Full(<< >>) /\ << >> \o c.data = c.data
      BY <2>1, HoldingNothing, NoSequence, JoinedEmpty
    <3> DEFINE last == LastBlocks(Rest(c.data), Len(<< >>) + Len(c.data))
    <3>2. Digest(<< >> \o c.data) = BlocksOf(<< >> \o c.data) \o last /\ Sequence(last)
      BY <2>1, <3>1, Digested
    <3>3. Sequence(BlocksOf(c.data))  BY <2>1, BlocksFacts
    <3> HIDE DEF last
    <3> QED  BY <3>1, <3>2, <3>3, Joined
  <2> QED  BY <2>1, <2>2, <2>3, SequenceFacts
<1>2. c.hash # << >>
  <2> SUFFICES ASSUME c.hash = << >> PROVE FALSE  OBVIOUS
  <2>1. Len(c.hash) = 0  BY NoSequence
  <2> QED  BY <1>1, <2>1
<1>3. c.hash = hash  BY <1>2
<1>4. CASE shaCmd.failed
  <2>1. c.hash = BlocksOf(c.data)  BY <1>3, <1>4
  <2> QED  BY <1>1, <2>1
<1>5. CASE ~ shaCmd.failed  BY <1>3, <1>5 DEF Right
<1> QED  BY <1>4, <1>5

LEMMA FinalizedVerifying ==
  ASSUME NEW m \in Message, m = sha.from, RequestShape(m), request[m].kind = "verify", ServedIs, ShaPhase,
         Finalized, NEW d, Sequence(d), Verifying(m, d), Registers(d)
  PROVE  \/ sha'.at = "panic" /\ sha'.from = m /\ GoesOn /\ UNCHANGED answer
            /\ (errors = 0 => ~ Genuine(m))
         \/ /\ Ends(sha.good /\ ~ shaCmd.failed) /\ answer' = [answer EXCEPT ![m] = hash]
            /\ Genuine(m)
         \/ /\ sha'.at = "next" /\ sha'.from = m /\ GoesOn /\ UNCHANGED answer
            /\ Serves(m, d)'
<1> DEFINE c1 == request[m].claims[1]
           c2 == request[m].claims[2]
<1>1. ClaimOK(c1) /\ ClaimOK(c2) /\ request[m].claims = <<c1, c2>>  BY DEF RequestShape
<1>2. DOMAIN request[m].claims = 1 .. 2
  <2> HIDE DEF c1, c2
  <2> QED  BY <1>1
<1>3. Genuine(m) <=> Right(c1) /\ Right(c2)
  <2>1. \A i \in 1 .. 2 : i = 1 \/ i = 2  OBVIOUS
  <2>2. 1 \in 1 .. 2 /\ 2 \in 1 .. 2  OBVIOUS
  <2>3. Genuine(m) <=> \A i \in 1 .. 2 : request[m].claims[i].hash = Digest(request[m].claims[i].data)
    BY <1>2 DEF Genuine
  <2> QED  BY <2>1, <2>2, <2>3 DEF Right
<1>4. c1' = c1 /\ c2' = c2 /\ UNCHANGED request  BY DEF Finalized
<1>5. /\ Call.command = "finalize" /\ Fed(d) = d \o DataOf(Call) /\ DataOf(Call) = Call.data
      /\ hash = IF shaCmd.failed THEN BlocksOf(Fed(d)) ELSE Digest(Fed(d))
      /\ shaCmd.failed => errors # 0
  BY SpinIs, VerifyingCalls
<1> HIDE DEF c1, c2
<1>6. Plain(c1.data) /\ Plain(c2.data)  BY <1>1 DEF ClaimOK
<1>7. /\ Filled(c1).command = "init" /\ Filled(c2).command = "init"
      /\ Checked(c1).data = Rest(c1.data) /\ Checked(c1).claim = c1.hash
      /\ Checked(c2).data = Rest(c2.data) /\ Checked(c2).claim = c2.hash
      /\ Whole(c1.data) \o Rest(c1.data) = c1.data /\ Whole(c2.data) \o Rest(c2.data) = c2.data
  BY <1>6, CheckIs
<1>8. CASE sha.todo = <<Checked(c1), Filled(c2), Checked(c2)>> /\ d = Whole(c1.data)
  <2>1. /\ Call = Checked(c1) /\ Len(sha.todo) # 1 /\ Tail(sha.todo) = <<Filled(c2), Checked(c2)>>
    BY <1>8, Turns DEF Call
  <2>2. Fed(d) = c1.data /\ Call.claim = c1.hash  BY <1>5, <1>7, <1>8, <2>1
  <2>3. \/ /\ c1.hash \notin {<< >>, hash} /\ sha'.at = "panic" /\ sha'.from = sha.from
           /\ GoesOn /\ UNCHANGED answer
        \/ /\ c1.hash \in {<< >>, hash}
           /\ sha'.at = "next" /\ sha'.from = sha.from /\ sha'.todo = Tail(sha.todo)
           /\ GoesOn /\ UNCHANGED answer
    BY <2>1, <2>2, FinalizedIs
  <2>4. CASE c1.hash \notin {<< >>, hash}
    <3>1. errors = 0 => ~ Right(c1)  BY <1>5, <2>2, <2>4 DEF Right
    <3> QED  BY <1>3, <2>3, <2>4, <3>1
  <2>5. CASE c1.hash \in {<< >>, hash}
    <3>1. Right(c1)  BY <1>1, <1>5, <2>2, <2>5, ClaimHolds
    <3>2. /\ sha'.at = "next" /\ sha'.from = m /\ sha'.todo = <<Filled(c2), Checked(c2)>>
          /\ GoesOn /\ UNCHANGED answer
      BY <2>1, <2>3, <2>5
    <3>3. Call' = Filled(c2)  BY <3>2, Turns DEF Call
    <3>4. Registers(d)'  BY <1>7, <3>2, <3>3, NextRegisters
    <3>5. Verifying(m, d)'  BY <1>4, <3>1, <3>2 DEF Verifying, c1, c2, Filled, Checked, Right
    <3> QED  BY <1>4, <3>2, <3>4, <3>5 DEF Serves
  <2> QED  BY <2>4, <2>5
<1>9. CASE sha.todo = <<Checked(c2)>> /\ d = Whole(c2.data) /\ Right(c1)
  <2>1. Call = Checked(c2) /\ Len(sha.todo) = 1
    BY <1>9, Turns DEF Call
  <2>2. Fed(d) = c2.data /\ Call.claim = c2.hash  BY <1>5, <1>7, <1>9, <2>1
  <2>3. \/ /\ c2.hash \notin {<< >>, hash} /\ sha'.at = "panic" /\ sha'.from = sha.from
           /\ GoesOn /\ UNCHANGED answer
        \/ /\ c2.hash \in {<< >>, hash}
           /\ Ends(sha.good /\ ~ shaCmd.failed) /\ answer' = [answer EXCEPT ![sha.from] = hash]
    BY <2>1, <2>2, FinalizedIs
  <2>4. CASE c2.hash \notin {<< >>, hash}
    <3>1. errors = 0 => ~ Right(c2)  BY <1>5, <2>2, <2>4 DEF Right
    <3> QED  BY <1>3, <2>3, <2>4, <3>1
  <2>5. CASE c2.hash \in {<< >>, hash}
    <3>1. Right(c2)  BY <1>1, <1>5, <2>2, <2>5, ClaimHolds
    <3> QED  BY <1>3, <1>9, <2>3, <2>5, <3>1
  <2> QED  BY <2>4, <2>5
<1>10. /\ sha.todo # <<Filled(c1), Checked(c1), Filled(c2), Checked(c2)>>
       /\ sha.todo # <<Filled(c2), Checked(c2)>>
  BY <1>5, <1>7, Turns DEF Call
<1> QED  BY <1>8, <1>9, <1>10 DEF Verifying, c1, c2

(* What a hash or a MAC is of.                                              *)
LEMMA GoalIs ==
  ASSUME NEW m \in Message, RequestShape(m), ToldOK(m), request[m].kind \in {"sha", "mac"},
         request[m].command = "finalize", Promised(m).sound
  PROVE  LET r == request[m]
             p == Promised(m)
         IN /\ r.kind = "sha" => Expected(p, r) = Digest(Goal(m))
            /\ r.kind = "mac" => Expected(p, r) = Digest(Key("outer", r.secret) \o <<<<"digest", Digest(Goal(m))>>>>)
<1> DEFINE r == request[m]
           p == Promised(m)
<1>1. /\ Plain(p.data) /\ p.key = told[m].key /\ ((told[m].key = NULL) <=> (r.kind = "sha"))
  BY PromisedIs
<1>2. Goal(m) = Prefix(p) \o p.data  BY DEF Goal, Said
<1> HIDE DEF p
<1>3. CASE r.kind = "sha"
  <2>1. Prefix(p) = << >>  BY <1>1, <1>3 DEF Prefix
  <2>2. Goal(m) = p.data  BY <1>1, <1>2, <2>1, PlainIs, JoinedEmpty
  <2> QED  BY <1>3, <2>2 DEF Expected, p
<1>4. CASE r.kind = "mac"
  <2>1. Prefix(p) = Key("inner", p.key)  BY <1>1, <1>4 DEF Prefix
  <2> QED  BY <1>2, <1>4, <2>1 DEF Expected, Hmac, p
<1> QED  BY <1>3, <1>4

LEMMA FinalizedHashing ==
  ASSUME NEW m \in Message, m = sha.from, RequestShape(m), ToldOK(m), request[m].kind \in {"sha", "mac"},
         ServedIs, ShaPhase, Unclaimed, Promised(m).sound,
         Finalized, NEW d, Sequence(d), Hashing(m, d), Registers(d)
  PROVE  \/ /\ Ends(sha.good /\ ~ shaCmd.failed) /\ answer' = [answer EXCEPT ![m] = hash]
            /\ request[m].command = "finalize"
            /\ sha.good /\ ~ shaCmd.failed => hash = Expected(Promised(m), request[m])
         \/ /\ sha'.at = "next" /\ sha'.from = m /\ GoesOn /\ UNCHANGED answer
            /\ Serves(m, d)'
<1> DEFINE r == request[m]
           todo == sha.todo
           goal == Goal(m)
<1>1. /\ Call.command = "finalize" /\ Fed(d) = d \o DataOf(Call)
      /\ hash = IF shaCmd.failed THEN BlocksOf(Fed(d)) ELSE Digest(Fed(d))
  BY SpinIs
<1>2. UNCHANGED request /\ Call = Head(todo)  BY DEF Finalized, Call
<1>3. /\ r.kind = "sha" /\ r.command = "finalize" => Expected(Promised(m), r) = Digest(goal)
      /\ r.kind = "mac" /\ r.command = "finalize" =>
           Expected(Promised(m), r) = Digest(Key("outer", r.secret) \o <<<<"digest", Digest(goal)>>>>)
  BY GoalIs
<1>4. Plain(r.input)  BY DEF RequestShape
<1>5. CASE r.command # "finalize"
  <2>1. Feeding(Call)
    <3>1. CASE Len(todo) = 1 /\ todo = <<todo[1]>> /\ Feeding(todo[1])
      BY <1>2, <3>1, Turns
    <3>2. CASE Len(todo) = 2 /\ todo = <<todo[1], todo[2]>> /\ Feeding(todo[1])
      BY <1>2, <3>2, Turns
    <3> QED  BY <1>5, <3>1, <3>2, Zenon DEF Hashing
  <2> QED  BY <1>1, <2>1 DEF Feeding
<1>6. CASE r.kind = "sha" /\ r.command = "finalize"
  <2>1. todo = <<CallOf(r.input, "finalize")>> /\ d \o r.input = goal  BY <1>6 DEF Hashing
  <2>2. Call = CallOf(r.input, "finalize") /\ Len(todo) = 1  BY <1>2, <2>1, Turns
  <2>3. Call.data = r.input /\ Call.claim = << >>  BY <2>2, CallIs
  <2>4. DataOf(Call) = r.input  BY <1>4, <2>3, DataIs
  <2>5. Ends(sha.good /\ ~ shaCmd.failed) /\ answer' = [answer EXCEPT ![m] = hash]
    BY <2>2, <2>3, FinalizedIs
  <2> QED  BY <1>1, <1>3, <1>6, <2>1, <2>4, <2>5
<1>7. CASE r.kind = "mac" /\ r.command = "finalize"
  <2>1. \/ todo = <<CallOf(r.input, "finalize"), Outer(r), FinalCall>> /\ d \o r.input = goal
        \/ /\ todo = <<FinalCall>> /\ d = Key("outer", r.secret)
           /\ sha.good => sha.final = Digest(goal)
    <3>1. todo # <<CallOf(r.custom, "contribute"), CallOf(r.input, "finalize"), Outer(r), FinalCall>>
      BY <1>1, <1>2, Turns, CallIs
    <3>2. todo # <<Outer(r), FinalCall>>  BY <1>1, <1>2, Turns, OuterIs
    <3> QED  BY <1>7, <3>1, <3>2 DEF Hashing
  <2>2. CASE todo = <<CallOf(r.input, "finalize"), Outer(r), FinalCall>> /\ d \o r.input = goal
    <3>1. /\ Call = CallOf(r.input, "finalize") /\ Len(todo) # 1 /\ Tail(todo) = <<Outer(r), FinalCall>>
      BY <1>2, <2>2, Turns
    <3>2. Call.data = r.input /\ Call.claim = << >>  BY <3>1, CallIs
    <3>3. DataOf(Call) = r.input  BY <1>4, <3>2, DataIs
    <3>4. /\ sha'.at = "next" /\ sha'.from = m /\ sha'.todo = <<Outer(r), FinalCall>>
          /\ sha'.final = hash /\ sha'.good = ~ shaCmd.failed
          /\ GoesOn /\ UNCHANGED answer
      BY <3>1, <3>2, FinalizedIs
    <3>5. Goal(m)' = goal  BY <1>2, <3>4 DEF Goal, Promised, GoesOn
    <3>6. sha'.good => sha'.final = Digest(Goal(m)')  BY <1>1, <2>2, <3>3, <3>4, <3>5, Zenon
    <3>7. request'[m] = r  BY <1>2
    <3>8. Hashing(m, d)'
      BY <1>7, <3>4, <3>6, <3>7, Zenon DEF Hashing, Outer, FinalCall, CallOf
    <3>9. Registers(d)'
      <4>1. Call' = Outer(r)  BY <3>4, Turns DEF Call
      <4> QED  BY <3>4, <4>1, OuterIs, NextRegisters
    <3> QED  BY <3>4, <3>7, <3>8, <3>9 DEF Serves
  <2>3. CASE /\ todo = <<FinalCall>> /\ d = Key("outer", r.secret)
             /\ sha.good => sha.final = Digest(goal)
    <3>1. Call = FinalCall /\ Len(todo) = 1  BY <1>2, <2>3, Turns
    <3>2. Call.claim = << >> /\ DataOf(Call) = <<<<"digest", sha.final>>>>
      BY <3>1, FinalCallIs DEF DataOf
    <3>3. Ends(sha.good /\ ~ shaCmd.failed) /\ answer' = [answer EXCEPT ![m] = hash]
      BY <3>1, <3>2, FinalizedIs
    <3> QED  BY <1>1, <1>3, <1>7, <2>3, <3>2, <3>3
  <2> QED  BY <2>1, <2>2, <2>3
<1> QED  BY <1>5, <1>6, <1>7

-----------------------------------------------------------------------------
(* What a step of the thread comes to for its request.                      *)
Continues(m) == GoesOn /\ sha'.from = m /\ sha'.at \in {"next", "event", "spin"} /\ Serving'
Stops(m) == /\ GoesOn /\ sha'.from = m /\ sha'.at = "panic"
            /\ (errors = 0 => ~ Genuine(m))
Failing(m) == /\ ReplyFailed(m) /\ told' = [told EXCEPT ![m] = NothingTold] /\ sha' = Waiting
Ending(m) ==
  \E sound \in BOOLEAN :
    /\ Ends(sound)
    /\ request[m].kind = "verify" => Genuine(m)
    /\ request[m].kind # "verify" /\ Promised(m).sound /\ sound =>
         IF request[m].command = "finalize" THEN answer'[m] = Expected(Promised(m), request[m])
         ELSE ctx'[m] = Holding(Goal(m)) /\ Full(Goal(m))
Comes(m) == Continues(m) \/ Stops(m) \/ Failing(m) \/ Ending(m)

LEMMA ContinuesWith ==
  ASSUME NEW m \in Message, GoesOn, sha'.from = m, sha'.at \in {"next", "event", "spin"},
         UNCHANGED request,
         request[m].kind = "verify" => \E d : Serves(m, d)',
         request[m].kind # "verify" => Unclaimed' /\ (Promised(m).sound => \E d : Serves(m, d)')
  PROVE  Continues(m)
<1>1. Promised(m)' = Promised(m)  BY DEF GoesOn, Promised
<1>2. CASE request[m].kind = "verify"
  <2>1. PICK d : Serves(m, d)'  BY <1>2
  <2>2. Sequence(d) /\ Verifying(m, d)' /\ Registers(d)'  BY <1>2, <2>1 DEF Serves
  <2>3. \E d1 : (Sequence(d1) /\ Verifying(m, d1) /\ Registers(d1))'  BY <2>2
  <2>4. Serving'  BY <1>2, <2>3 DEF Serving
  <2> QED  BY <2>4 DEF Continues
<1>3. CASE request[m].kind # "verify"
  <2>1. ASSUME Promised(m).sound PROVE \E d1 : (Sequence(d1) /\ Hashing(m, d1) /\ Registers(d1))'
    <3>1. PICK d : Serves(m, d)'  BY <1>3, <2>1
    <3>2. Sequence(d) /\ Hashing(m, d)' /\ Registers(d)'  BY <1>3, <3>1 DEF Serves
    <3> QED  BY <3>2
  <2>2. Serving'  BY <1>1, <1>3, <2>1 DEF Serving
  <2> QED  BY <2>2 DEF Continues
<1> QED  BY <1>2, <1>3

LEMMA ServingNow ==
  ASSUME NEW m \in Message, m = sha.from, sha.at \in {"next", "event", "spin"}, Serving
  PROVE  /\ request[m].kind = "verify" => \E d : Serves(m, d)
         /\ request[m].kind # "verify" => Unclaimed /\ (Promised(m).sound => \E d : Serves(m, d))
BY DEF Serving, Serves

LEMMA UnclaimedNext ==
  ASSUME Unclaimed, Len(sha.todo) # 1, sha'.todo = Tail(sha.todo)
  PROVE  Unclaimed'
<1> DEFINE s == sha.todo
           t == Tail(s)
           S == Elements(s)
<1>1. s \in Seq(S) /\ s # << >> /\ \A i \in 1 .. Len(s) : s[i].claim = << >>
  BY DEF Unclaimed, Sequence
<1> HIDE DEF S, s
<1>2. /\ t \in Seq(S) /\ Len(t) = Len(s) - 1 /\ Len(s) \in Nat
      /\ \A i \in 1 .. Len(t) : t[i] = s[i + 1]
  BY <1>1, HeadTailProperties, LenProperties
<1>3. Sequence(t)  BY <1>2, IsSequence
<1>4. Len(s) # 1  BY DEF s
<1>5. Len(s) # 0  BY <1>1, EmptySeq
<1>6. t # << >>
  <2>1. Len(t) # 0  BY <1>2, <1>4
  <2> QED  BY <2>1, NoSequence
<1>7. \A i \in 1 .. Len(t) : t[i].claim = << >>  BY <1>1, <1>2
<1>8. sha'.todo = t  BY DEF s
<1> QED  BY <1>3, <1>6, <1>7, <1>8 DEF Unclaimed

(* A step that only goes on waiting for the engine, and the next call of a  *)
(* request that is owed nothing.                                            *)
LEMMA GoesIs ==
  ASSUME ServedIs, NEW at, Goes(at)
  PROVE  /\ sha'.at = at /\ sha'.from = sha.from /\ sha'.todo = sha.todo
         /\ sha'.final = sha.final /\ sha'.good = sha.good /\ GoesOn
<1>1. sha' = [at |-> at, from |-> sha.from, todo |-> sha.todo, final |-> sha.final, good |-> sha.good]
  BY DEF ServedIs, Goes
<1>2. /\ sha'.at = at /\ sha'.from = sha.from /\ sha'.todo = sha.todo
      /\ sha'.final = sha.final /\ sha'.good = sha.good
  BY <1>1
<1> QED  BY <1>2 DEF Goes

LEMMA GoesContinues ==
  ASSUME NEW m \in Message, m = sha.from, sha.at \in {"next", "event", "spin"}, Serving, ServedIs,
         UNCHANGED request, NEW at \in {"event", "spin"}, Goes(at),
         request[m].kind = "verify" => \E d : Serves(m, d) /\ Registers(d)',
         request[m].kind # "verify" /\ Promised(m).sound => \E d : Serves(m, d) /\ Registers(d)'
  PROVE  Continues(m)
<1>1. /\ sha'.at = at /\ sha'.from = m /\ sha'.todo = sha.todo
      /\ sha'.final = sha.final /\ sha'.good = sha.good /\ GoesOn
  BY GoesIs
<1>2. ASSUME NEW d, Serves(m, d), Registers(d)' PROVE Serves(m, d)'
  BY <1>1, <1>2, ServesStay DEF GoesOn
<1>3. request[m].kind # "verify" => Unclaimed'
  <2>1. request[m].kind # "verify" => Unclaimed  BY ServingNow
  <2> QED  BY <1>1, <2>1 DEF Unclaimed
<1> QED  BY <1>1, <1>2, <1>3, ContinuesWith

LEMMA OwedNothing ==
  ASSUME NEW m \in Message, m = sha.from, request[m].kind # "verify", ~ Promised(m).sound,
         ServedIs, UNCHANGED request, Unclaimed,
         Fails \/ Proceeds \/ (\E at \in {"event", "spin"} : Goes(at))
  PROVE  Comes(m)
<1>1. CASE Fails  BY <1>1 DEF Fails, Caller, Failing, Comes
<1>2. CASE Proceeds
  <2>1. CASE Len(sha.todo) = 1
    <3>1. Ends(TRUE)  BY <1>2, <2>1 DEF Proceeds
    <3> QED  BY <3>1 DEF Ending, Comes
  <2>2. CASE Len(sha.todo) # 1
    <3>1. GoesOn /\ sha'.at = "next" /\ sha'.from = m /\ sha'.todo = Tail(sha.todo)
      BY <1>2, <2>2, OnToNext
    <3>2. Unclaimed'  BY <2>2, <3>1, UnclaimedNext
    <3> QED  BY <3>1, <3>2, ContinuesWith DEF Comes
  <2> QED  BY <2>1, <2>2
<1>3. CASE \E at \in {"event", "spin"} : Goes(at)
  <2>1. PICK at \in {"event", "spin"} : Goes(at)  BY <1>3
  <2>2. sha'.at = at /\ sha'.from = m /\ sha'.todo = sha.todo /\ GoesOn  BY <2>1, GoesIs
  <2>3. Unclaimed'  BY <2>2 DEF Unclaimed
  <2> QED  BY <2>1, <2>2, <2>3, ContinuesWith DEF Comes
<1> QED  BY <1>1, <1>2, <1>3

LEMMA ProceededComes ==
  ASSUME NEW m \in Message, m = sha.from, ServedIs, UNCHANGED request,
         Context = IF request[m].kind = "verify" THEN NULL ELSE m,
         NEW e, Proceeded(m, e), ctx'[Context] = Holding(e) /\ Full(e), Proceeds,
         request[m].kind # "verify" => Unclaimed
  PROVE  Comes(m)
<1>1. CASE /\ Ends(TRUE) /\ request[m].kind # "verify" /\ request[m].command # "finalize"
           /\ e = Goal(m)
  BY <1>1 DEF Ending, Comes
<1>2. CASE GoesOn /\ sha'.at = "next" /\ sha'.from = m /\ Serves(m, e)'
  <2>1. CASE Len(sha.todo) = 1
    <3>1. sha' = Waiting  BY <2>1 DEF Proceeds, Ends
    <3>2. sha'.at = "wait"  BY <3>1 DEF Waiting
    <3> QED  BY <1>2, <3>2
  <2>2. CASE Len(sha.todo) # 1
    <3>1. request[m].kind # "verify" => Unclaimed'
      <4>1. sha'.todo = Tail(sha.todo)  BY <2>2, OnToNext
      <4> QED  BY <2>2, <4>1, UnclaimedNext
    <3> QED  BY <1>2, <3>1, ContinuesWith DEF Comes
  <2> QED  BY <2>1, <2>2
<1> QED  BY <1>1, <1>2 DEF Proceeded

LEMMA GenerateComes ==
  ASSUME IInv, Digests, Generate, NEW m \in Message, m = sha.from
  PROVE  Comes(m)
<1>1. sha.at = "next" /\ UNCHANGED request  BY DEF Generate
<1>2. /\ request[m].kind \in {"sha", "mac", "verify"} /\ RequestShape(m) /\ ServedIs /\ CmdIs
      /\ Context = IF request[m].kind = "verify" THEN NULL ELSE m
  BY <1>1, InShaHands
<1>3. Serving /\ ShaPhase  BY DEF Digests
<1>4. /\ request[m].kind = "verify" => \E d : Serves(m, d)
      /\ request[m].kind # "verify" => Unclaimed /\ (Promised(m).sound => \E d : Serves(m, d))
  BY <1>1, <1>3, ServingNow
<1>5. ASSUME NEW d, Serves(m, d), ~ Refused, Sequence(DataOf(Call)),
             Call.command = "init" => Len(DataOf(Call)) \notin 1 .. Block - 1
      PROVE  \/ Goes("event") /\ Registers(d)'
             \/ Goes("spin") /\ Registers(d)'
             \/ /\ Call.command = "init" /\ Proceeds
                /\ ctx'[Context] = Holding(Fed(d)) /\ Full(Fed(d)) /\ Sequence(Fed(d))
             \/ Call.command \notin {"init", "finalize"} /\ Fails
  <2>1. Sequence(d) /\ Registers(d)  BY <1>5 DEF Serves
  <2>2. Sequence(Fed(d))
    <3>1. Sequence(Before(Call, d))  BY <2>1, NoCalls
    <3> QED  BY <1>5, <3>1, Joined DEF Fed
  <2> QED  BY <1>1, <1>2, <1>5, <2>1, <2>2, GenerateRuns
<1>6. CASE request[m].kind = "verify"
  <2>1. PICK d : Serves(m, d)  BY <1>4, <1>6
  <2>2. Verifying(m, d) /\ Sequence(d)  BY <1>6, <2>1 DEF Serves
  <2>3. /\ Sequence(DataOf(Call)) /\ ~ Refused /\ Call.command \in {"init", "finalize"}
        /\ Call.command = "init" => Len(DataOf(Call)) \notin 1 .. Block - 1
    BY <1>2, <1>6, <2>2, VerifyingCalls
  <2>4. CASE \E at \in {"event", "spin"} : Goes(at) /\ Registers(d)'
    <3>1. PICK at \in {"event", "spin"} : Goes(at) /\ Registers(d)'  BY <2>4
    <3> QED  BY <1>1, <1>2, <1>3, <1>6, <2>1, <3>1, GoesContinues DEF Comes
  <2>5. CASE /\ Call.command = "init" /\ Proceeds
             /\ ctx'[Context] = Holding(Fed(d)) /\ Full(Fed(d)) /\ Sequence(Fed(d))
    <3>1. PICK e : e = Fed(d)  OBVIOUS
    <3>2. Proceeded(m, e)  BY <1>1, <1>2, <1>6, <2>2, <2>5, <3>1, VerifyingProceeds
    <3> QED  BY <1>1, <1>2, <1>6, <2>5, <3>1, <3>2, ProceededComes
  <2> QED  BY <1>5, <2>1, <2>3, <2>4, <2>5
<1>7. CASE request[m].kind # "verify" /\ ~ Promised(m).sound
  <2>1. Fails \/ Proceeds \/ (\E at \in {"event", "spin"} : Goes(at))
    BY DEF Generate, Goes
  <2> QED  BY <1>1, <1>2, <1>4, <1>7, <2>1, OwedNothing
<1>8. CASE request[m].kind # "verify" /\ Promised(m).sound
  <2>1. PICK d : Serves(m, d)  BY <1>4, <1>8
  <2>2. Hashing(m, d) /\ Sequence(d) /\ request[m].kind \in {"sha", "mac"}
    BY <1>2, <1>8, <2>1 DEF Serves
  <2>3. /\ Sequence(DataOf(Call))
        /\ Call.command = "init" => Len(DataOf(Call)) \notin 1 .. Block - 1
    BY <1>2, <2>2, HashingCalls
  <2>4. CASE \E at \in {"event", "spin"} : Goes(at) /\ Registers(d)'
    <3>1. PICK at \in {"event", "spin"} : Goes(at) /\ Registers(d)'  BY <2>4
    <3> QED  BY <1>1, <1>2, <1>3, <1>8, <2>1, <3>1, GoesContinues DEF Comes
  <2>5. CASE /\ Call.command = "init" /\ Proceeds
             /\ ctx'[Context] = Holding(Fed(d)) /\ Full(Fed(d)) /\ Sequence(Fed(d))
    <3>1. PICK e : e = Fed(d)  OBVIOUS
    <3>2. Proceeded(m, e)
      <4>1. UNCHANGED <<request, told>> \/ ~ GoesOn  BY <1>1 DEF GoesOn
      <4> QED  BY <1>1, <1>2, <2>2, <2>5, <3>1, <4>1, HashingProceeds
    <3> QED  BY <1>1, <1>2, <1>4, <1>8, <2>5, <3>1, <3>2, ProceededComes
  <2>6. CASE Fails  BY <1>8, <2>6 DEF Fails, Caller, Failing, Comes
  <2>7. Refused => Fails  BY DEF Generate
  <2> QED  BY <1>5, <2>1, <2>3, <2>4, <2>5, <2>6, <2>7
<1> QED  BY <1>6, <1>7, <1>8

LEMMA GeneratedComes ==
  ASSUME IInv, Digests, Generated, NEW m \in Message, m = sha.from
  PROVE  Comes(m)
<1>1. sha.at = "event" /\ UNCHANGED request  BY DEF Generated
<1>2. /\ request[m].kind \in {"sha", "mac", "verify"} /\ RequestShape(m) /\ ServedIs /\ CmdIs
      /\ Context = IF request[m].kind = "verify" THEN NULL ELSE m
  BY <1>1, InShaHands
<1>3. Serving /\ ShaPhase  BY DEF Digests
<1>4. /\ request[m].kind = "verify" => \E d : Serves(m, d)
      /\ request[m].kind # "verify" => Unclaimed /\ (Promised(m).sound => \E d : Serves(m, d))
  BY <1>1, <1>3, ServingNow
<1>5. ASSUME NEW d, Serves(m, d), Sequence(DataOf(Call))
      PROVE  \/ shaCmd.failed /\ Fails
             \/ Goes("spin") /\ Registers(d)'
             \/ /\ Call.command # "finalize" /\ Proceeds
                /\ ctx'[Context] = Holding(Fed(d)) /\ Full(Fed(d)) /\ Sequence(Fed(d))
  <2>1. Sequence(d) /\ Registers(d)  BY <1>5 DEF Serves
  <2>2. Sequence(Fed(d))
    <3>1. Sequence(Before(Call, d))  BY <2>1, NoCalls
    <3> QED  BY <1>5, <3>1, Joined DEF Fed
  <2> QED  BY <1>2, <1>3, <1>5, <2>1, <2>2, GeneratedRuns
<1>6. CASE request[m].kind = "verify"
  <2>1. PICK d : Serves(m, d)  BY <1>4, <1>6
  <2>2. Verifying(m, d) /\ Sequence(d)  BY <1>6, <2>1 DEF Serves
  <2>3. Sequence(DataOf(Call))  BY <1>2, <1>6, <2>2, VerifyingCalls
  <2>4. CASE Goes("spin") /\ Registers(d)'
    BY <1>1, <1>2, <1>3, <1>6, <2>1, <2>4, GoesContinues DEF Comes
  <2>5. CASE /\ Call.command # "finalize" /\ Proceeds
             /\ ctx'[Context] = Holding(Fed(d)) /\ Full(Fed(d)) /\ Sequence(Fed(d))
    <3>1. PICK e : e = Fed(d)  OBVIOUS
    <3>2. Proceeded(m, e)  BY <1>1, <1>2, <1>6, <2>2, <2>5, <3>1, VerifyingProceeds
    <3> QED  BY <1>1, <1>2, <1>6, <2>5, <3>1, <3>2, ProceededComes
  <2>6. CASE shaCmd.failed /\ Fails
    <3>1. Goes("panic")  BY <1>6, <2>6 DEF Fails, HMAC_Panic, Goes, Caller
    <3>2. GoesOn /\ sha'.from = m /\ sha'.at = "panic"  BY <1>2, <3>1, GoesIs
    <3>3. errors # 0  BY <1>3, <2>6 DEF ShaPhase
    <3> QED  BY <3>2, <3>3 DEF Stops, Comes
  <2> QED  BY <1>5, <2>1, <2>3, <2>4, <2>5, <2>6
<1>7. CASE request[m].kind # "verify" /\ ~ Promised(m).sound
  <2>1. Fails \/ Proceeds \/ (\E at \in {"event", "spin"} : Goes(at))
    BY DEF Generated, Goes
  <2> QED  BY <1>1, <1>2, <1>4, <1>7, <2>1, OwedNothing
<1>8. CASE request[m].kind # "verify" /\ Promised(m).sound
  <2>1. PICK d : Serves(m, d)  BY <1>4, <1>8
  <2>2. Hashing(m, d) /\ Sequence(d) /\ request[m].kind \in {"sha", "mac"}
    BY <1>2, <1>8, <2>1 DEF Serves
  <2>3. Sequence(DataOf(Call))  BY <1>2, <2>2, HashingCalls
  <2>4. CASE Goes("spin") /\ Registers(d)'
    BY <1>1, <1>2, <1>3, <1>8, <2>1, <2>4, GoesContinues DEF Comes
  <2>5. CASE /\ Call.command # "finalize" /\ Proceeds
             /\ ctx'[Context] = Holding(Fed(d)) /\ Full(Fed(d)) /\ Sequence(Fed(d))
    <3>1. PICK e : e = Fed(d)  OBVIOUS
    <3>2. Proceeded(m, e)
      <4>1. UNCHANGED <<request, told>> \/ ~ GoesOn  BY <1>1 DEF GoesOn
      <4> QED  BY <1>1, <1>2, <2>2, <2>5, <3>1, <4>1, HashingProceeds
    <3> QED  BY <1>1, <1>2, <1>4, <1>8, <2>5, <3>1, <3>2, ProceededComes
  <2>6. CASE shaCmd.failed /\ Fails  BY <1>8, <2>6 DEF Fails, Caller, Failing, Comes
  <2> QED  BY <1>5, <2>1, <2>3, <2>4, <2>5, <2>6
<1> QED  BY <1>6, <1>7, <1>8

LEMMA FinalizedComes ==
  ASSUME IInv, Digests, Finalized, NEW m \in Message, m = sha.from
  PROVE  Comes(m)
<1>1. sha.at = "spin" /\ UNCHANGED request  BY DEF Finalized
<1>2. /\ request[m].kind \in {"sha", "mac", "verify"} /\ RequestShape(m) /\ ServedIs /\ ToldOK(m)
  BY <1>1, InShaHands
<1>3. Serving /\ ShaPhase /\ DOMAIN answer = Message  BY DEF Digests, Domains
<1>4. /\ request[m].kind = "verify" => \E d : Serves(m, d)
      /\ request[m].kind # "verify" => Unclaimed /\ (Promised(m).sound => \E d : Serves(m, d))
  BY <1>1, <1>3, ServingNow
<1> DEFINE sound == sha.good /\ ~ shaCmd.failed
<1>5. sound \in BOOLEAN  OBVIOUS
<1>6. CASE request[m].kind = "verify"
  <2>1. PICK d : Serves(m, d)  BY <1>4, <1>6
  <2>2. Verifying(m, d) /\ Sequence(d) /\ Registers(d)  BY <1>6, <2>1 DEF Serves
  <2>3. \/ sha'.at = "panic" /\ sha'.from = m /\ GoesOn /\ UNCHANGED answer
            /\ (errors = 0 => ~ Genuine(m))
        \/ Ends(sound) /\ Genuine(m)
        \/ sha'.at = "next" /\ sha'.from = m /\ GoesOn /\ Serves(m, d)'
    BY <1>2, <1>3, <1>6, <2>2, FinalizedVerifying
  <2>4. CASE sha'.at = "next" /\ sha'.from = m /\ GoesOn /\ Serves(m, d)'
    BY <1>1, <1>6, <2>4, ContinuesWith DEF Comes
  <2>5. CASE Ends(sound) /\ Genuine(m)
    <3> HIDE DEF sound
    <3> QED  BY <1>5, <1>6, <2>5 DEF Ending, Comes
  <2>6. CASE sha'.at = "panic" /\ sha'.from = m /\ GoesOn /\ (errors = 0 => ~ Genuine(m))
    BY <2>6 DEF Stops, Comes
  <2> QED  BY <2>3, <2>4, <2>5, <2>6
<1>7. CASE request[m].kind # "verify" /\ ~ Promised(m).sound
  <2>1. Call.claim = << >>
    <3>1. Unclaimed  BY <1>4, <1>7
    <3>2. 1 \in 1 .. Len(sha.todo) /\ Head(sha.todo) = sha.todo[1]
      <4>1. sha.todo # << >> /\ sha.todo \in Seq(Elements(sha.todo))  BY <3>1 DEF Unclaimed, Sequence
      <4> QED  BY <4>1, HeadTailProperties, LenProperties, EmptySeq
    <3> QED  BY <3>1, <3>2 DEF Unclaimed, Call
  <2>2. \/ Len(sha.todo) = 1 /\ Ends(sound)
        \/ /\ Len(sha.todo) # 1 /\ sha'.at = "next" /\ sha'.from = m /\ sha'.todo = Tail(sha.todo)
           /\ GoesOn
    BY <1>2, <2>1, FinalizedIs
  <2>3. CASE Ends(sound)
    <3> HIDE DEF sound
    <3> QED  BY <1>5, <1>7, <2>3 DEF Ending, Comes
  <2>4. CASE /\ Len(sha.todo) # 1 /\ sha'.at = "next" /\ sha'.from = m /\ sha'.todo = Tail(sha.todo)
             /\ GoesOn
    <3>1. Unclaimed'  BY <1>4, <1>7, <2>4, UnclaimedNext
    <3> QED  BY <1>1, <1>7, <2>4, <3>1, ContinuesWith DEF Comes
  <2> QED  BY <2>2, <2>3, <2>4
<1>8. CASE request[m].kind # "verify" /\ Promised(m).sound
  <2>1. PICK d : Serves(m, d)  BY <1>4, <1>8
  <2>2. Hashing(m, d) /\ Sequence(d) /\ Registers(d) /\ request[m].kind \in {"sha", "mac"} /\ Unclaimed
    BY <1>2, <1>4, <1>8, <2>1 DEF Serves
  <2>3. \/ /\ Ends(sound) /\ answer' = [answer EXCEPT ![m] = hash]
           /\ request[m].command = "finalize"
           /\ sound => hash = Expected(Promised(m), request[m])
        \/ sha'.at = "next" /\ sha'.from = m /\ GoesOn /\ Serves(m, d)'
    BY <1>2, <1>3, <1>8, <2>2, FinalizedHashing
  <2>4. CASE /\ Ends(sound) /\ answer' = [answer EXCEPT ![m] = hash]
             /\ request[m].command = "finalize"
             /\ sound => hash = Expected(Promised(m), request[m])
    <3>1. answer'[m] = hash  BY <1>3, <2>4
    <3> HIDE DEF sound
    <3> QED  BY <1>5, <1>8, <2>4, <3>1 DEF Ending, Comes
  <2>5. CASE sha'.at = "next" /\ sha'.from = m /\ GoesOn /\ Serves(m, d)'
    <3>1. Unclaimed'
      <4>1. Len(sha.todo) # 1
        <5> SUFFICES ASSUME Len(sha.todo) = 1 PROVE FALSE  OBVIOUS
        <5>1. sha' = Waiting \/ sha'.at = "panic"  BY <1>2, FinalizedIs DEF Ends
        <5> QED  BY <2>5, <5>1 DEF Waiting
      <4>2. sha'.todo = Tail(sha.todo)  BY <1>2, <2>5, <4>1, FinalizedIs
      <4> QED  BY <2>2, <4>1, <4>2, UnclaimedNext
    <3> QED  BY <1>1, <1>8, <2>5, <3>1, ContinuesWith DEF Comes
  <2> QED  BY <2>3, <2>4, <2>5
<1> QED  BY <1>6, <1>7, <1>8

LEMMA ComesKeeps ==
  ASSUME IInv, Digests, sha.at # "wait", NEW m \in Message, m = sha.from, OnlyFor(m), Comes(m),
         request[m].kind = "verify" => ctx'[m] = ctx[m], UNCHANGED errors
  PROVE  Domains' /\ (\A n \in Message : ThreadOK(n)') /\ Serving' /\ Panics'
<1>1. /\ result[m] = "busy" /\ request[m].kind \in {"sha", "mac", "verify"} /\ ThreadOK(m)
      /\ RequestShape(m) /\ ToldOK(m)
  BY InShaHands
<1>2. request' = request /\ DOMAIN told = Message /\ DOMAIN result = Message
  BY DEF OnlyFor, Digests, Domains, IInv, Accounts, RequestTypes
<1>3. sha' = Waiting => Serving' /\ Panics'
  BY DEF Waiting, Serving, Panics
<1>4. CASE Continues(m)
  <2>1. ThreadOK(m)'  BY <1>1, <1>2, <1>4, MineGoesOn DEF Continues, GoesOn
  <2>2. Serving' /\ Panics'  BY <1>4 DEF Continues, Panics
  <2> QED  BY <2>1, <2>2, HandlerKeeps
<1>5. CASE Stops(m)
  <2>1. ThreadOK(m)'  BY <1>1, <1>2, <1>5, MineGoesOn DEF Stops, GoesOn
  <2>2. Serving'  BY <1>5 DEF Stops, Serving
  <2>3. Panics'
    <3>1. Genuine(m)' <=> Genuine(m)  BY <1>2 DEF Genuine
    <3> QED  BY <1>5, <3>1 DEF Stops, Panics
  <2> QED  BY <2>1, <2>2, <2>3, HandlerKeeps
<1>6. CASE Failing(m)
  <2>1. result'[m] = "failed" /\ told'[m] = NothingTold
    BY <1>2, <1>6 DEF Failing, ReplyFailed, ResourceReply
  <2>2. request[m].kind # NULL  BY <1>1, RequestsAssumption DEF Kind
  <2>3. ThreadOK(m)'  BY <1>1, <1>2, <2>1, <2>2, MineFails
  <2> QED  BY <1>3, <1>6, <2>3, HandlerKeeps DEF Failing
<1>7. CASE Ending(m)
  <2>1. PICK sound \in BOOLEAN :
          /\ Ends(sound)
          /\ request[m].kind = "verify" => Genuine(m)
          /\ request[m].kind # "verify" /\ Promised(m).sound /\ sound =>
               IF request[m].command = "finalize" THEN answer'[m] = Expected(Promised(m), request[m])
               ELSE ctx'[m] = Holding(Goal(m)) /\ Full(Goal(m))
    BY <1>7 DEF Ending
  <2>2. /\ result'[m] = "ok" /\ sha' = Waiting
        /\ told'[m] = [Promised(m) EXCEPT !.sound = Promised(m).sound /\ sound]
    <3> DEFINE p == Promised(m)
               t == [p EXCEPT !.sound = p.sound /\ sound]
    <3>3. Told(told[Caller], request[Caller]) = p  BY DEF Caller, Promised
    <3> HIDE DEF p
    <3>1. /\ result' = [result EXCEPT ![m] = "ok"] /\ sha' = Waiting
          /\ told' = [told EXCEPT ![m] = t]
      BY <2>1, <3>3 DEF Ends, ResourceReply, Caller
    <3> HIDE DEF t
    <3>2. result'[m] = "ok" /\ sha' = Waiting /\ told'[m] = t  BY <1>2, <3>1
    <3> QED  BY <3>2 DEF t, p
  <2>3. ThreadOK(m)'  BY <1>1, <1>2, <2>1, <2>2, MineEnds
  <2> QED  BY <1>3, <2>2, <2>3, HandlerKeeps
<1> QED  BY <1>4, <1>5, <1>6, <1>7 DEF Comes

LEMMA PhaseStays ==
  ASSUME ShaPhase, ServedIs, CmdIs, ShaEngineHandler
  PROVE  ShaPhase'
<1>1. errors' = errors  BY DEF ShaEngineHandler, Generate, Generated, Finalized
<1>2. ASSUME NEW at, sha' = [sha EXCEPT !.at = at] PROVE sha'.at = at
  <2>1. sha' = [at |-> at, from |-> sha.from, todo |-> sha.todo, final |-> sha.final, good |-> sha.good]
    BY <1>2 DEF ServedIs
  <2> QED  BY <2>1
<1>3. Fails => sha'.at \in {"wait", "panic"}
  <2>1. HMAC_Panic => sha'.at = "panic"  BY <1>2 DEF HMAC_Panic
  <2> QED  BY <2>1 DEF Fails, Waiting
<1>4. Proceeds => sha'.at \in {"wait", "next"}
  <2>1. ASSUME sha' = [sha EXCEPT !.at = "next", !.todo = Tail(@)] PROVE sha'.at = "next"
    <3>1. sha' = [at |-> "next", from |-> sha.from, todo |-> Tail(sha.todo), final |-> sha.final,
                  good |-> sha.good]
      BY <2>1 DEF ServedIs
    <3> QED  BY <3>1
  <2> QED  BY <2>1 DEF Proceeds, Ends, Waiting
<1>5. ASSUME NEW blocks, NEW from, NEW irq, Starts(blocks, from, irq)
      PROVE  shaCmd'.execute = TRUE /\ shaCmd'.irq = irq /\ shaCmd'.failed = FALSE
  BY <1>5 DEF Starts
<1>6. ASSUME shaCmd' = [shaCmd EXCEPT !.execute = FALSE]
      PROVE  shaCmd'.execute = FALSE /\ shaCmd'.failed = shaCmd.failed
  <2>1. shaCmd' = [execute |-> FALSE, irq |-> shaCmd.irq, failed |-> shaCmd.failed, blocks |-> shaCmd.blocks]
    BY <1>6 DEF CmdIs
  <2> QED  BY <2>1
<1>7. CASE Generate
  <2>1. /\ ~ shaCmd.execute /\ ~ shaEvent /\ shaEvent' = shaEvent
        /\ \/ (Fails \/ Proceeds) /\ shaCmd' = [shaCmd EXCEPT !.execute = FALSE]
           \/ /\ sha' = [sha EXCEPT !.at = "event"]
              /\ \E blocks, from : Starts(blocks, from, TRUE)
           \/ /\ sha' = [sha EXCEPT !.at = "spin"]
              /\ \E blocks, from : Starts(blocks, from, FALSE)
    BY <1>7 DEF Generate, ShaPhase
  <2> QED  BY <1>1, <1>2, <1>3, <1>4, <1>5, <1>6, <2>1 DEF ShaPhase
<1>8. CASE Generated
  <2>1. /\ ~ shaCmd.execute /\ shaEvent' = FALSE
        /\ \/ (Fails \/ Proceeds) /\ shaCmd' = shaCmd
           \/ /\ sha' = [sha EXCEPT !.at = "spin"]
              /\ \E blocks, from : Starts(blocks, from, FALSE)
    BY <1>8 DEF Generated, ShaPhase
  <2> QED  BY <1>1, <1>2, <1>3, <1>4, <1>5, <2>1 DEF ShaPhase
<1>9. CASE Finalized
  <2>1. ~ shaCmd.execute /\ ~ shaEvent /\ UNCHANGED <<shaEvent, shaCmd>>
    BY <1>9 DEF Finalized, ShaPhase
  <2>2. sha'.at \in {"panic", "next", "wait"}
    BY <1>9, FinalizedIs DEF Ends, Waiting
  <2> QED  BY <1>1, <2>1, <2>2 DEF ShaPhase
<1> QED  BY <1>7, <1>8, <1>9 DEF ShaEngineHandler

LEMMA HandlerDigests ==
  ASSUME IInv, Digests, ShaEngineHandler, UNCHANGED callVars
  PROVE  Digests'
<1>1. sha.at # "wait"  BY DEF ShaEngineHandler, Generate, Generated, Finalized
<1>2. PICK m \in Message : m = sha.from  BY <1>1, InShaHands
<1>3. /\ ServedIs /\ CmdIs /\ request[m].kind \in {"sha", "mac", "verify"} /\ m # NULL
      /\ Context = IF request[m].kind = "verify" THEN NULL ELSE m
  BY <1>1, <1>2, InShaHands
<1>4. /\ ShaPhase /\ DOMAIN told = Message /\ DOMAIN answer = Message
      /\ DOMAIN ctx = Message \cup {NULL}
  BY DEF Digests, Domains
<1>5. /\ UNCHANGED <<request, errors, token, keyring>>
      /\ answer' = answer \/ \E x : answer' = [answer EXCEPT ![m] = x]
      /\ ctx' = ctx \/ \E x : ctx' = [ctx EXCEPT ![Context] = x]
    BY <1>2 DEF ShaEngineHandler, Generate, Generated, Finalized, callVars, Caller
<1>6. Comes(m)
  BY <1>2, GenerateComes, GeneratedComes, FinalizedComes DEF ShaEngineHandler
<1>7. /\ told' = told \/ \E x : told' = [told EXCEPT ![m] = x]
      /\ result' = result \/ \E x : result' = [result EXCEPT ![m] = x]
  BY <1>2, <1>6 DEF Comes, Continues, Stops, Failing, Ending, Ends, GoesOn, ReplyFailed, ResourceReply,
                    Caller
<1>8. OnlyFor(m)
  <2>1. Domains'  BY <1>4, <1>5, <1>7 DEF Domains
  <2>2. DOMAIN result = Message  BY DEF IInv, Accounts, RequestTypes
  <2>3. ASSUME NEW n \in Message \ {m}
        PROVE  /\ result'[n] = result[n] /\ told'[n] = told[n] /\ ctx'[n] = ctx[n]
               /\ answer'[n] = answer[n]
    <3>1. n # NULL /\ Context # n  BY <1>3, RequestsAssumption
    <3> QED  BY <1>4, <1>5, <1>7, <2>2, <3>1
  <2> QED  BY <1>5, <2>1, <2>3 DEF OnlyFor
<1>9. request[m].kind = "verify" => ctx'[m] = ctx[m]
  BY <1>3, <1>4, <1>5
<1>10. Domains' /\ (\A n \in Message : ThreadOK(n)') /\ Serving' /\ Panics'
  BY <1>1, <1>2, <1>5, <1>6, <1>8, <1>9, ComesKeeps
<1>11. ShaPhase'  BY <1>3, <1>4, PhaseStays
<1> QED  BY <1>10, <1>11 DEF Digests

-----------------------------------------------------------------------------
(* The calls that a request asks for.                                       *)
LEMMA SignedWith ==
  ASSUME NEW m \in Message, KeyKept(m), result[m] = "busy", request[m].kind = "mac",
         ~ request[m].hurried, sha.from # m, NEW s \in Signers(m)
  PROVE  s = NULL \/ s = request[m].secret
<1>1. Secret(request[m].handle) = request[m].secret  BY DEF KeyKept
<1> QED  BY <1>1 DEF Signers

LEMMA VerifyCalls ==
  ASSUME NEW m \in Message, RequestShape(m), request[m].kind = "verify", NEW s
  PROVE  LET c1 == request[m].claims[1]
             c2 == request[m].claims[2]
         IN Calls(request[m], s) = <<Filled(c1), Checked(c1), Filled(c2), Checked(c2)>>
<1> DEFINE c1 == request[m].claims[1]
           c2 == request[m].claims[2]
           claims == request[m].claims
           pair(c) == <<CallOf(Whole(c.data), "init"), [CallOf(Rest(c.data), "finalize") EXCEPT !.claim = c.hash]>>
           f == [i \in 1 .. Len(claims) |-> pair(claims[i])]
<1>1. claims = <<c1, c2>>  BY DEF RequestShape
<1>2. Calls(request[m], s) = VerifyHashesArray(claims)  BY DEF Calls
<1>3. VerifyHashesArray(claims) = FlattenSeq(f)  BY DEF VerifyHashesArray
<1>4. pair(c1) = <<Filled(c1), Checked(c1)>> /\ pair(c2) = <<Filled(c2), Checked(c2)>>
  <2>1. ASSUME NEW x, NEW y
        PROVE  [[data |-> x, command |-> "finalize", claim |-> << >>] EXCEPT !.claim = y]
                 = [data |-> x, command |-> "finalize", claim |-> y]
    OBVIOUS
  <2>2. ASSUME NEW c PROVE [CallOf(Rest(c.data), "finalize") EXCEPT !.claim = c.hash] = Checked(c)
    BY <2>1 DEF CallOf, Checked
  <2> QED  BY <2>2 DEF Filled
<1>5. f = <<pair(c1), pair(c2)>>
  <2> HIDE DEF pair, c1, c2
  <2> DEFINE g == <<pair(c1), pair(c2)>>
  <2>1. Len(claims) = 2 /\ claims[1] = c1 /\ claims[2] = c2
    <3> HIDE DEF claims
    <3> QED  BY <1>1
  <2> HIDE DEF claims
  <2>2. Sequence(g) /\ Len(g) = 2 /\ g[1] = pair(c1) /\ g[2] = pair(c2)  BY TurnsAre
  <2>3. f = [i \in 1 .. 2 |-> f[i]] /\ f[1] = pair(c1) /\ f[2] = pair(c2)
    <3>1. f = [i \in 1 .. 2 |-> pair(claims[i])]  BY <2>1
    <3>2. 1 \in 1 .. 2 /\ 2 \in 1 .. 2  OBVIOUS
    <3> HIDE DEF f
    <3>3. f[1] = pair(claims[1]) /\ f[2] = pair(claims[2])  BY <3>1, <3>2
    <3>4. f = [i \in 1 .. 2 |-> f[i]]  BY <3>1
    <3> QED  BY <2>1, <3>3, <3>4
  <2> HIDE DEF f, g
  <2>4. Sequence(f) /\ Len(f) = 2  BY <2>3, Made
  <2>5. \A i \in 1 .. 2 : i = 1 \/ i = 2  OBVIOUS
  <2>6. \A i \in 1 .. Len(f) : f[i] = g[i]  BY <2>2, <2>3, <2>4, <2>5
  <2>7. f = g  BY <2>2, <2>4, <2>6, SameSequence
  <2> QED  BY <2>7 DEF g
<1> HIDE DEF pair, f
<1>6. FlattenSeq(f) = <<Filled(c1), Checked(c1), Filled(c2), Checked(c2)>>
  <2>1. f = <<<<Filled(c1), Checked(c1)>>, <<Filled(c2), Checked(c2)>>>>  BY <1>4, <1>5
  <2> QED  BY <2>1, Chained
<1> QED  BY <1>2, <1>3, <1>6

LEMMA Unlesses ==
  ASSUME NEW x
  PROVE  /\ x = << >> => Unless(x) = << >>
         /\ x # << >> => Unless(x) = <<CallOf(x, "contribute")>>
BY DEF Unless

LEMMA CallsAre ==
  ASSUME NEW r, r.kind \in {"sha", "mac"}, r.command \in Command, NEW s
  PROVE  LET calls1 == Calls(r, s)
             key == CallOf(Key("inner", s), "init")
             custom == CallOf(r.custom, "contribute")
             input == CallOf(r.input, "contribute")
             last == CallOf(r.input, "finalize")
             outer == CallOf(Key("outer", s), "init")
         IN \/ r.kind = "sha" /\ calls1 = <<CallOf(r.input, r.command)>>
            \/ r.kind = "mac" /\ r.command = "init" /\
                 \/ r.custom = << >> /\ calls1 = <<key>>
                 \/ calls1 = <<key, custom>>
            \/ r.kind = "mac" /\ r.command = "contribute" /\
                 \/ calls1 = << >>
                 \/ r.custom = << >> /\ calls1 = <<input>>
                 \/ r.input = << >> /\ calls1 = <<custom>>
                 \/ calls1 = <<custom, input>>
            \/ r.kind = "mac" /\ r.command = "finalize" /\
                 \/ r.custom = << >> /\ calls1 = <<last, outer, FinalCall>>
                 \/ calls1 = <<custom, last, outer, FinalCall>>
<1> DEFINE key == CallOf(Key("inner", s), "init")
           custom == CallOf(r.custom, "contribute")
           input == CallOf(r.input, "contribute")
           last == CallOf(r.input, "finalize")
           outer == CallOf(Key("outer", s), "init")
<1>1. /\ r.kind = "sha" => Calls(r, s) = <<CallOf(r.input, r.command)>>
      /\ r.kind = "mac" /\ r.command = "init" => Calls(r, s) = <<key>> \o Unless(r.custom)
      /\ r.kind = "mac" /\ r.command = "contribute" => Calls(r, s) = Unless(r.custom) \o Unless(r.input)
      /\ r.kind = "mac" /\ r.command = "finalize" =>
           Calls(r, s) = Unless(r.custom) \o <<last, outer, FinalCall>>
  <2>1. CASE r.kind = "sha"  BY <2>1 DEF Calls
  <2>2. CASE r.kind = "mac" /\ r.command = "init"  BY <2>2 DEF Calls
  <2>3. CASE r.kind = "mac" /\ r.command = "contribute"  BY <2>3 DEF Calls
  <2>4. CASE r.kind = "mac" /\ r.command = "finalize"  BY <2>4 DEF Calls, FinalCall
  <2> QED  BY <2>1, <2>2, <2>3, <2>4 DEF Command
<1>2. /\ (r.custom = << >> /\ Unless(r.custom) = << >>) \/ Unless(r.custom) = <<custom>>
      /\ (r.input = << >> /\ Unless(r.input) = << >>) \/ Unless(r.input) = <<input>>
  BY Unlesses
<1>3. \A x, y : /\ <<x>> \o << >> = <<x>> /\ << >> \o <<x>> = <<x>> /\ <<x>> \o <<y>> = <<x, y>>
                /\ << >> \o << >> = << >>
  BY TurnsAre, NoSequence, JoinedEmpty, OneAndOne, Zenon
<1>4. << >> \o <<last, outer, FinalCall>> = <<last, outer, FinalCall>>  BY TurnsAre, JoinedEmpty
<1>5. <<custom>> \o <<last, outer, FinalCall>> = <<custom, last, outer, FinalCall>>  BY OneAndThree
<1> HIDE DEF key, custom, input, last, outer
<1>6. CASE r.kind = "sha"  BY <1>1, <1>6
<1>7. CASE r.kind = "mac" /\ r.command = "init"  BY <1>1, <1>2, <1>3, <1>7 DEF key, custom
<1>8. CASE r.kind = "mac" /\ r.command = "contribute"
  BY <1>1, <1>2, <1>3, <1>8 DEF input, custom
<1>9. CASE r.kind = "mac" /\ r.command = "finalize"
  BY <1>1, <1>2, <1>4, <1>5, <1>9 DEF last, outer, custom
<1> QED  BY <1>6, <1>7, <1>8, <1>9 DEF Command

LEMMA UnclaimedTurns ==
  ASSUME NEW a, NEW b, NEW c, NEW e,
         a.claim = << >>, b.claim = << >>, c.claim = << >>, e.claim = << >>,
         NEW s, s \in {<<a>>, <<a, b>>, <<a, b, c>>, <<a, b, c, e>>}
  PROVE  Sequence(s) /\ s # << >> /\ \A i \in 1 .. Len(s) : s[i].claim = << >>
<1>1. Sequence(s) /\ s # << >>  BY TurnsAre
<1>2. CASE s = <<a>>
  <2>1. Len(s) = 1 /\ s[1] = a  BY <1>2
  <2>2. \A i \in 1 .. 1 : i = 1  OBVIOUS
  <2> QED  BY <1>1, <2>1, <2>2
<1>3. CASE s = <<a, b>>
  <2>1. Len(s) = 2 /\ s[1] = a /\ s[2] = b  BY <1>3
  <2>2. \A i \in 1 .. 2 : i = 1 \/ i = 2  OBVIOUS
  <2> QED  BY <1>1, <2>1, <2>2
<1>4. CASE s = <<a, b, c>>
  <2>1. Len(s) = 3 /\ s[1] = a /\ s[2] = b /\ s[3] = c  BY <1>4
  <2>2. \A i \in 1 .. 3 : i = 1 \/ i = 2 \/ i = 3  OBVIOUS
  <2> QED  BY <1>1, <2>1, <2>2
<1>5. CASE s = <<a, b, c, e>>
  <2>1. Len(s) = 4 /\ s[1] = a /\ s[2] = b /\ s[3] = c /\ s[4] = e  BY <1>5
  <2> QED  BY <1>1, <2>1, OneOfFour
<1> QED  BY <1>2, <1>3, <1>4, <1>5

LEMMA CallsUnclaimed ==
  ASSUME NEW r, r.kind \in {"sha", "mac"}, r.command \in Command, NEW s, Calls(r, s) # << >>
  PROVE  LET calls1 == Calls(r, s)
         IN Sequence(calls1) /\ calls1 # << >> /\ \A i \in 1 .. Len(calls1) : calls1[i].claim = << >>
<1> DEFINE calls1 == Calls(r, s)
           key == CallOf(Key("inner", s), "init")
           custom == CallOf(r.custom, "contribute")
           input == CallOf(r.input, "contribute")
           last == CallOf(r.input, "finalize")
           outer == CallOf(Key("outer", s), "init")
           only == CallOf(r.input, r.command)
<1>1. calls1 \in { <<only>>, <<key>>, <<key, custom>>, <<input>>, <<custom>>, <<custom, input>>,
                   <<last, outer, FinalCall>>, <<custom, last, outer, FinalCall>> }
  BY CallsAre
<1>2. /\ only.claim = << >> /\ key.claim = << >> /\ custom.claim = << >> /\ input.claim = << >>
      /\ last.claim = << >> /\ outer.claim = << >> /\ FinalCall.claim = << >>
  BY CallIs, FinalCallIs
<1> HIDE DEF calls1, key, custom, input, last, outer, only
<1> DEFINE Good(u) == Sequence(u) /\ u # << >> /\ \A i \in 1 .. Len(u) : u[i].claim = << >>
<1>3. Good(<<only>>) /\ Good(<<key>>) /\ Good(<<input>>) /\ Good(<<custom>>)
  <2>1. ASSUME NEW x, x.claim = << >> PROVE Good(<<x>>)  BY <2>1, UnclaimedTurns
  <2> HIDE DEF Good
  <2> QED  BY <1>2, <2>1
<1>4. Good(<<key, custom>>) /\ Good(<<custom, input>>)
  <2>1. ASSUME NEW x, NEW y, x.claim = << >>, y.claim = << >> PROVE Good(<<x, y>>)
    BY <2>1, UnclaimedTurns
  <2> HIDE DEF Good
  <2> QED  BY <1>2, <2>1
<1>5. Good(<<last, outer, FinalCall>>)
  <2>1. <<last, outer, FinalCall>> \in { <<last>>, <<last, outer>>, <<last, outer, FinalCall>>,
                                          <<last, outer, FinalCall, last>> }
    OBVIOUS
  <2> QED  BY <1>2, <2>1, UnclaimedTurns, SMTT(60)
<1>6. Good(<<custom, last, outer, FinalCall>>)
  <2>1. <<custom, last, outer, FinalCall>> \in { <<custom>>, <<custom, last>>, <<custom, last, outer>>,
                                                  <<custom, last, outer, FinalCall>> }
    OBVIOUS
  <2> QED  BY <1>2, <2>1, UnclaimedTurns, ZenonT(60)
<1>7. Good(calls1)
  <2>1. calls1 # << >>  BY DEF calls1
  <2> HIDE DEF Good
  <2> QED  BY <1>1, <1>3, <1>4, <1>5, <1>6, <2>1
<1> QED  BY <1>7 DEF calls1

(* What the calls of a request come to.                                     *)
LEMMA GoalParts ==
  ASSUME NEW m \in Message, RequestShape(m), ToldOK(m), request[m].kind \in {"sha", "mac"},
         Promised(m).sound
  PROVE  LET r == request[m]
             d == Said(told[m])
         IN /\ Plain(r.custom) /\ Plain(r.input) /\ r.command \in Command /\ ~ r.hurried
            /\ r.command # "init" =>
                 /\ told[m].sound /\ Sequence(d)
                 /\ Goal(m) = d \o (r.custom \o r.input)
                 /\ Goal(m) = (d \o r.custom) \o r.input
                 /\ r.custom = << >> => Goal(m) = d \o r.input
                 /\ r.input = << >> => Goal(m) = d \o r.custom
            /\ r.command = "init" =>
                 /\ r.kind = "sha" => /\ Goal(m) = r.input /\ Len(r.input) \notin 1 .. Block - 1
                 /\ r.kind = "mac" /\ r.secret # NULL =>
                      /\ Goal(m) = Key("inner", r.secret) \o r.custom
                      /\ r.custom = << >> => Goal(m) = Key("inner", r.secret)
<1> DEFINE r == request[m]
           t == told[m]
           p == Promised(m)
           new == r.custom \o r.input
<1>1. /\ Plain(p.data) /\ Plain(r.custom) /\ Plain(r.input) /\ Plain(new) /\ r.command \in Command
      /\ p.key = IF r.command = "init" THEN r.secret ELSE t.key
      /\ p.data = IF r.command = "init" THEN new ELSE t.data \o new
      /\ ~ r.hurried /\ (r.command # "init" => t.sound)
      /\ r.command = "init" /\ r.kind = "sha" => Len(new) \notin 1 .. Block - 1
  BY PromisedIs
<1>2. Goal(m) = Prefix(p) \o p.data  BY DEF Goal, Said
<1>3. Plain(t.data)  BY DEF ToldOK
<1> HIDE DEF p
<1>4. \A x : Plain(x) => Sequence(x) /\ << >> \o x = x /\ x \o << >> = x  BY PlainIs, JoinedEmpty
<1>5. CASE r.command # "init"
  <2> DEFINE d == Said(t)
             f == Prefix(t)
  <2>1. Prefix(p) = f /\ p.data = t.data \o new  BY <1>1, <1>5 DEF Prefix
  <2>2. Sequence(f)  BY NoSequence, KeyIs DEF Prefix, Plain
  <2>3. d = f \o t.data  BY DEF Said
  <2> HIDE DEF f, d
  <2>4. Sequence(d) /\ Goal(m) = d \o new
    <3>1. Sequence(t.data) /\ Sequence(new)  BY <1>1, <1>3, <1>4
    <3>2. f \o (t.data \o new) = (f \o t.data) \o new
      <4> DEFINE x == t.data
      <4>1. Sequence(x) /\ Sequence(new)  BY <3>1
      <4> HIDE DEF x, new
      <4>2. (f \o x) \o new = f \o (x \o new)  BY <2>2, <4>1, Associated
      <4> QED  BY <4>2 DEF x
    <3>3. Sequence(f \o t.data)  BY <2>2, <3>1, Joined
    <3> QED  BY <1>2, <2>1, <2>3, <3>2, <3>3
  <2>5. Goal(m) = (d \o r.custom) \o r.input
    <3> DEFINE x == r.custom
               y == r.input
    <3>1. Sequence(x) /\ Sequence(y)  BY <1>1, <1>4
    <3>2. Goal(m) = d \o (x \o y)  BY <2>4
    <3> HIDE DEF x, y
    <3>3. (d \o x) \o y = d \o (x \o y)  BY <2>4, <3>1, Associated
    <3>4. Goal(m) = (d \o x) \o y  BY <3>2, <3>3
    <3> QED  BY <3>4 DEF x, y
  <2>6. r.custom = << >> => Goal(m) = d \o r.input  BY <1>1, <1>4, <2>4
  <2>7. r.input = << >> => Goal(m) = d \o r.custom  BY <1>1, <1>4, <2>4
  <2> QED  BY <1>1, <1>5, <2>4, <2>5, <2>6, <2>7, ZenonT(60) DEF d
<1>6. CASE r.command = "init"
  <2>1. p.data = new /\ p.key = r.secret  BY <1>1, <1>6
  <2>2. r.kind = "sha" => r.secret = NULL /\ new = r.input
    <3>1. r.kind = "sha" => r.secret = NULL /\ r.custom = << >>  BY DEF RequestShape
    <3> QED  BY <1>1, <1>4, <3>1
  <2>3. r.kind = "mac" => new = r.custom
    <3>1. r.kind = "mac" => r.input = << >>  BY <1>6 DEF RequestShape
    <3> QED  BY <1>1, <1>4, <3>1
  <2>4. r.kind = "sha" => Goal(m) = r.input
    BY <1>1, <1>2, <1>4, <2>1, <2>2, ZenonT(60) DEF Prefix
  <2>5. r.kind = "mac" /\ r.secret # NULL => Goal(m) = Key("inner", r.secret) \o r.custom
    BY <1>2, <2>1, <2>3 DEF Prefix
  <2>6. Key("inner", r.secret) \o << >> = Key("inner", r.secret)  BY <1>4, KeyIs
  <2> QED  BY <1>1, <1>6, <2>2, <2>4, <2>5, <2>6
<1> QED  BY <1>5, <1>6

LEMMA FeedingIs ==
  ASSUME NEW x, Plain(x), NEW command \in {"init", "contribute"},
         command = "init" => Len(x) \notin 1 .. Block - 1
  PROVE  Feeding(CallOf(x, command))
<1>1. CallOf(x, command).data = x /\ CallOf(x, command).command = command  BY CallIs
<1> QED  BY <1>1 DEF Feeding

LEMMA HashingOne ==
  ASSUME NEW m, NEW d, NEW c, sha'.todo = <<c>>, request'[m].command # "finalize", Feeding(c),
         Before(c, d) \o c.data = Goal(m)'
  PROVE  Hashing(m, d)'
<1>1. Len(sha'.todo) = 1 /\ sha'.todo[1] = c /\ sha'.todo = <<sha'.todo[1]>>  BY Turns
<1> QED  BY <1>1 DEF Hashing

LEMMA HashingTwo ==
  ASSUME NEW m, NEW d, NEW a, NEW b, sha'.todo = <<a, b>>, request'[m].command # "finalize",
         Feeding(a), Feeding(b), b.command = "contribute",
         (Before(a, d) \o a.data) \o b.data = Goal(m)'
  PROVE  Hashing(m, d)'
<1>1. Len(sha'.todo) = 2 /\ sha'.todo[1] = a /\ sha'.todo[2] = b  BY Turns
<1>2. sha'.todo = <<sha'.todo[1], sha'.todo[2]>>  BY <1>1
<1> QED  BY <1>1, <1>2 DEF Hashing

LEMMA TakeHashes ==
  ASSUME NEW m \in Message, RequestShape(m), ToldOK(m), request[m].kind \in {"sha", "mac"},
         Promised(m).sound, result[m] = "busy", ~ InUse(m), NEW s,
         request[m].kind = "mac" /\ request[m].command # "contribute" => s = request[m].secret /\ s # NULL,
         Calls(request[m], s) # << >>, UNCHANGED <<request, ctx, told>>,
         sha'.at = "next", sha'.from = m, sha'.todo = Calls(request[m], s)
  PROVE  \E d : Serves(m, d)'
<1> DEFINE r == request[m]
           goal == Goal(m)
           todo == Calls(r, s)
           key == CallOf(Key("inner", s), "init")
           custom == CallOf(r.custom, "contribute")
           input == CallOf(r.input, "contribute")
           last == CallOf(r.input, "finalize")
<1>1. /\ Plain(r.custom) /\ Plain(r.input) /\ r.command \in Command
      /\ r.command # "init" =>
           /\ told[m].sound /\ Sequence(Said(told[m]))
           /\ goal = Said(told[m]) \o (r.custom \o r.input)
           /\ goal = (Said(told[m]) \o r.custom) \o r.input
           /\ r.custom = << >> => goal = Said(told[m]) \o r.input
           /\ r.input = << >> => goal = Said(told[m]) \o r.custom
      /\ r.command = "init" =>
           /\ r.kind = "sha" => goal = r.input /\ Len(r.input) \notin 1 .. Block - 1
           /\ r.kind = "mac" /\ r.secret # NULL =>
                /\ goal = Key("inner", r.secret) \o r.custom
                /\ r.custom = << >> => goal = Key("inner", r.secret)
  BY GoalParts
<1>2. /\ request'[m] = r /\ Goal(m)' = goal /\ Context' = m
  BY DEF Goal, Promised, Context, Caller
<1>3. \/ r.kind = "sha" /\ todo = <<CallOf(r.input, r.command)>>
      \/ r.kind = "mac" /\ r.command = "init" /\ r.custom = << >> /\ todo = <<key>>
      \/ r.kind = "mac" /\ r.command = "init" /\ todo = <<key, custom>>
      \/ r.kind = "mac" /\ r.command = "contribute" /\ r.custom = << >> /\ todo = <<input>>
      \/ r.kind = "mac" /\ r.command = "contribute" /\ r.input = << >> /\ todo = <<custom>>
      \/ r.kind = "mac" /\ r.command = "contribute" /\ todo = <<custom, input>>
      \/ r.kind = "mac" /\ r.command = "finalize" /\ r.custom = << >> /\ todo = <<last, Outer(r), FinalCall>>
      \/ r.kind = "mac" /\ r.command = "finalize" /\ todo = <<custom, last, Outer(r), FinalCall>>
  BY <1>1, CallsAre DEF Outer
<1>4. \A x : Plain(x) => << >> \o x = x  BY PlainIs, JoinedEmpty
<1>5. CASE r.command = "init"
  <2> DEFINE k == Key("inner", s)
  <2>1. /\ Plain(k) /\ Len(k) \notin 1 .. Block - 1 /\ key.data = k /\ key.command = "init"
        /\ custom.data = r.custom /\ custom.command = "contribute"
        /\ CallOf(r.input, "init").data = r.input /\ CallOf(r.input, "init").command = "init"
    BY KeyIs, CallIs, BlockSize
  <2>2. Before(key, << >>) = << >> /\ Before(CallOf(r.input, "init"), << >>) = << >>
    BY <2>1 DEF Before
  <2>3. request'[m].command # "finalize"  BY <1>2, <1>5
  <2>4. CASE r.kind = "sha"
    <3>1. sha'.todo = <<CallOf(r.input, "init")>>  BY <1>3, <1>5, <2>4
    <3>2. Feeding(CallOf(r.input, "init"))  BY <1>1, <1>5, <2>4, FeedingIs
    <3>3. Before(CallOf(r.input, "init"), << >>) \o CallOf(r.input, "init").data = Goal(m)'
      BY <1>1, <1>2, <1>4, <1>5, <2>1, <2>2, <2>4, ZenonT(60)
    <3>4. Hashing(m, << >>)'  BY <2>3, <3>1, <3>2, <3>3, HashingOne
    <3>5. Call' = CallOf(r.input, "init")  BY <3>1, Turns DEF Call
    <3>6. Registers(<< >>)'  BY <2>1, <3>5, NextRegisters
    <3> QED  BY <1>2, <2>4, <3>4, <3>6, NoSequence DEF Serves
  <2>5. CASE r.kind = "mac"
    <3>1. s = r.secret /\ s # NULL  BY <1>5, <2>5
    <3>2. /\ goal = k \o r.custom /\ (r.custom = << >> => goal = k)
      BY <1>1, <1>5, <2>5, <3>1
    <3>3. Feeding(key)  BY <2>1, FeedingIs
    <3>4. Feeding(custom)  BY <1>1, FeedingIs
    <3>5. << >> \o k = k  BY <1>4, <2>1
    <3>6. CASE r.custom = << >> /\ todo = <<key>>
      <4>1. Before(key, << >>) \o key.data = Goal(m)'  BY <1>2, <2>1, <2>2, <3>2, <3>5, <3>6
      <4>2. Hashing(m, << >>)'
        <5>1. sha'.todo = <<key>>  BY <3>6
        <5> HIDE DEF key
        <5> QED  BY <2>3, <3>3, <4>1, <5>1, HashingOne
      <4>3. Call' = key  BY <3>6, Turns DEF Call
      <4>4. Registers(<< >>)'  BY <2>1, <4>3, NextRegisters
      <4> QED  BY <1>2, <2>5, <4>2, <4>4, NoSequence DEF Serves
    <3>7. CASE todo = <<key, custom>>
      <4>1. (Before(key, << >>) \o key.data) \o custom.data = Goal(m)'
        BY <1>2, <2>1, <2>2, <3>2, <3>5
      <4>2. Hashing(m, << >>)'
        <5>1. sha'.todo = <<key, custom>>  BY <3>7
        <5> HIDE DEF key, custom
        <5> QED  BY <2>1, <2>3, <3>3, <3>4, <4>1, <5>1, HashingTwo, ZenonT(60)
      <4>3. Call' = key  BY <3>7, Turns DEF Call
      <4>4. Registers(<< >>)'  BY <2>1, <4>3, NextRegisters
      <4> QED  BY <1>2, <2>5, <4>2, <4>4, NoSequence DEF Serves
    <3> QED  BY <1>3, <1>5, <2>5, <3>6, <3>7
  <2> QED  BY <2>4, <2>5
<1>6. CASE r.command # "init"
  <2>1. PICK d : d = Said(told[m])  OBVIOUS
  <2>2. Sequence(d) /\ ctx'[Context'] = Holding(d) /\ Full(d)
    <3>1. told[m].sound /\ ~ UsedUp(m)  BY <1>1, <1>6 DEF UsedUp
    <3> QED  BY <1>1, <1>2, <1>6, <2>1, <3>1 DEF ToldOK
  <2>3. Registers(d)'  BY <2>2, NextRegisters
  <2>4. /\ custom.data = r.custom /\ custom.command = "contribute"
        /\ input.data = r.input /\ input.command = "contribute"
    BY CallIs
  <2>5. Before(custom, d) = d /\ Before(input, d) = d  BY <2>4 DEF Before
  <2>6. Feeding(custom) /\ Feeding(input)  BY <1>1, FeedingIs
  <2>7. Hashing(m, d)'
    <3>1. CASE r.command = "contribute"
      <4>1. request'[m].command # "finalize"  BY <1>2, <3>1
      <4>2. CASE sha'.todo = <<input>> /\ d \o r.input = goal
        <5>1. Before(input, d) \o input.data = Goal(m)'  BY <1>2, <2>4, <2>5, <4>2
        <5> HIDE DEF input
        <5> QED  BY <2>6, <4>1, <4>2, <5>1, HashingOne
      <4>3. CASE sha'.todo = <<custom>> /\ d \o r.custom = goal
        <5>1. Before(custom, d) \o custom.data = Goal(m)'  BY <1>2, <2>4, <2>5, <4>3
        <5> HIDE DEF custom
        <5> QED  BY <2>6, <4>1, <4>3, <5>1, HashingOne
      <4>4. CASE sha'.todo = <<custom, input>> /\ (d \o r.custom) \o r.input = goal
        <5>1. (Before(custom, d) \o custom.data) \o input.data = Goal(m)'  BY <1>2, <2>4, <2>5, <4>4
        <5> HIDE DEF custom, input
        <5> QED  BY <2>4, <2>6, <4>1, <4>4, <5>1, HashingTwo, ZenonT(60)
      <4>5. r.kind = "sha" => r.custom = << >>  BY DEF RequestShape
      <4> QED  BY <1>1, <1>3, <1>6, <2>1, <3>1, <4>2, <4>3, <4>4, <4>5
    <3>2. CASE r.command = "finalize"
      <4>1. CASE r.kind = "sha"
        <5>1. sha'.todo = <<CallOf(r.input, "finalize")>>  BY <1>3, <3>2, <4>1
        <5>2. d \o r.input = Goal(m)'
          <6>1. r.custom = << >>  BY <4>1 DEF RequestShape
          <6> QED  BY <1>1, <1>2, <1>6, <2>1, <6>1
        <5> QED  BY <1>2, <3>2, <4>1, <5>1, <5>2 DEF Hashing, CallOf
      <4>2. CASE r.kind = "mac" /\ r.custom = << >> /\ todo = <<last, Outer(r), FinalCall>>
        <5>1. sha'.todo = <<CallOf(r.input, "finalize"), Outer(r), FinalCall>>  BY <4>2
        <5>2. d \o r.input = Goal(m)'  BY <1>1, <1>2, <1>6, <2>1, <4>2
        <5> QED  BY <1>2, <3>2, <4>2, <5>1, <5>2 DEF Hashing, CallOf, Outer, FinalCall
      <4>3. CASE r.kind = "mac" /\ todo = <<custom, last, Outer(r), FinalCall>>
        <5>1. sha'.todo = <<CallOf(r.custom, "contribute"), CallOf(r.input, "finalize"), Outer(r), FinalCall>>
          BY <4>3
        <5>2. (d \o r.custom) \o r.input = Goal(m)'  BY <1>1, <1>2, <1>6, <2>1
        <5> QED  BY <1>2, <3>2, <4>3, <5>1, <5>2 DEF Hashing, CallOf, Outer, FinalCall
      <4> QED  BY <1>3, <3>2, <4>1, <4>2, <4>3
    <3> QED  BY <1>1, <1>6, <3>1, <3>2 DEF Command
  <2> QED  BY <1>2, <2>2, <2>3, <2>7 DEF Serves
<1> QED  BY <1>5, <1>6

(* A request that is answered without the engine keeps its context.         *)
LEMMA MineStays ==
  ASSUME NEW m \in Message, ThreadOK(m), result[m] = "busy", sha.from # m,
         request[m].kind # NULL, request'[m] = request[m], told'[m] = told[m], ctx'[m] = ctx[m],
         result'[m] \in {"ok", "failed"},
         result'[m] = "ok" => request[m].kind # "verify" /\ request[m].command # "finalize"
  PROVE  ThreadOK(m)'
<1>1. RequestShape(m)'
  <2>1. RequestShape(m)  BY DEF ThreadOK
  <2> QED  BY <2>1 DEF RequestShape, ClaimOK
<1>2. KeyKept(m)'  BY DEF KeyKept
<1>3. ToldOK(m)'
  <2>1. ToldOK(m) /\ ~ UsedUp(m) /\ ~ InUse(m)  BY DEF ThreadOK, UsedUp, InUse
  <2> QED  BY <2>1 DEF ToldOK
<1>4. AnswerOK(m)'
  <2>1. CASE result'[m] = "ok"
    <3>1. request'[m].claims = << >>  BY <2>1 DEF ThreadOK, RequestShape
    <3>2. Genuine(m)'
      <4>1. DOMAIN request'[m].claims = {}  BY <3>1
      <4> QED  BY <4>1 DEF Genuine
    <3> QED  BY <2>1, <3>2 DEF AnswerOK, Owes
  <2>2. CASE result'[m] # "ok"  BY <2>2 DEF AnswerOK
  <2> QED  BY <2>1, <2>2
<1> QED  BY <1>1, <1>2, <1>3, <1>4 DEF ThreadOK

LEMMA NoCallsAre ==
  ASSUME NEW m \in Message, RequestShape(m), request[m].kind \in {"sha", "mac", "verify"},
         NEW s, Calls(request[m], s) = << >>
  PROVE  request[m].kind # "verify" /\ request[m].command # "finalize"
<1> DEFINE r == request[m]
<1>1. \A a, b, c, e : /\ <<a>> # << >> /\ <<a, b, c>> # << >> /\ <<a, b, c, e>> # << >>
  BY TurnsAre
<1>2. r.kind # "verify"
  <2>1. r.kind = "verify" => Calls(r, s) # << >>  BY <1>1, VerifyCalls
  <2> QED  BY <2>1
<1>3. r.command \in Command  BY <1>2 DEF RequestShape
<1>4. r.command # "finalize"
  <2> SUFFICES ASSUME r.command = "finalize" PROVE FALSE  OBVIOUS
  <2>1. \E a, b, c, e : Calls(r, s) \in {<<a>>, <<a, b, c>>, <<a, b, c, e>>}
    <3>1. r.kind \in {"sha", "mac"}  BY <1>2
    <3>2. \/ Calls(r, s) = <<CallOf(r.input, r.command)>>
          \/ Calls(r, s) = <<CallOf(r.input, "finalize"), CallOf(Key("outer", s), "init"), FinalCall>>
          \/ Calls(r, s) = <<CallOf(r.custom, "contribute"), CallOf(r.input, "finalize"),
                             CallOf(Key("outer", s), "init"), FinalCall>>
      BY <1>3, <3>1, CallsAre
    <3> QED  BY <3>2
  <2> QED  BY <1>1, <2>1
<1> QED  BY <1>2, <1>4

(* The calls of a request that the thread takes up are the right ones.      *)
LEMMA TakeContinues ==
  ASSUME NEW m \in Message, ThreadOK(m), result[m] = "busy", sha.from # m,
         request[m].kind \in {"sha", "mac", "verify"}, NEW s \in Signers(m),
         request[m].kind = "mac" /\ request[m].command # "contribute" => s # NULL,
         Calls(request[m], s) # << >>, UNCHANGED <<request, ctx>>, GoesOn,
         sha'.at = "next", sha'.from = m, sha'.todo = Calls(request[m], s)
  PROVE  Continues(m)
<1>1. RequestShape(m) /\ KeyKept(m) /\ ToldOK(m) /\ ~ InUse(m)  BY DEF ThreadOK, InUse
<1>2. ASSUME request[m].kind = "verify" PROVE \E d : Serves(m, d)'
  <2> DEFINE c1 == request[m].claims[1]
             c2 == request[m].claims[2]
  <2>1. sha'.todo = <<Filled(c1), Checked(c1), Filled(c2), Checked(c2)>>  BY <1>1, <1>2, VerifyCalls
  <2>2. Verifying(m, << >>)'  BY <2>1 DEF Verifying, Filled, Checked
  <2>3. Call'.command = "init"
    <3>1. Call' = Filled(c1)  BY <2>1, Turns DEF Call
    <3>2. Filled(c1).command = "init"  BY CallIs DEF Filled
    <3> QED  BY <3>1, <3>2
  <2>4. Registers(<< >>)'  BY <2>3, NextRegisters
  <2> QED  BY <1>2, <2>2, <2>4, NoSequence DEF Serves
<1>3. ASSUME request[m].kind # "verify"
      PROVE  Unclaimed' /\ (Promised(m).sound => \E d : Serves(m, d)')
  <2>1. request[m].kind \in {"sha", "mac"} /\ request[m].command \in Command
    BY <1>1, <1>3 DEF RequestShape
  <2>2. Unclaimed'
    <3> DEFINE todo == Calls(request[m], s)
    <3>1. Sequence(todo) /\ todo # << >> /\ \A i \in 1 .. Len(todo) : todo[i].claim = << >>
      BY <2>1, CallsUnclaimed
    <3>2. sha'.todo = todo  OBVIOUS
    <3> HIDE DEF todo
    <3> QED  BY <3>1, <3>2 DEF Unclaimed
  <2>3. ASSUME Promised(m).sound PROVE \E d : Serves(m, d)'
    <3>1. ~ request[m].hurried  BY <1>1, <2>1, <2>3, GoalParts
    <3>2. request[m].kind = "mac" => s = NULL \/ s = request[m].secret
      BY <1>1, <3>1, SignedWith
    <3>3. request[m].kind = "mac" /\ request[m].command # "contribute" =>
            s = request[m].secret /\ s # NULL
      BY <3>2
    <3>4. UNCHANGED told  BY DEF GoesOn
    <3> QED  BY <1>1, <2>1, <2>3, <3>3, <3>4, TakeHashes
  <2> QED  BY <2>2, <2>3
<1> QED  BY <1>2, <1>3, ContinuesWith

LEMMA TakeDigests ==
  ASSUME IInv, Digests, shaQueue # << >>, NEW m, m = Head(shaQueue), NEW s \in Signers(m),
         ShaTakes(m, s), UNCHANGED callVars
  PROVE  Digests'
<1>1. /\ sha.at = "wait" /\ sha.from = NULL /\ shaQueue \in Seq(Message)
      /\ Has(shaQueue, NULL, ForSha)
  BY DEF ShaTakes, IInv, ShaOK, ShaTypes, ShaHas
<1>2. m \in ForSha /\ m \in Message  BY <1>1, HasTake
<1>3. result[m] = "busy" /\ request[m].src = NULL /\ sha.from # m
  BY <1>1, <1>2, RequestsAssumption DEF ForSha
<1>4. ThreadOK(m) /\ RequestShape(m)  BY <1>2 DEF Digests, ThreadOK
<1>5. request[m].kind \in {"sha", "mac", "plain", "verify"} /\ request[m].kind # NULL
  BY <1>3, <1>4 DEF RequestShape
<1>6. UNCHANGED <<request, ctx, answer, errors, shaCmd, shaEvent, token, keyring>>
  BY DEF ShaTakes, callVars
<1>7. /\ DOMAIN told = Message /\ DOMAIN result = Message /\ Domains /\ ShaPhase
  BY DEF Digests, Domains, IInv, Accounts, RequestTypes
<1>8. /\ told' = told \/ told' = [told EXCEPT ![m] = NothingTold]
      /\ result' = result \/ \E x : result' = [result EXCEPT ![m] = x]
  BY DEF ShaTakes, ResourceReply, ReplyFailed, GoesOn
<1>9. ASSUME NEW n \in Message, n # m PROVE ThreadOK(n)'
  <2>1. ThreadOK(n) /\ KeyKept(n) /\ sha.from # n
    BY <1>1, RequestsAssumption DEF Digests, ThreadOK
  <2>2. result'[n] = result[n] /\ told'[n] = told[n]  BY <1>7, <1>8, <1>9
  <2>3. shaQueue # <<n>>
    <3>1. Head(<<n>>) = n  BY Turns
    <3> QED  BY <1>9, <3>1
  <2>4. KeyKept(n)'  BY <1>6, <2>1, <2>2, <2>3, KeyStays
  <2> QED  BY <1>6, <2>1, <2>2, <2>4, OthersStay
<1>10. Domains'  BY <1>6, <1>7, <1>8 DEF Domains
<1>11. ASSUME sha' = sha PROVE ShaPhase' /\ Serving' /\ Panics'
  BY <1>1, <1>6, <1>7, <1>11 DEF ShaPhase, Serving, Panics
<1>12. ThreadOK(m)' /\ ShaPhase' /\ Serving' /\ Panics'
  <2>1. CASE WrongCount(request[m])
    <3>1. result'[m] = "failed" /\ UNCHANGED <<told, sha>>
      BY <1>2, <1>7, <2>1 DEF ShaTakes, ResourceReply
    <3>2. ThreadOK(m)'  BY <1>2, <1>3, <1>4, <1>5, <1>6, <3>1, MineStays
    <3> QED  BY <1>11, <3>1, <3>2
  <2>2. CASE /\ ~ WrongCount(request[m])
             /\ request[m].kind = "mac" /\ request[m].command # "contribute" /\ s = NULL
    <3>1. result'[m] = "failed" /\ told'[m] = NothingTold /\ UNCHANGED sha
      BY <1>2, <1>7, <2>2 DEF ShaTakes, ReplyFailed, ResourceReply
    <3>2. ThreadOK(m)'  BY <1>2, <1>4, <1>5, <1>6, <3>1, MineFails
    <3> QED  BY <1>11, <3>1, <3>2
  <2>3. CASE /\ ~ WrongCount(request[m])
             /\ ~ (request[m].kind = "mac" /\ request[m].command # "contribute" /\ s = NULL)
    <3>1. request[m].kind \in {"sha", "mac", "verify"}  BY <1>5, <2>3 DEF WrongCount
    <3>2. CASE Calls(request[m], s) = << >>
      <4>1. result'[m] = "ok" /\ UNCHANGED <<told, sha>>
        BY <1>2, <1>7, <2>3, <3>2 DEF ShaTakes, ResourceReply
      <4>2. request[m].kind # "verify" /\ request[m].command # "finalize"
        BY <1>2, <1>4, <3>1, <3>2, NoCallsAre
      <4>3. ThreadOK(m)'  BY <1>2, <1>3, <1>4, <1>5, <1>6, <4>1, <4>2, MineStays
      <4> QED  BY <1>11, <4>1, <4>3
    <3>3. CASE Calls(request[m], s) # << >>
      <4>1. /\ sha' = [at |-> "next", from |-> m, todo |-> Calls(request[m], s),
                       final |-> << >>, good |-> TRUE]
            /\ GoesOn
        BY <2>3, <3>3 DEF ShaTakes
      <4>2. sha'.at = "next" /\ sha'.from = m /\ sha'.todo = Calls(request[m], s)  BY <4>1
      <4>3. Continues(m)
        BY <1>2, <1>3, <1>4, <1>6, <2>3, <3>1, <3>3, <4>1, <4>2, TakeContinues
      <4>4. ThreadOK(m)'
        BY <1>2, <1>3, <1>4, <1>6, <4>1, <4>2, MineGoesOn DEF GoesOn
      <4>5. ShaPhase'  BY <1>1, <1>6, <1>7, <4>2 DEF ShaPhase
      <4> QED  BY <4>2, <4>3, <4>4, <4>5 DEF Continues, Panics
    <3> QED  BY <3>2, <3>3
  <2> QED  BY <2>1, <2>2, <2>3
<1> QED  BY <1>9, <1>10, <1>12 DEF Digests

-----------------------------------------------------------------------------
(* Steps that are not the SHA thread's nor a program's.                     *)
Untouched(m) == request'[m] = request[m] /\ told'[m] = told[m]
LEMMA ServesStayFor ==
  ASSUME NEW m, NEW d, Untouched(m), UNCHANGED sha, Serves(m, d), Registers(d)'
  PROVE  Serves(m, d)'
<1>1. Goal(m)' = Goal(m)  BY DEF Goal, Promised, Untouched
<1>2. Verifying(m, d) => Verifying(m, d)'  BY DEF Verifying, Filled, Checked, Right, Untouched
<1>3. Hashing(m, d) => Hashing(m, d)'  BY <1>1, Zenon DEF Hashing, Feeding, Untouched
<1> QED  BY <1>2, <1>3 DEF Serves, Untouched

LEMMA ServingStays ==
  ASSUME Serving, NEW m, m = sha.from, sha.at # "wait" => Untouched(m), UNCHANGED sha,
         ASSUME NEW d, sha.at \in {"next", "event", "spin"}, Registers(d) PROVE Registers(d)'
  PROVE  Serving'
<1> SUFFICES ASSUME sha.at \in {"next", "event", "spin"} PROVE Serving'
  BY DEF Serving
<1>1. Untouched(m) /\ request'[m] = request[m]  BY DEF Untouched
<1>2. ASSUME NEW d, Serves(m, d) PROVE Serves(m, d)'
  <2>1. Registers(d)'  BY <1>2 DEF Serves
  <2> QED  BY <1>1, <1>2, <2>1, ServesStayFor
<1>3. Promised(m)' = Promised(m)  BY <1>1 DEF Promised, Untouched
<1>4. CASE request[m].kind = "verify"
  <2>1. PICK d : Serves(m, d)  BY <1>1, <1>4 DEF Serving, Serves
  <2>2. Sequence(d) /\ Verifying(m, d)' /\ Registers(d)'  BY <1>1, <1>2, <1>4, <2>1 DEF Serves
  <2>3. \E d1 : (Sequence(d1) /\ Verifying(m, d1) /\ Registers(d1))'  BY <2>2
  <2> QED  BY <1>1, <1>4, <2>3 DEF Serving
<1>5. CASE request[m].kind # "verify"
  <2>1. Unclaimed'  BY <1>1, <1>5 DEF Serving, Unclaimed
  <2>2. ASSUME Promised(m).sound PROVE \E d1 : (Sequence(d1) /\ Hashing(m, d1) /\ Registers(d1))'
    <3>1. PICK d : Serves(m, d)  BY <1>1, <1>5, <2>2 DEF Serving, Serves
    <3>2. Sequence(d) /\ Hashing(m, d)' /\ Registers(d)'  BY <1>1, <1>2, <1>5, <3>1 DEF Serves
    <3> QED  BY <3>2
  <2> QED  BY <1>1, <1>3, <1>5, <2>1, <2>2 DEF Serving
<1> QED  BY <1>4, <1>5

LEMMA ThreadsStay ==
  ASSUME Digests, UNCHANGED <<request, ctx, told, answer, sha, shaQueue, token, keyring>>,
         \A m \in Message : \/ result'[m] = result[m]
                            \/ /\ request[m].kind = "aes" /\ result[m] = "busy"
                               /\ result'[m] \in {"ok", "failed"}
  PROVE  Domains' /\ \A m \in Message : ThreadOK(m)'
<1>1. Domains'  BY DEF Digests, Domains
<1>2. ASSUME NEW m \in Message PROVE ThreadOK(m)'
  <2>1. RequestShape(m) /\ KeyKept(m) /\ ToldOK(m) /\ AnswerOK(m)  BY DEF Digests, ThreadOK
  <2>2. CASE result'[m] = result[m]
    <3>1. RequestShape(m)'  BY <2>1, <2>2 DEF RequestShape, ClaimOK
    <3>2. KeyKept(m)'  BY <2>1, <2>2 DEF KeyKept, Secret
    <3>3. ToldOK(m)'  BY <2>1, <2>2 DEF ToldOK, UsedUp, InUse
    <3>4. AnswerOK(m)'  BY <2>1, <2>2 DEF AnswerOK, Genuine, Owes
    <3> QED  BY <3>1, <3>2, <3>3, <3>4 DEF ThreadOK
  <2>3. CASE request[m].kind = "aes" /\ result[m] = "busy" /\ result'[m] \in {"ok", "failed"}
    <3>1. request[m].kind # NULL  BY <2>3, RequestsAssumption DEF Kind
    <3>2. RequestShape(m)' /\ request'[m].claims = << >>
      BY <2>1, <2>3, <3>1 DEF RequestShape, ClaimOK
    <3>3. KeyKept(m)'  BY <2>3 DEF KeyKept
    <3>4. ToldOK(m)'
      <4>1. ~ UsedUp(m) /\ (InUse(m)' <=> InUse(m))  BY <2>3 DEF UsedUp, InUse
      <4> QED  BY <2>1, <4>1 DEF ToldOK
    <3>5. AnswerOK(m)'
      <4>1. DOMAIN request'[m].claims = {}  BY <3>2
      <4> QED  BY <2>3, <4>1 DEF AnswerOK, Genuine, Owes
    <3> QED  BY <3>2, <3>3, <3>4, <3>5 DEF ThreadOK
  <2> QED  BY <2>2, <2>3
<1> QED  BY <1>1, <1>2

LEMMA PanicsStay ==
  ASSUME Panics, ShaPhase, UNCHANGED sha, sha.at # "wait" => request'[sha.from] = request[sha.from],
         errors' \in Nat, errors' >= errors
  PROVE  Panics'
<1>1. errors' = 0 => errors = 0  BY DEF ShaPhase
<1>2. sha.at # "wait" => (Genuine(sha.from)' <=> Genuine(sha.from))  BY DEF Genuine
<1> QED  BY <1>1, <1>2 DEF Panics

LEMMA QuietDigests ==
  ASSUME Digests,
         UNCHANGED <<request, ctx, told, answer, sha, hash, shaCmd, shaEvent, shaQueue, token, keyring>>,
         errors' \in Nat, errors' >= errors,
         \A m \in Message : \/ result'[m] = result[m]
                            \/ /\ request[m].kind = "aes" /\ result[m] = "busy"
                               /\ result'[m] \in {"ok", "failed"}
  PROVE  Digests'
<1>1. Domains' /\ \A m \in Message : ThreadOK(m)'  BY ThreadsStay
<1>2. ShaPhase'
  <2>1. ShaPhase  BY DEF Digests
  <2>2. errors' = 0 => errors = 0  BY <2>1 DEF ShaPhase
  <2> QED  BY <2>1, <2>2 DEF ShaPhase
<1>3. Serving'
  <2>1. ASSUME NEW d, Registers(d) PROVE Registers(d)'
    BY <2>1, Zenon DEF Registers, Engine, Call, DataOf, Context, Caller, Before
  <2>2. Untouched(sha.from)  BY DEF Untouched
  <2> QED  BY <2>1, <2>2, ServingStays, ZenonT(60) DEF Digests
<1>4. Panics'  BY PanicsStay DEF Digests
<1> QED  BY <1>1, <1>2, <1>3, <1>4 DEF Digests

LEMMA ShaRunsDigests ==
  ASSUME IInv, Digests, ShaRuns, UNCHANGED callVars
  PROVE  Digests'
<1>1. /\ UNCHANGED <<request, result, ctx, told, answer, sha, shaQueue, token, keyring>>
      /\ ShaPhase /\ shaCmd.execute
  BY DEF ShaRuns, callVars, Digests
<1>2. Domains' /\ \A m \in Message : ThreadOK(m)'  BY <1>1, ThreadsStay
<1>3. CmdIs  BY DEF IInv, ShaOK, ShaTypes, CmdIs
<1>4. PICK failed \in BOOLEAN :
        /\ errors' = IF failed THEN errors + 1 ELSE errors
        /\ shaCmd' = [shaCmd EXCEPT !.execute = FALSE, !.failed = failed, !.blocks = << >>]
  BY Zenon DEF ShaRuns
<1>5. shaCmd' = [execute |-> FALSE, irq |-> shaCmd.irq, failed |-> failed, blocks |-> << >>]
  BY <1>3, <1>4 DEF CmdIs
<1>6. shaCmd'.execute = FALSE /\ shaCmd'.irq = shaCmd.irq /\ shaCmd'.failed = failed  BY <1>5
<1>7. errors \in Nat  BY <1>1 DEF ShaPhase
<1>8. errors' \in Nat /\ errors' >= errors /\ (failed => errors' # 0)  BY <1>4, <1>7
<1>9. ShaPhase'
  <2>1. shaEvent' = (shaEvent \/ shaCmd.irq)  BY DEF ShaRuns
  <2> QED  BY <1>1, <1>6, <1>8, <2>1 DEF ShaPhase
<1>10. Serving'
  <2>1. ASSUME NEW d, sha.at \in {"next", "event", "spin"}, Registers(d) PROVE Registers(d)'
    <3>1. ServedIs
      <4>1. sha.at # "wait"  BY <2>1
      <4> QED  BY <4>1, InShaHands
    <3> QED  BY <1>1, <1>3, <2>1, <3>1, EngineRuns
  <2>2. Untouched(sha.from)  BY <1>1 DEF Untouched
  <2> QED  BY <1>1, <2>1, <2>2, ServingStays, Zenon DEF Digests
<1>11. Panics'  BY <1>1, <1>8, PanicsStay DEF Digests
<1> QED  BY <1>2, <1>9, <1>10, <1>11 DEF Digests

LEMMA AesDigests ==
  ASSUME IInv, Digests, \/ AesThread \/ (AesRuns /\ UNCHANGED <<shaVars, callVars>>)
                        \/ Cache \/ UNCHANGED vars
  PROVE  Digests'
<1>1. UNCHANGED <<shaVars, callVars, request>>
  BY Zenon DEF AesThread, AesEngineHandler, AesTakes, AesDone, AesRuns, Cache, Evicts, vars, requestVars
<1>2. UNCHANGED <<request, ctx, told, answer, sha, hash, shaCmd, shaEvent, shaQueue, token, keyring>>
  BY <1>1 DEF shaVars, callVars
<1>3. errors \in Nat  BY DEF Digests, ShaPhase
<1>4. errors' = errors \/ errors' = errors + 1
  BY Zenon DEF AesThread, AesEngineHandler, AesTakes, AesDone, AesRuns, Cache, Evicts, vars, requestVars
<1>5. errors' \in Nat /\ errors' >= errors  BY <1>3, <1>4
<1>6. ASSUME NEW m \in Message
      PROVE  \/ result'[m] = result[m]
             \/ request[m].kind = "aes" /\ result[m] = "busy" /\ result'[m] \in {"ok", "failed"}
  <2>1. CASE UNCHANGED result  BY <2>1
  <2>2. CASE AesDone
    <3>1. PICK n : n = aes.from  OBVIOUS
    <3>2. n \in Message /\ n \in ForAes
      <4>1. aes.from # NULL  BY <2>2 DEF AesDone
      <4> QED  BY <3>1, <4>1, HasEnd DEF IInv, AesOK, AesTypes, AesHas
    <3>3. result[n] = "busy" /\ request[n].kind = "aes"
      BY <3>2 DEF ForAes, Digests, ThreadOK, RequestShape
    <3>4. \E x \in {"ok", "failed"} : result' = [result EXCEPT ![n] = x]
      BY <2>2, <3>1 DEF AesDone, ReplyFailed, ResourceReply
    <3>5. DOMAIN result = Message  BY DEF IInv, Accounts, RequestTypes
    <3> QED  BY <3>2, <3>3, <3>4, <3>5
  <2> QED  BY <2>1, <2>2, Zenon DEF AesThread, AesEngineHandler, AesTakes, AesRuns, Cache, Evicts, vars, requestVars
<1> QED  BY <1>2, <1>5, <1>6, QuietDigests

-----------------------------------------------------------------------------
(* A step of a program, or of all of them, while both engine threads wait.  *)
LEMMA SameThread ==
  ASSUME NEW n \in Message, ThreadOK(n), KeyKept(n)', UNCHANGED sha,
         request'[n] = request[n], result'[n] = result[n], told'[n] = told[n], ctx'[n] = ctx[n],
         answer'[n] = answer[n]
  PROVE  ThreadOK(n)'
<1>1. RequestShape(n) /\ ToldOK(n) /\ AnswerOK(n)  BY DEF ThreadOK
<1>2. RequestShape(n)'  BY <1>1 DEF RequestShape, ClaimOK
<1>3. ToldOK(n)'  BY <1>1 DEF ToldOK, UsedUp, InUse
<1>4. AnswerOK(n)'  BY <1>1 DEF AnswerOK, Genuine, Owes
<1> QED  BY <1>2, <1>3, <1>4 DEF ThreadOK

LEMMA NotInHands ==
  ASSUME IInv, Digests, NEW m \in Message, result[m] # "busy"
  PROVE  sha.from # m /\ ~ InUse(m)
<1>1. sha.from # NULL => sha.from \in ForSha
  BY HasEnd DEF IInv, ShaOK, ShaTypes, ShaHas
<1> QED  BY <1>1, RequestsAssumption DEF ForSha, InUse

LEMMA ProgramDigests ==
  ASSUME IInv, Digests, NEW m \in Message, result[m] # "busy", ThreadOK(m)', Domains',
         \A n \in Message \ {m} :
           /\ request'[n] = request[n] /\ result'[n] = result[n] /\ told'[n] = told[n]
           /\ answer'[n] = answer[n] /\ (token = n => token' = n)
           /\ sha.at = "wait" => shaQueue # <<n>>,
         UNCHANGED <<ctx, sha, hash, shaCmd, shaEvent, errors, keyring>>
  PROVE  Digests'
<1>1. sha.from # m  BY NotInHands
<1>2. \A n \in Message : ThreadOK(n) /\ KeyKept(n)  BY DEF Digests, ThreadOK
<1>3. ASSUME NEW n \in Message PROVE ThreadOK(n)'
  <2>1. CASE n = m  BY <2>1
  <2>2. CASE n # m
    <3>1. KeyKept(n)'
      <4>1. CASE sha.from = n  BY <4>1 DEF KeyKept
      <4>2. CASE sha.from # n  BY <1>2, <2>2, <4>2, KeyStays
      <4> QED  BY <4>1, <4>2
    <3> QED  BY <1>2, <2>2, <3>1, SameThread
  <2> QED  BY <2>1, <2>2
<1>4. ShaPhase /\ Serving /\ Panics  BY DEF Digests
<1>5. ShaPhase'  BY <1>4 DEF ShaPhase
<1>6. sha.at # "wait" => Untouched(sha.from)
  <2>1. sha.at # "wait" => sha.from \in Message  BY InShaHands
  <2> QED  BY <1>1, <2>1 DEF Untouched
<1>7. Serving'
  <2>1. ASSUME NEW d, sha.at \in {"next", "event", "spin"}, Registers(d) PROVE Registers(d)'
    <3>1. request'[sha.from] = request[sha.from]  BY <1>6, <2>1 DEF Untouched
    <3> QED  BY <2>1, <3>1, Zenon DEF Registers, Engine, Call, DataOf, Context, Caller, Before
  <2> QED  BY <1>4, <1>6, <2>1, ServingStays, ZenonT(60)
<1>8. Panics'
  <2>1. errors \in Nat  BY <1>4 DEF ShaPhase
  <2> QED  BY <1>4, <1>6, <2>1, PanicsStay DEF Untouched
<1> QED  BY <1>3, <1>5, <1>7, <1>8 DEF Digests

(* Keys change only when no request has the token and none waits.           *)
LEMMA Idle ==
  ASSUME ProgramsRun
  PROVE  sha.at = "wait" => shaQueue = << >>
BY DEF ProgramsRun, ShaBlocked

LEMMA KeysDigests ==
  ASSUME IInv, Digests, Keys
  PROVE  Digests'
<1>1. /\ ProgramsRun /\ token = NULL
      /\ UNCHANGED <<request, result, errors, ctx, told, answer, sha, hash, shaCmd, shaEvent, shaQueue, token>>
  BY DEF Keys, Delete, Create, requestVars, shaVars
<1>2. Domains'  BY <1>1 DEF Digests, Domains
<1>3. ASSUME NEW n \in Message PROVE ThreadOK(n)'
  <2>1. ThreadOK(n) /\ KeyKept(n)  BY DEF Digests, ThreadOK
  <2>2. <<n>> # << >> /\ n # NULL  BY TurnsAre, RequestsAssumption
  <2>3. KeyKept(n)'  BY <1>1, <2>1, <2>2, Idle DEF KeyKept
  <2> QED  BY <1>1, <2>1, <2>3, SameThread
<1>4. ShaPhase /\ Serving /\ Panics /\ Untouched(sha.from)  BY <1>1 DEF Digests, Untouched
<1>5. ShaPhase'  BY <1>1, <1>4 DEF ShaPhase
<1>6. Serving'
  <2>1. ASSUME NEW d, Registers(d) PROVE Registers(d)'
    BY <1>1, <2>1, Zenon DEF Registers, Engine, Call, DataOf, Context, Caller, Before
  <2> QED  BY <1>1, <1>4, <2>1, ServingStays, ZenonT(60)
<1>7. Panics'
  <2>1. errors' \in Nat /\ errors' >= errors  BY <1>1, <1>4 DEF ShaPhase
  <2> QED  BY <1>1, <1>4, <2>1, PanicsStay
<1> QED  BY <1>2, <1>3, <1>5, <1>6, <1>7 DEF Digests

LEMMA ReturnsDigests ==
  ASSUME IInv, Digests, NEW m \in Message, Returns(m)
  PROVE  Digests'
<1>1. /\ ProgramsRun /\ result[m] # "busy"
      /\ token' = IF token = m THEN NULL ELSE token
      /\ request' = [request EXCEPT ![m] = NoRequest]
      /\ result' = [result EXCEPT ![m] = "none"]
      /\ told' = IF request[m].command = "finalize" THEN [told EXCEPT ![m] = NothingTold] ELSE told
      /\ answer' = [answer EXCEPT ![m] = << >>]
      /\ UNCHANGED <<errors, ctx, sha, hash, shaCmd, shaEvent, shaQueue, keyring>>
  BY DEF Returns
<1>2. /\ DOMAIN told = Message /\ DOMAIN result = Message /\ DOMAIN request = Message
      /\ DOMAIN answer = Message /\ Domains
  BY DEF Digests, Domains, IInv, Accounts, RequestTypes
<1>3. Domains'  BY <1>1, <1>2 DEF Domains
<1>4. ASSUME NEW n \in Message \ {m}
      PROVE  /\ request'[n] = request[n] /\ result'[n] = result[n] /\ told'[n] = told[n]
             /\ answer'[n] = answer[n] /\ (token = n => token' = n)
             /\ sha.at = "wait" => shaQueue # <<n>>
  <2>1. <<n>> # << >>  BY TurnsAre
  <2> QED  BY <1>1, <1>2, <2>1, Idle
<1>5. ThreadOK(m)'
  <2>1. request'[m] = NoRequest /\ result'[m] = "none"  BY <1>1, <1>2
  <2>2. /\ request'[m].kind = NULL /\ request'[m].src = NULL /\ request'[m].claims = << >>
        /\ request'[m].command = NULL
    BY <2>1 DEF NoRequest
  <2>3. NULL # "sha" /\ NULL # "mac" /\ NULL # "verify"  BY RequestsAssumption DEF Kind
  <2>4. RequestShape(m)'  BY <2>1, <2>2, <2>3 DEF RequestShape
  <2>5. KeyKept(m)'  BY <2>1 DEF KeyKept
  <2>6. ToldOK(m)'
    <3>1. CASE request[m].command = "finalize"
      <4>1. told'[m] = [sound |-> FALSE, key |-> NULL, data |-> << >>]
        BY <1>1, <1>2, <3>1 DEF NothingTold
      <4>2. told'[m].sound = FALSE /\ told'[m].key = NULL /\ told'[m].data = << >>  BY <4>1
      <4> QED  BY <4>1, <4>2, PlainNothing DEF ToldOK
    <3>2. CASE request[m].command # "finalize"
      <4>1. ToldOK(m) /\ ~ UsedUp(m) /\ ~ InUse(m)
        BY <1>1, <3>2, NotInHands DEF Digests, ThreadOK, UsedUp
      <4>2. told'[m] = told[m] /\ ctx'[m] = ctx[m]  BY <1>1, <3>2
      <4> QED  BY <4>1, <4>2 DEF ToldOK
    <3> QED  BY <3>1, <3>2
  <2>7. AnswerOK(m)'  BY <2>1 DEF AnswerOK
  <2> QED  BY <2>4, <2>5, <2>6, <2>7 DEF ThreadOK
<1> QED  BY <1>1, <1>3, <1>4, <1>5, ProgramDigests

-----------------------------------------------------------------------------
(* What programs ask for.                                                   *)
LEMMA UnitsAre ==
  ASSUME NEW m, NEW before, NEW n \in Nat
  PROVE  LET u == Units(m, before, n)
         IN Plain(u) /\ Len(u) = n /\ (n = 0 => u = << >>)
<1> DEFINE u == Units(m, before, n)
           unit(i) == <<"unit", Len(told[m].data) + before + i>>
<1>1. u = [i \in 1 .. n |-> u[i]] /\ \A i \in 1 .. n : u[i] = unit(i)  BY DEF Units
<1>2. \A i : unit(i) # <<"final">>  OBVIOUS
<1> HIDE DEF u, unit
<1>3. Sequence(u) /\ Len(u) = n  BY <1>1, Made
<1>4. <<"final">> \notin Elements(u)
  <2> SUFFICES ASSUME <<"final">> \in Elements(u) PROVE FALSE  OBVIOUS
  <2>1. PICK i \in 1 .. Len(u) : <<"final">> = u[i]  BY <1>3, Pieces
  <2> QED  BY <1>1, <1>2, <1>3, <2>1
<1> QED  BY <1>3, <1>4, EmptyIs DEF Plain, u

LEMMA SubmitDigests ==
  ASSUME IInv, Digests, ProgramsRun, NEW m \in Message, request[m] = NoRequest, NEW r, Submits(m, r),
         token' = token \/ token = NULL, RequestShape(m)', KeyKept(m)',
         UNCHANGED <<ctx, told, answer, sha, hash, shaCmd, shaEvent, errors, keyring>>
  PROVE  Digests'
<1>1. result[m] # "busy" /\ result[m] # "ok"
  <2>1. request[m].kind = NULL  BY DEF NoRequest
  <2>2. RequestShape(m)  BY DEF Digests, ThreadOK
  <2> QED  BY <2>1, <2>2 DEF RequestShape
<1>2. /\ request' = [request EXCEPT ![m] = r] /\ result' = [result EXCEPT ![m] = "busy"]
  BY DEF Submits
<1>3. DOMAIN result = Message /\ DOMAIN request = Message /\ Domains
  BY DEF Digests, IInv, Accounts, RequestTypes
<1>4. Domains'  BY <1>3 DEF Domains
<1>5. ASSUME NEW n \in Message \ {m}
      PROVE  /\ request'[n] = request[n] /\ result'[n] = result[n] /\ told'[n] = told[n]
             /\ answer'[n] = answer[n] /\ (token = n => token' = n)
             /\ sha.at = "wait" => shaQueue # <<n>>
  <2>1. <<n>> # << >> /\ n # NULL  BY TurnsAre, RequestsAssumption
  <2> QED  BY <1>2, <1>3, <2>1, Idle
<1>6. ThreadOK(m)'
  <2>1. result'[m] = "busy"  BY <1>2, <1>3
  <2>2. ToldOK(m)'
    <3>1. ToldOK(m) /\ ~ UsedUp(m) /\ ~ InUse(m)
      BY <1>1, NotInHands DEF Digests, ThreadOK, UsedUp
    <3> QED  BY <3>1 DEF ToldOK
  <2>3. AnswerOK(m)'  BY <2>1 DEF AnswerOK
  <2> QED  BY <2>2, <2>3 DEF ThreadOK
<1> QED  BY <1>1, <1>4, <1>5, <1>6, ProgramDigests

(* The kinds differ from NULL.                                              *)
LEMMA Kinds == \A k \in Kind : k # NULL
BY RequestsAssumption

LEMMA MacDigests ==
  ASSUME IInv, Digests, NEW m \in Message, NEW h \in Handle, NEW kind \in {"mac", "plain"},
         NEW command \in Command, NEW custom \in Nat, NEW input \in Nat,
         command = "init" => input = 0,
         GenerateBlockMAC(m, h, kind, command, custom, input)
  PROVE  Digests'
<1> DEFINE first == Units(m, 0, custom)
           second == Units(m, custom, input)
           key == Secret(h)
           hurried == ~ Synchronous(m) /\ sha.at # "wait"
           r == [NoRequest EXCEPT !.kind = kind, !.command = command, !.handle = h,
                                  !.custom = first, !.input = second, !.secret = key,
                                  !.hurried = hurried]
<1>1. /\ Free(m, kind) /\ Allowed(m, h) /\ HoldsToken(m) /\ Submits(m, r)
      /\ shaQueue' = Append(shaQueue, m)
      /\ UNCHANGED <<ctx, told, answer, sha, hash, shaCmd, shaEvent, errors, keyring>>
  BY DEF GenerateBlockMAC, UNCHANGEDByCall
<1>2. Plain(first) /\ Plain(second) /\ (command = "init" => second = << >>)  BY UnitsAre
<1>3. key' = Secret(h)  BY <1>1 DEF Secret
<1> HIDE DEF first, second, key, hurried
<1>4. /\ r.kind = kind /\ r.command = command /\ r.handle = h /\ r.custom = first /\ r.input = second
      /\ r.secret = key /\ r.hurried = hurried /\ r.claims = << >> /\ r.src = NULL
  BY DEF NoRequest
<1> HIDE DEF r
<1>5. request'[m] = r /\ result'[m] = "busy"
  <2>1. DOMAIN result = Message /\ DOMAIN request = Message  BY DEF IInv, Accounts, RequestTypes
  <2> QED  BY <1>1, <2>1 DEF Submits
<1>6. RequestShape(m)'
  <2>1. kind # NULL  BY Kinds DEF Kind
  <2> QED  BY <1>2, <1>4, <1>5, <2>1 DEF RequestShape
<1>7. KeyKept(m)'
  <2>1. Secret(h)' = key  BY <1>1 DEF key, Secret
  <2>2. ASSUME ~ hurried PROVE token' = m \/ (sha'.at = "wait" /\ shaQueue' = <<m>>)
    <3>1. CASE Synchronous(m)  BY <1>1, <3>1 DEF HoldsToken
    <3>2. CASE sha.at = "wait"
      <4>1. shaQueue = << >>  BY <1>1, <3>2, Idle DEF Free
      <4>2. Append(<< >>, m) = <<m>>  OBVIOUS
      <4> QED  BY <1>1, <3>2, <4>1, <4>2
    <3> QED  BY <2>2, <3>1, <3>2 DEF hurried
  <2> QED  BY <1>4, <1>5, <2>1, <2>2 DEF KeyKept
<1>8. token = NULL /\ ProgramsRun /\ request[m] = NoRequest  BY <1>1 DEF Allowed, Free
<1> QED  BY <1>1, <1>6, <1>7, <1>8, SubmitDigests

LEMMA CryptDigests ==
  ASSUME IInv, Digests, NEW m \in Message, NEW r, r.kind = "aes", r.src = "a", r.claims = << >>,
         ProgramsRun, request[m] = NoRequest, Submits(m, r), token' = token \/ token = NULL,
         UNCHANGED <<ctx, told, answer, sha, hash, shaCmd, shaEvent, errors, keyring>>
  PROVE  Digests'
<1>1. request'[m] = r /\ result'[m] = "busy"
  <2>1. DOMAIN result = Message /\ DOMAIN request = Message  BY DEF IInv, Accounts, RequestTypes
  <2> QED  BY <2>1 DEF Submits
<1>2. "aes" # NULL /\ "a" # NULL  BY Kinds, BufferAssumption DEF Kind, Buffer
<1>3. RequestShape(m)'  BY <1>1, <1>2 DEF RequestShape
<1>4. KeyKept(m)'  BY <1>1 DEF KeyKept
<1> QED  BY <1>3, <1>4, SubmitDigests

LEMMA HashDigests ==
  ASSUME IInv, Digests, NEW m \in Message, NEW command \in Command, NEW input \in Nat,
         Hash(m, command, input)
  PROVE  Digests'
<1> DEFINE u == Units(m, 0, input)
           r == [NoRequest EXCEPT !.kind = "sha", !.command = command, !.input = u]
<1>1. /\ Free(m, "hash") /\ Submits(m, r) /\ UNCHANGED token
      /\ UNCHANGED <<ctx, told, answer, sha, hash, shaCmd, shaEvent, errors, keyring>>
  BY DEF Hash, UNCHANGEDByCall
<1>2. Plain(u)  BY UnitsAre
<1> HIDE DEF u
<1>3. /\ r.kind = "sha" /\ r.command = command /\ r.input = u /\ r.custom = << >>
      /\ r.secret = NULL /\ r.claims = << >> /\ r.src = NULL
  BY DEF NoRequest
<1> HIDE DEF r
<1>4. request'[m] = r /\ result'[m] = "busy"
  <2>1. DOMAIN result = Message /\ DOMAIN request = Message  BY DEF IInv, Accounts, RequestTypes
  <2> QED  BY <1>1, <2>1 DEF Submits
<1>5. RequestShape(m)'
  <2>1. "sha" # NULL  BY Kinds DEF Kind
  <2> QED  BY <1>2, <1>3, <1>4, <2>1 DEF RequestShape
<1>6. KeyKept(m)'  BY <1>3, <1>4 DEF KeyKept
<1>7. ProgramsRun /\ request[m] = NoRequest  BY <1>1 DEF Free
<1> QED  BY <1>1, <1>5, <1>6, <1>7, SubmitDigests

LEMMA VerifyDigests ==
  ASSUME IInv, Digests, NEW m \in Message, NEW n \in Verified, NEW tampered, Verify(m, n, tampered)
  PROVE  Digests'
<1> DEFINE first == Units(m, 0, n)
           second == Units(m, n, n)
           given == IF tampered THEN first ELSE second
           c1 == [data |-> first, hash |-> Digest(first)]
           c2 == [data |-> given, hash |-> Digest(second)]
           r == [NoRequest EXCEPT !.kind = "verify", !.claims = <<c1, c2>>]
<1>1. /\ Free(m, "verify") /\ Submits(m, r) /\ UNCHANGED token
      /\ UNCHANGED <<ctx, told, answer, sha, hash, shaCmd, shaEvent, errors, keyring>>
  <2>1. Free(m, "verify") /\ UNCHANGED token /\ UNCHANGEDByCall /\ UNCHANGED told  BY DEF Verify
  <2>2. Submits(m, r)  BY DEF Verify
  <2> QED  BY <2>1, <2>2 DEF UNCHANGEDByCall
<1>2. n \in Nat /\ n \div Block <= MaxBlocks  BY CallsAssumption
<1>3. /\ Plain(first) /\ Len(first) = n /\ Plain(second) /\ Len(second) = n
  BY <1>2, UnitsAre
<1> HIDE DEF first, second
<1>4. Plain(given) /\ Len(given) = n  BY <1>3
<1> HIDE DEF given
<1>5. ASSUME NEW x, NEW y, Plain(x), Plain(y), Len(x) = n, Len(y) = n
      PROVE  ClaimOK([data |-> x, hash |-> Digest(y)])
  <2>1. Sequence(x) /\ Sequence(y)  BY <1>5 DEF Plain
  <2>2. Len(Digest(x)) = Len(Digest(y))
    <3>1. Len(Digest(x)) = (n \div Block) + (PadSize(n % Block) \div Block)
      BY <1>5, <2>1, DigestLength
    <3>2. Len(Digest(y)) = (n \div Block) + (PadSize(n % Block) \div Block)
      BY <1>5, <2>1, DigestLength
    <3> QED  BY <3>1, <3>2
  <2> QED  BY <1>2, <1>5, <2>2 DEF ClaimOK
<1>6. ClaimOK(c1) /\ ClaimOK(c2)  BY <1>3, <1>4, <1>5
<1> HIDE DEF c1, c2
<1>7. r.kind = "verify" /\ r.claims = <<c1, c2>> /\ r.src = NULL  BY DEF NoRequest
<1> HIDE DEF r
<1>8. request'[m] = r /\ result'[m] = "busy"
  <2>1. DOMAIN result = Message /\ DOMAIN request = Message  BY DEF IInv, Accounts, RequestTypes
  <2> QED  BY <1>1, <2>1 DEF Submits
<1>9. RequestShape(m)'
  <2>1. "verify" # NULL  BY Kinds DEF Kind
  <2>2. r.claims[1] = c1 /\ r.claims[2] = c2  BY <1>7
  <2>3. ClaimOK(c1)' /\ ClaimOK(c2)'
    <3>1. c1' = c1 /\ c2' = c2
      BY <1>1 DEF c1, c2, first, second, given, Units
    <3> QED  BY <1>6, <3>1 DEF ClaimOK
  <2> QED  BY <1>6, <1>7, <1>8, <2>1, <2>2, <2>3 DEF RequestShape
<1>10. KeyKept(m)'  BY <1>7, <1>8 DEF KeyKept
<1>11. ProgramsRun /\ request[m] = NoRequest  BY <1>1 DEF Free
<1> QED  BY <1>1, <1>9, <1>10, <1>11, SubmitDigests

LEMMA CallingDigests ==
  ASSUME IInv, Digests, Calling
  PROVE  Digests'
<1>1. PICK m \in Message :
        \/ \E h \in Handle, custom \in Customs : GenerateBlockMAC(m, h, "mac", "init", custom, 0)
        \/ \E h \in Handle, command \in Command \ {"init"}, custom \in Customs, input \in Inputs :
             GenerateBlockMAC(m, h, "mac", command, custom, input)
        \/ \E h \in Handle : GenerateBlockMAC(m, h, "plain", "init", 0, 0)
        \/ \E h \in Handle, command \in {"encrypt", "decrypt"}, dst \in Buffer :
             Crypt(m, h, command, dst)
        \/ \E command \in Command, input \in Inputs : Hash(m, command, input)
        \/ \E n \in Verified, tampered \in BOOLEAN : Verify(m, n, tampered)
        \/ Copy(m)
        \/ Returns(m)
  BY DEF Calling
<1>2. Customs \subseteq Nat /\ Inputs \subseteq Nat /\ 0 \in Nat /\ "init" \in Command
  BY CallsAssumption DEF Command
<1>3. CASE \E h \in Handle, custom \in Customs : GenerateBlockMAC(m, h, "mac", "init", custom, 0)
  BY <1>2, <1>3, MacDigests
<1>4. CASE \E h \in Handle, command \in Command \ {"init"}, custom \in Customs, input \in Inputs :
             GenerateBlockMAC(m, h, "mac", command, custom, input)
  BY <1>2, <1>4, MacDigests
<1>5. CASE \E h \in Handle : GenerateBlockMAC(m, h, "plain", "init", 0, 0)
  BY <1>2, <1>5, MacDigests
<1>6. CASE \E h \in Handle, command \in {"encrypt", "decrypt"}, dst \in Buffer :
             Crypt(m, h, command, dst)
  <2>1. PICK h \in Handle, command \in {"encrypt", "decrypt"}, dst \in Buffer : Crypt(m, h, command, dst)
    BY <1>6
  <2> DEFINE r == [NoRequest EXCEPT !.kind = "aes", !.command = command, !.secret = Secret(h),
                                    !.src = "a", !.dst = dst]
  <2>2. /\ Free(m, command) /\ Allowed(m, h) /\ Submits(m, r)
        /\ UNCHANGED <<ctx, told, answer, sha, hash, shaCmd, shaEvent, errors, keyring>>
    BY <2>1 DEF Crypt, UNCHANGEDByCall
  <2>3. r.kind = "aes" /\ r.src = "a" /\ r.claims = << >>  BY DEF NoRequest
  <2> HIDE DEF r
  <2> QED  BY <2>2, <2>3, CryptDigests DEF Free, Allowed
<1>7. CASE \E command \in Command, input \in Inputs : Hash(m, command, input)
  BY <1>2, <1>7, HashDigests
<1>8. CASE \E n \in Verified, tampered \in BOOLEAN : Verify(m, n, tampered)
  BY <1>8, VerifyDigests
<1>9. CASE Copy(m)
  <2> DEFINE r == [NoRequest EXCEPT !.kind = "aes", !.command = "copy", !.src = "a", !.dst = "b"]
  <2>1. /\ Free(m, "copy") /\ Submits(m, r) /\ UNCHANGED token
        /\ UNCHANGED <<ctx, told, answer, sha, hash, shaCmd, shaEvent, errors, keyring>>
    BY <1>9 DEF Copy, UNCHANGEDByCall
  <2>2. r.kind = "aes" /\ r.src = "a" /\ r.claims = << >>  BY DEF NoRequest
  <2> HIDE DEF r
  <2> QED  BY <2>1, <2>2, CryptDigests DEF Free
<1>10. CASE Returns(m)  BY <1>10, ReturnsDigests
<1> QED  BY <1>1, <1>3, <1>4, <1>5, <1>6, <1>7, <1>8, <1>9, <1>10

-----------------------------------------------------------------------------
LEMMA DigestsInit == Init => Digests
<1> SUFFICES ASSUME Init PROVE Digests
  OBVIOUS
<1> USE DEF Init, RequestsInit, ShaInit
<1>1. Domains  BY DEF Domains
<1>2. sha.at = "wait" /\ sha.from = NULL  BY DEF Waiting
<1>3. ASSUME NEW m \in Message PROVE ThreadOK(m)
  <2>1. request[m] = NoRequest /\ result[m] = "none" /\ told[m] = NothingTold  OBVIOUS
  <2>2. request[m].kind = NULL /\ request[m].src = NULL /\ request[m].claims = << >>
    BY <2>1 DEF NoRequest
  <2>3. NULL # "sha" /\ NULL # "mac" /\ NULL # "verify"  BY Kinds DEF Kind
  <2>4. RequestShape(m)  BY <2>1, <2>2, <2>3 DEF RequestShape
  <2>5. told[m] = [sound |-> FALSE, key |-> NULL, data |-> << >>]  BY <2>1 DEF NothingTold
  <2>6. told[m].sound = FALSE /\ told[m].key = NULL /\ told[m].data = << >>  BY <2>5
  <2>7. ToldOK(m)  BY <2>5, <2>6, PlainNothing DEF ToldOK
  <2> QED  BY <2>1, <2>4, <2>7 DEF ThreadOK, KeyKept, AnswerOK
<1>4. ShaPhase  BY <1>2 DEF ShaPhase
<1>5. Serving /\ Panics  BY <1>2 DEF Serving, Panics
<1> QED  BY <1>1, <1>3, <1>4, <1>5 DEF Digests

LEMMA DigestsStep == IInv /\ Digests /\ [Next]_vars => Digests'
<1> SUFFICES ASSUME IInv, Digests, [Next]_vars PROVE Digests'
  OBVIOUS
<1>1. CASE UNCHANGED vars  BY <1>1, AesDigests
<1>2. CASE Calling  BY <1>2, CallingDigests
<1>3. CASE Keys  BY <1>3, KeysDigests
<1>4. CASE ShaThread
  <2>1. CASE ShaEngineHandler /\ UNCHANGED callVars  BY <2>1, HandlerDigests
  <2>2. CASE /\ shaQueue # << >> /\ UNCHANGED callVars
             /\ \E s \in Signers(Head(shaQueue)) : ShaTakes(Head(shaQueue), s)
    BY <2>2, TakeDigests
  <2> QED  BY <1>4, <2>1, <2>2 DEF ShaThread
<1>5. CASE AesThread  BY <1>5, AesDigests
<1>6. CASE Engines  BY <1>6, ShaRunsDigests, AesDigests DEF Engines
<1>7. CASE Cache  BY <1>7, AesDigests
<1> QED  BY <1>1, <1>2, <1>3, <1>4, <1>5, <1>6, <1>7 DEF Next

(* However many threads hash at a time and whenever the engine fails, a     *)
(* hash or a MAC that is answered is the standard's for all the data since  *)
(* its Init and the key that its caller owned when it called, and what is   *)
(* verified has the hashes that it claims: the blocks that the engine has   *)
(* worked on, the length in the context and the last blocks that the code   *)
(* makes come to the same as padding the whole message.                     *)
THEOREM DigestsAreStandard == Spec => []DigestIsStandard
<1>1. Digests => DigestIsStandard
  BY DEF Digests, ThreadOK, AnswerOK, Panics, Genuine, Owes, DigestIsStandard
<1> QED  BY <1>1, Inductive, DigestsInit, DigestsStep, PTL DEF Spec
=============================================================================
