------------------------------ MODULE Timers_proofs ------------------------------
(***************************************************************************)
(* Proofs about the timers, for any slots, settings, word and lag.         *)
(***************************************************************************)
EXTENDS Timers, SequenceTheorems, WellFoundedInduction, TLAPS

(* What InsertAt and RemoveAt return.                                      *)
LEMMA Inserted ==
  ASSUME NEW S, NEW s \in Seq(S), NEW e \in S, NEW i \in 1 .. Len(s) + 1
  PROVE  /\ InsertAt(s, i, e) \in Seq(S)
         /\ Len(InsertAt(s, i, e)) = Len(s) + 1
         /\ \A j \in 1 .. Len(s) + 1 :
              InsertAt(s, i, e)[j] = IF j < i THEN s[j] ELSE IF j = i THEN e ELSE s[j - 1]
<1> DEFINE p == SubSeq(s, 1, i - 1)
           q == SubSeq(s, i, Len(s))
           o == <<e>>
           po == p \o o
           poq == po \o q
<1>1. /\ p \in Seq(S) /\ Len(p) = i - 1
      /\ \A j \in 1 .. i - 1 : p[j] = s[j]
  OBVIOUS
<1>2. /\ q \in Seq(S) /\ Len(q) = Len(s) - i + 1
      /\ \A j \in 1 .. Len(s) - i + 1 : q[j] = s[j + i - 1]
  OBVIOUS
<1>3. o \in Seq(S) /\ Len(o) = 1 /\ o[1] = e
  OBVIOUS
<1>4. InsertAt(s, i, e) = poq
  BY DEF InsertAt
<1> HIDE DEF p, q, o
<1>5. /\ po \in Seq(S) /\ Len(po) = Len(p) + Len(o)
      /\ \A j \in 1 .. Len(p) + Len(o) : po[j] = IF j <= Len(p) THEN p[j] ELSE o[j - Len(p)]
  BY <1>1, <1>3, ConcatProperties
<1> HIDE DEF po
<1>6. /\ poq \in Seq(S) /\ Len(poq) = Len(po) + Len(q)
      /\ \A j \in 1 .. Len(po) + Len(q) : poq[j] = IF j <= Len(po) THEN po[j] ELSE q[j - Len(po)]
  <2>1. po \in Seq(S) /\ q \in Seq(S)
    BY <1>2, <1>5
  <2>2. QED
    BY <2>1, ConcatProperties
<1> HIDE DEF poq
<1>7. ASSUME NEW j \in 1 .. Len(s) + 1
      PROVE  poq[j] = IF j < i THEN s[j] ELSE IF j = i THEN e ELSE s[j - 1]
  <2>0. /\ j \in Nat /\ i \in Nat /\ Len(s) \in Nat
        /\ j >= 1 /\ j <= Len(s) + 1 /\ i >= 1 /\ i <= Len(s) + 1
        /\ Len(p) = i - 1 /\ Len(o) = 1 /\ Len(po) = i /\ Len(q) = Len(s) - i + 1
    BY <1>1, <1>2, <1>3, <1>5, SMTT(40)
  <2>1. j \in 1 .. Len(po) + Len(q)
    BY <2>0
  <2>2. poq[j] = IF j <= Len(po) THEN po[j] ELSE q[j - Len(po)]
    BY <1>6, <2>1
  <2>3. CASE j < i
    <3>1. j \in 1 .. Len(p) + Len(o) /\ j <= Len(p) /\ j <= Len(po) /\ j \in 1 .. i - 1
      BY <2>0, <2>3
    <3>2. po[j] = p[j] /\ p[j] = s[j]
      BY <3>1, <1>5, <1>1
    <3>3. QED
      BY <3>1, <3>2, <2>2, <2>3
  <2>4. CASE j = i
    <3>1. j \in 1 .. Len(p) + Len(o) /\ ~ j <= Len(p) /\ j <= Len(po) /\ j - Len(p) = 1
      BY <2>0, <2>4
    <3>2. po[j] = o[1]
      BY <3>1, <1>5
    <3>3. QED
      BY <3>1, <3>2, <2>2, <2>4, <1>3
  <2>5. CASE j > i
    <3>1. ~ j <= Len(po) /\ j - Len(po) \in 1 .. Len(s) - i + 1 /\ (j - Len(po)) + i - 1 = j - 1
      BY <2>0, <2>5
    <3>2. q[j - Len(po)] = s[(j - Len(po)) + i - 1]
      BY <3>1, <1>2
    <3>3. QED
      BY <3>1, <3>2, <2>2, <2>5, <2>0
  <2>6. QED
    BY <2>3, <2>4, <2>5, <2>0
<1>8. QED
  BY <1>1, <1>2, <1>3, <1>4, <1>5, <1>6, <1>7

LEMMA Removed ==
  ASSUME NEW S, NEW s \in Seq(S), NEW i \in 1 .. Len(s)
  PROVE  /\ RemoveAt(s, i) \in Seq(S)
         /\ Len(RemoveAt(s, i)) = Len(s) - 1
         /\ \A j \in 1 .. Len(s) - 1 : RemoveAt(s, i)[j] = IF j < i THEN s[j] ELSE s[j + 1]
<1> DEFINE p == SubSeq(s, 1, i - 1)
           q == SubSeq(s, i + 1, Len(s))
           pq == p \o q
<1>1. /\ p \in Seq(S) /\ Len(p) = i - 1
      /\ \A j \in 1 .. i - 1 : p[j] = s[j]
  OBVIOUS
<1>2. /\ q \in Seq(S) /\ Len(q) = Len(s) - i
      /\ \A j \in 1 .. Len(s) - i : q[j] = s[j + i]
  OBVIOUS
<1>3. RemoveAt(s, i) = pq
  BY DEF RemoveAt
<1> HIDE DEF p, q
<1>4. /\ pq \in Seq(S) /\ Len(pq) = Len(p) + Len(q)
      /\ \A j \in 1 .. Len(p) + Len(q) : pq[j] = IF j <= Len(p) THEN p[j] ELSE q[j - Len(p)]
  BY <1>1, <1>2, ConcatProperties
<1> HIDE DEF pq
<1>5. ASSUME NEW j \in 1 .. Len(s) - 1, j >= i
      PROVE  pq[j] = s[j + 1]
  <2>1. j - (i - 1) \in 1 .. Len(s) - i /\ ~ j <= Len(p) /\ j \in 1 .. Len(p) + Len(q)
    BY <1>1, <1>2, <1>5
  <2>2. q[j - (i - 1)] = s[(j - (i - 1)) + i]
    BY <2>1, <1>2
  <2>3. pq[j] = q[j - (i - 1)]
    BY <2>1, <1>1, <1>4
  <2>4. QED
    BY <2>2, <2>3, (j - (i - 1)) + i = j + 1
<1>6. ASSUME NEW j \in 1 .. Len(s) - 1, j < i
      PROVE  pq[j] = s[j]
  <2>1. j \in 1 .. Len(p) + Len(q) /\ j <= Len(p) /\ j \in 1 .. i - 1
    BY <1>1, <1>2, <1>6
  <2>2. QED
    BY <2>1, <1>1, <1>4
<1>7. pq \in Seq(S) /\ Len(pq) = Len(s) - 1
  BY <1>1, <1>2, <1>4
<1>8. QED
  BY <1>3, <1>5, <1>6, <1>7

-----------------------------------------------------------------------------
(* TypeOK is inductive.                                                    *)
LEMMA HeadListed ==
  ASSUME TypeOK, list # << >>
  PROVE  /\ Head(list) \in Timer /\ Head(list) = list[1] /\ 1 \in DOMAIN list
         /\ timers[Head(list)] \in TimerInfo /\ timers[Head(list)].used
         /\ Tail(list) \in Seq(Timer) /\ Len(Tail(list)) = Len(list) - 1
         /\ \A i \in DOMAIN Tail(list) : Tail(list)[i] = list[i + 1] /\ i + 1 \in DOMAIN list
  BY DEF TypeOK, ListOK

LEMMA ListDistinct ==
  TypeOK => \A i, j \in 1 .. Len(list) : list[i] = list[j] => i = j
<1>1. TypeOK => list \in Seq(Timer) /\ \A i, j \in DOMAIN list : list[i] = list[j] => i = j
  BY DEF TypeOK, ListOK
<1>2. QED
  BY <1>1

(* What an assignment to IntervalInTicks leaves.                           *)
LEMMA WithTicks ==
  ASSUME NEW tm \in [Timer -> TimerInfo], NEW t \in Timer, NEW n \in Nat
  PROVE  /\ [tm EXCEPT ![t].ticks = n] \in [Timer -> TimerInfo]
         /\ [tm EXCEPT ![t].ticks = n][t].ticks = n
         /\ \A s \in Timer : /\ [tm EXCEPT ![t].ticks = n][s].used = tm[s].used
                             /\ s # t => [tm EXCEPT ![t].ticks = n][s] = tm[s]
<1>1. tm[t] \in [used : BOOLEAN, ticks : Nat, period : Nat]
  BY DEF TimerInfo
<1>2. [tm[t] EXCEPT !.ticks = n] \in TimerInfo
  BY <1>1 DEF TimerInfo
<1>3. [tm[t] EXCEPT !.ticks = n].used = tm[t].used /\ [tm[t] EXCEPT !.ticks = n].ticks = n
  BY <1>1
<1>4. [tm EXCEPT ![t].ticks = n] = [tm EXCEPT ![t] = [tm[t] EXCEPT !.ticks = n]]
  OBVIOUS
<1>5. QED
  BY <1>2, <1>3, <1>4

(* The start of a walk for a timer that is not on the list.                *)
LEMMA QueueTimerTypes ==
  ASSUME TypeOK,
         NEW tm \in [Timer -> TimerInfo], NEW l \in Seq(Timer), NEW t \in Timer,
         NEW n \in Nat, NEW passed \in Nat,
         \A i \in DOMAIN l : l[i] # t /\ tm[l[i]].used,
         \A i, j \in DOMAIN l : l[i] = l[j] => i = j,
         tm[t].used,
         QueueTimer(tm, l, t, n, passed)
  PROVE  /\ timers' \in [Timer -> TimerInfo] /\ since' \in Nat
         /\ left' \in [Timer -> Nat] /\ shifted' \subseteq Timer
         /\ list' \in Seq(Timer) /\ walk' \in Walk /\ walk'.at <= Len(list') + 1
         /\ \A i, j \in DOMAIN list' : list'[i] = list'[j] => i = j
         /\ \A i \in DOMAIN list' : timers'[list'[i]].used
         /\ ~ Queued(walk.timer)' /\ timers'[walk'.timer].used
<1> DEFINE tn == [tm EXCEPT ![t].ticks = n]
<1>1. /\ tn \in [Timer -> TimerInfo]
      /\ \A s \in Timer : tn[s].used = tm[s].used
  BY WithTicks
<1>2. /\ timers' \in [Timer -> TimerInfo]
      /\ \A s \in Timer : timers'[s].used = tm[s].used
  <2>1. CASE l = << >>
    BY <2>1, <1>1 DEF QueueTimer, Elapsed
  <2>2. CASE l # << >>
    <3> DEFINE r == IF passed < tn[Head(l)].ticks THEN tn[Head(l)].ticks - passed ELSE 0
    <3>1. Head(l) \in Timer
      BY <2>2
    <3>2. r \in Nat
      BY <3>1, <1>1, SMTT(40) DEF TimerInfo
    <3>3. timers' = [tn EXCEPT ![Head(l)].ticks = r]
      BY <2>2 DEF QueueTimer, Elapsed
    <3> HIDE DEF r, tn
    <3>4. QED
      BY <1>1, <3>1, <3>2, <3>3, WithTicks
  <2>3. QED
    BY <2>1, <2>2
<1>3. /\ list' = l /\ since' = 0 /\ shifted' = shifted \ {t}
      /\ walk' = [timer |-> t, ticks |-> n, at |-> 1]
      /\ left' = [left EXCEPT ![t] = n]
  BY DEF QueueTimer
<1> HIDE DEF tn
<1>4. walk' \in Walk /\ walk'.timer = t /\ walk'.at = 1
  BY <1>3 DEF Walk
<1>5. \A i \in DOMAIN l : l[i] \in Timer
  OBVIOUS
<1>6. left' \in [Timer -> Nat] /\ shifted' \subseteq Timer /\ since' \in Nat
  BY <1>3 DEF TypeOK
<1>7. /\ list' \in Seq(Timer) /\ walk'.at <= Len(list') + 1
      /\ \A i, j \in DOMAIN list' : list'[i] = list'[j] => i = j
  BY <1>3, <1>4
<1>8. \A i \in DOMAIN list' : timers'[list'[i]].used
  BY <1>2, <1>3, <1>5
<1>9. ~ Queued(walk.timer)' /\ timers'[walk'.timer].used
  BY <1>2, <1>3, <1>4 DEF Queued
<1>10. QED
  BY <1>2, <1>4, <1>6, <1>7, <1>8, <1>9

LEMMA ConvertedTypes ==
  ASSUME NEW d \in Nat
  PROVE  ConvertDelayToTicks(d) \in Nat
<1> DEFINE
      n == CASE Clock = 81  -> (d \div 2) + (d \div 8) + (d \div 128)
             [] Clock = 54  -> (d \div 4) + (d \div 8) + (d \div 32) + (d \div 64)
             [] Clock = 108 -> (d \div 2) + (d \div 4) + (d \div 16) + (d \div 32)
             [] Clock = 162 -> (d \div 4) + (d \div 64) + d
             [] OTHER -> d + (d \div 2) + (d \div 4) + (d \div 8) + (d \div 64) + (d \div 128)
<1>1. n \in Int
  OBVIOUS
<1>2. \A a \in Int : a % Word \in Nat
  BY WordAssumption
<1>3. ConvertDelayToTicks(d) = n % Word
  BY DEF ConvertDelayToTicks
<1> HIDE DEF n
<1>4. QED
  BY <1>1, <1>2, <1>3

LEMMA NextTurnTypes ==
  ASSUME TypeOK, NEW info \in TimerInfo
  PROVE  NextTurn(info) \in Nat
<1>1. info.ticks - since + ConvertDelayToTicks(info.period) - 1 \in Int
  BY ConvertedTypes DEF TypeOK, TimerInfo
<1>2. \A a \in Int : a % Word \in Nat
  BY WordAssumption
<1>3. QED
  BY <1>1, <1>2 DEF NextTurn

LEMMA StartTypes ==
  ASSUME TypeOK, mode = "open", NEW t \in Timer, NEW delay \in Nat, NEW period \in Nat,
         ~ Queued(t), Start(t, delay, period), UNCHANGED <<alarm, irq, event>>
  PROVE  TypeOK'
<1> DEFINE n == ConvertDelayToTicks(IF delay # 0 THEN delay ELSE period)
           tm == [timers EXCEPT ![t] = [used |-> TRUE, ticks |-> n, period |-> period]]
<1>0. n \in Nat
  BY ConvertedTypes
<1> HIDE DEF n
<1>1. /\ n \in Nat /\ tm \in [Timer -> TimerInfo] /\ tm[t].used
      /\ \A s \in Timer : timers[s].used => tm[s].used
  BY <1>0 DEF TypeOK, TimerInfo
<1>2. \A i \in DOMAIN list : list[i] \in Timer /\ list[i] # t /\ tm[list[i]].used
  BY <1>1 DEF TypeOK, ListOK, Queued
<1>3. walk = NULL \/ mode \in {"call", "handle"}
  BY DEF TypeOK, ListOK
<1>4. CASE n # 0
  <2>1. QueueTimer(tm, list, t, n, since) /\ mode' = "call"
    BY <1>4 DEF Start, n
  <2> HIDE DEF tm
  <2>2. /\ timers' \in [Timer -> TimerInfo] /\ since' \in Nat
        /\ left' \in [Timer -> Nat] /\ shifted' \subseteq Timer
        /\ list' \in Seq(Timer) /\ walk' \in Walk /\ walk'.at <= Len(list') + 1
        /\ \A i, j \in DOMAIN list' : list'[i] = list'[j] => i = j
        /\ \A i \in DOMAIN list' : timers'[list'[i]].used
        /\ ~ Queued(walk.timer)' /\ timers'[walk'.timer].used
    <3>1. /\ list \in Seq(Timer) /\ since \in Nat
          /\ \A i, j \in DOMAIN list : list[i] = list[j] => i = j
      BY DEF TypeOK, ListOK
    <3>2. QED
      BY <1>1, <1>2, <2>1, <3>1, QueueTimerTypes
  <2>3. walk' # NULL
    BY <2>2, NullAssumption
  <2>4. QED
    BY <2>1, <2>2, <2>3 DEF TypeOK, ListOK
<1>5. CASE n = 0
  <2>1. timers' = tm /\ UNCHANGED <<list, since, mode, walk, left, shifted>>
    BY <1>5 DEF Start, historyVars, n
  <2> HIDE DEF tm
  <2>2. QED
    BY <1>1, <1>2, <1>3, <2>1 DEF TypeOK, ListOK, Queued
<1>6. QED
  BY <1>4, <1>5

LEMMA WalkEndsTypes == TypeOK /\ WalkEnds => TypeOK'
<1> SUFFICES ASSUME TypeOK, WalkEnds  PROVE TypeOK'
  OBVIOUS
<1> DEFINE t == walk.timer
           tm == [timers EXCEPT ![t].ticks = walk.ticks]
           next == list[walk.at]
           r == timers[next].ticks - walk.ticks
<1>1. /\ t \in Timer /\ walk.ticks \in Nat /\ walk.at \in 1 .. Len(list) + 1
      /\ ~ Queued(t) /\ timers[t].used /\ list \in Seq(Timer)
      /\ walk' = NULL /\ list' = InsertAt(list, walk.at, t) /\ timers' = Placed(walk)
  BY DEF WalkEnds, TypeOK, ListOK, Walk
<1>2. /\ tm \in [Timer -> TimerInfo] /\ tm[t].ticks = walk.ticks
      /\ \A s \in Timer : tm[s].used = timers[s].used /\ (s # t => tm[s] = timers[s])
  BY <1>1, WithTicks, SMTT(40) DEF TypeOK
<1>3. /\ timers' \in [Timer -> TimerInfo]
      /\ \A s \in Timer : timers'[s].used = timers[s].used
  <2>1. CASE walk.at <= Len(list)
    <3>1. next \in Timer /\ next # t
      BY <2>1, <1>1 DEF Queued
    <3>2. r \in Nat
      <4>1. timers[next].ticks \in Nat /\ ~ timers[next].ticks < walk.ticks
        BY <2>1, <3>1 DEF TypeOK, TimerInfo, WalkEnds, Before
      <4>2. QED
        BY <4>1, <1>1
    <3>3. timers' = [tm EXCEPT ![next].ticks = r]
      <4>1. timers' = [tm EXCEPT ![next].ticks = @ - walk.ticks]
        BY <2>1, <1>1 DEF Placed
      <4>2. tm[next].ticks - walk.ticks = r
        BY <3>1, <1>2
      <4> HIDE DEF tm, r, next
      <4>3. QED
        BY <4>1, <4>2
    <3> HIDE DEF tm, r, next
    <3>4. QED
      BY <1>2, <3>1, <3>2, <3>3, WithTicks
  <2>2. CASE ~ walk.at <= Len(list)
    BY <2>2, <1>1, <1>2 DEF Placed
  <2>3. QED
    BY <2>1, <2>2
<1> HIDE DEF t, tm, next, r
<1>4. /\ list' \in Seq(Timer) /\ Len(list') = Len(list) + 1
      /\ \A j \in 1 .. Len(list) + 1 :
           list'[j] = IF j < walk.at THEN list[j] ELSE IF j = walk.at THEN t ELSE list[j - 1]
  <2> DEFINE at == walk.at
             new == InsertAt(list, at, t)
  <2> HIDE DEF at
  <2>1. at \in 1 .. Len(list) + 1
    BY <1>1 DEF at
  <2>2. /\ new \in Seq(Timer) /\ Len(new) = Len(list) + 1
        /\ \A j \in 1 .. Len(list) + 1 :
             new[j] = IF j < at THEN list[j] ELSE IF j = at THEN t ELSE list[j - 1]
    BY <1>1, <2>1, Inserted
  <2>3. list' = new
    BY <1>1 DEF at
  <2> HIDE DEF new
  <2>4. QED
    BY <2>2, <2>3 DEF at
<1>5. \A i \in DOMAIN list : list[i] # t /\ list[i] \in Timer /\ timers[list[i]].used
  BY <1>1 DEF TypeOK, ListOK, Queued
<1>6. ASSUME NEW i \in DOMAIN list', NEW j \in DOMAIN list', list'[i] = list'[j], i < j
      PROVE  FALSE
  <2>1. i \in 1 .. Len(list) + 1 /\ j \in 1 .. Len(list) + 1
    BY <1>4
  <2>2. \A a, b \in 1 .. Len(list) : list[a] = list[b] => a = b
    BY <1>1 DEF TypeOK, ListOK
  <2>3. \A a \in 1 .. Len(list) : list[a] # t
    BY <1>5, <1>1
  <2>4. CASE j < walk.at
    BY <2>1, <2>2, <2>4, <1>1, <1>4, <1>6
  <2>5. CASE j = walk.at
    BY <2>1, <2>3, <2>5, <1>1, <1>4, <1>6, SMTT(40)
  <2>6. CASE j > walk.at /\ i = walk.at
    <3>1. j - 1 \in 1 .. Len(list) /\ list'[j] = list[j - 1] /\ list'[i] = t
      BY <2>1, <2>6, <1>1, <1>4, SMTT(40)
    <3>2. QED
      BY <3>1, <2>3, <1>6
  <2>7. CASE j > walk.at /\ i < walk.at
    BY <2>1, <2>2, <2>7, <1>1, <1>4, <1>6
  <2>8. CASE j > walk.at /\ i > walk.at
    <3>0. /\ i - 1 \in 1 .. Len(list) /\ ~ i < walk.at /\ i # walk.at
          /\ j - 1 \in 1 .. Len(list) /\ ~ j < walk.at /\ j # walk.at
      BY <2>1, <2>8, <1>1
    <3>1. list'[i] = list[i - 1] /\ list'[j] = list[j - 1]
      BY <2>1, <3>0, <1>4
    <3>2. i - 1 = j - 1
      BY <3>0, <3>1, <2>2, <1>6
    <3>3. QED
      BY <3>2, <2>1, <1>6
  <2>9. QED
    BY <2>1, <2>4, <2>5, <2>6, <2>7, <2>8, <1>1, <1>6
<1>7. \A i, j \in DOMAIN list' : list'[i] = list'[j] => i = j
  BY <1>4, <1>6
<1>8. \A i \in DOMAIN list' : timers'[list'[i]].used
  BY <1>1, <1>3, <1>4, <1>5, SMTT(40)
<1>9. /\ alarm' \in Nat /\ since' \in Nat
      /\ mode' \in {"open", "handle"}
      /\ UNCHANGED <<irq, event, left, shifted>>
  BY <1>1 DEF WalkEnds, SetTimerAlarm, AlarmIn, clockVars, historyVars, TypeOK, ListOK
<1>10. QED
  BY <1>1, <1>3, <1>4, <1>7, <1>8, <1>9 DEF TypeOK, ListOK

(* A stop clears the entry of the timer and no other.                      *)
LEMMA ClearedTypes ==
  ASSUME TypeOK, NEW t \in Timer, NEW destroy \in BOOLEAN
  PROVE  /\ Cleared(t, destroy) \in [Timer -> TimerInfo]
         /\ \A s \in Timer : s # t => Cleared(t, destroy)[s] = timers[s]
<1> DEFINE info == [used |-> timers[t].used /\ ~ destroy, ticks |-> 0, period |-> 0]
<1>1. info \in TimerInfo
  BY DEF TypeOK, TimerInfo
<1>2. Cleared(t, destroy) = [timers EXCEPT ![t] = info]
  BY DEF Cleared, TypeOK
<1> HIDE DEF info
<1>3. QED
  BY <1>1, <1>2 DEF TypeOK

LEMMA StopTypes ==
  ASSUME TypeOK, NEW t \in Timer, NEW destroy \in BOOLEAN, StopOrDestroyTimer(t, destroy)
  PROVE  TypeOK'
<1>1. /\ Cleared(t, destroy) \in [Timer -> TimerInfo]
      /\ \A s \in Timer : s # t => Cleared(t, destroy)[s] = timers[s]
  BY ClearedTypes
<1>2. /\ list \in Seq(Timer) /\ mode = "open" /\ walk = NULL
      /\ \A i, j \in DOMAIN list : list[i] = list[j] => i = j
      /\ \A i \in DOMAIN list : list[i] \in Timer /\ timers[list[i]].used
  BY DEF StopOrDestroyTimer, StopIdle, StopBefore, StopLast, StopOnly, Call, TypeOK, ListOK
<1>3. ASSUME NEW others \in SUBSET Timer, Moved(others)
      PROVE  left' \in [Timer -> Nat] /\ shifted' \in SUBSET Timer
  BY <1>3 DEF Moved, TypeOK
<1>4. CASE StopIdle(t, destroy)
  BY <1>1, <1>2, <1>4 DEF StopIdle, TypeOK, ListOK, Queued, clockVars, historyVars
<1>5. CASE StopBefore(t, destroy)
  <2>1. PICK i \in 1 .. Len(list) - 1 :
          /\ list[i] = t /\ list' = RemoveAt(list, i)
          /\ Moved(IF timers[t].ticks = 0 /\ t \notin shifted THEN {}
                   ELSE {list[j] : j \in i + 1 .. Len(list)})
    BY <1>5 DEF StopBefore
  <2>2. left' \in [Timer -> Nat] /\ shifted' \in SUBSET Timer
    BY <1>2, <1>3, <2>1
  <2>3. /\ list' \in Seq(Timer) /\ Len(list') = Len(list) - 1
        /\ \A j \in 1 .. Len(list) - 1 : list'[j] = IF j < i THEN list[j] ELSE list[j + 1]
    <3>1. list \in Seq(Timer) /\ i \in 1 .. Len(list) /\ list' = RemoveAt(list, i)
      BY <1>2, <2>1
    <3>2. QED
      BY <3>1, Removed
  <2>4. \A j \in DOMAIN list' : \E k \in DOMAIN list : list'[j] = list[k] /\ k # i
    <3> SUFFICES ASSUME NEW j \in 1 .. Len(list) - 1
                 PROVE  \E k \in DOMAIN list : list'[j] = list[k] /\ k # i
      BY <2>3
    <3>1. CASE j < i
      <4>1. j \in DOMAIN list /\ j # i /\ list'[j] = list[j]
        BY <1>2, <2>1, <2>3, <3>1
      <4>2. QED
        BY <4>1
    <3>2. CASE ~ j < i
      <4>1. j + 1 \in DOMAIN list /\ j + 1 # i /\ list'[j] = list[j + 1]
        BY <1>2, <2>1, <2>3, <3>2
      <4>2. QED
        BY <4>1
    <3>3. QED
      BY <3>1, <3>2
  <2>5. \A a, b \in DOMAIN list' : list'[a] = list'[b] => a = b
    <3> SUFFICES ASSUME NEW a \in 1 .. Len(list) - 1, NEW b \in 1 .. Len(list) - 1,
                        list'[a] = list'[b]
                 PROVE  a = b
      BY <2>3
    <3> DEFINE old(x) == IF x < i THEN x ELSE x + 1
    <3>1. /\ old(a) \in 1 .. Len(list) /\ list'[a] = list[old(a)]
          /\ old(b) \in 1 .. Len(list) /\ list'[b] = list[old(b)]
      BY <1>2, <2>1, <2>3, SMTT(40)
    <3>2. old(a) = old(b)
      <4>1. \A x, y \in 1 .. Len(list) : list[x] = list[y] => x = y
        BY <1>2
      <4> HIDE DEF old
      <4>2. QED
        BY <3>1, <4>1
    <3>3. QED
      BY <3>2, <2>1
  <2>6. timers' = Cleared(t, destroy) /\ UNCHANGED <<since, alarm, irq, event, mode, walk>>
    BY <1>5 DEF StopBefore, clockVars
  <2>7. \A j \in DOMAIN list' : timers'[list'[j]].used
    BY <1>1, <1>2, <2>1, <2>4, <2>6
  <2>8. QED
    BY <1>1, <1>2, <2>2, <2>3, <2>5, <2>6, <2>7 DEF TypeOK, ListOK
<1>6. CASE StopLast(t, destroy)
  <2>1. /\ Len(list) > 1 /\ t = list[Len(list)]
        /\ list' = Front(list) /\ since' \in 0 .. MaxLag /\ Moved(ToSet(Front(list)))
        /\ timers' = Cleared(t, destroy) /\ UNCHANGED <<alarm, irq, event, mode, walk>>
    BY <1>6 DEF StopLast, Last
  <2>2. /\ list' \in Seq(Timer) /\ Len(list') = Len(list) - 1
        /\ \A i \in 1 .. Len(list) - 1 : list'[i] = list[i]
    BY <1>2, <2>1 DEF Front
  <2>3. left' \in [Timer -> Nat] /\ shifted' \in SUBSET Timer
    <3>1. ToSet(Front(list)) \in SUBSET Timer
      BY <2>1, <2>2 DEF ToSet
    <3>2. QED
      BY <1>3, <2>1, <3>1
  <2>4. \A i \in DOMAIN list' : i \in DOMAIN list /\ list'[i] = list[i] /\ list[i] # t
    BY <1>2, <2>1, <2>2
  <2>5. \A a, b \in DOMAIN list' : list'[a] = list'[b] => a = b
    BY <1>2, <2>4
  <2>6. \A i \in DOMAIN list' : timers'[list'[i]].used
    BY <1>1, <1>2, <2>1, <2>4
  <2>7. since' \in Nat
    BY <2>1, WordAssumption
  <2>8. QED
    BY <1>1, <1>2, <2>1, <2>2, <2>3, <2>5, <2>6, <2>7 DEF TypeOK, ListOK
<1>7. CASE StopOnly(t, destroy)
  <2>1. /\ since' = 0 /\ UNCHANGED <<alarm, irq, event, walk, left, shifted>>
        /\ \/ mode' = "panic" /\ UNCHANGED <<timers, list>>
           \/ list' = << >> /\ timers' = Cleared(t, destroy) /\ mode' = mode
    BY <1>7 DEF StopOnly, tableVars, historyVars
  <2>2. CASE mode' = "panic" /\ UNCHANGED <<timers, list>>
    BY <1>2, <2>1, <2>2 DEF TypeOK, ListOK
  <2>3. CASE list' = << >> /\ timers' = Cleared(t, destroy) /\ mode' = mode
    BY <1>1, <1>2, <2>1, <2>3 DEF TypeOK, ListOK
  <2>4. QED
    BY <2>1, <2>2, <2>3
<1>8. QED
  BY <1>4, <1>5, <1>6, <1>7 DEF StopOrDestroyTimer

LEMMA ExpireTypes == TypeOK /\ Expire => TypeOK'
<1> SUFFICES ASSUME TypeOK, Expire  PROVE TypeOK'
  OBVIOUS
<1> DEFINE t == Head(list)
<1>1. /\ list # << >> /\ mode = "handle" /\ walk = NULL
      /\ UNCHANGED <<alarm, irq, event, mode>>
  BY DEF Expire, Handling
<1>2. /\ t \in Timer /\ t = list[1] /\ timers[t] \in TimerInfo /\ timers[t].used
      /\ Tail(list) \in Seq(Timer)
      /\ \A i \in DOMAIN Tail(list) : Tail(list)[i] = list[i + 1] /\ i + 1 \in DOMAIN list
  BY <1>1, HeadListed
<1>3. /\ \A i \in DOMAIN Tail(list) : Tail(list)[i] # t /\ timers[Tail(list)[i]].used
      /\ \A i, j \in DOMAIN Tail(list) : Tail(list)[i] = Tail(list)[j] => i = j
  <2>1. /\ \A i, j \in DOMAIN list : list[i] = list[j] => i = j
        /\ \A i \in DOMAIN list : timers[list[i]].used
        /\ 1 \in DOMAIN list
    BY <1>1, HeadListed DEF TypeOK, ListOK
  <2>2. \A i \in DOMAIN Tail(list) : i \in Nat /\ i >= 1
    BY <1>2
  <2>3. QED
    BY <1>2, <2>1, <2>2
<1>4. CASE timers[t].period # 0
  <2> DEFINE n == NextTurn(timers[t])
  <2>1. QueueTimer(timers, Tail(list), t, n, 0)
    BY <1>4 DEF Expire
  <2>2. n \in Nat /\ timers \in [Timer -> TimerInfo]
    BY <1>2, NextTurnTypes DEF TypeOK
  <2> HIDE DEF n, t
  <2>3. /\ timers' \in [Timer -> TimerInfo] /\ since' \in Nat
        /\ left' \in [Timer -> Nat] /\ shifted' \subseteq Timer
        /\ list' \in Seq(Timer) /\ walk' \in Walk /\ walk'.at <= Len(list') + 1
        /\ \A i, j \in DOMAIN list' : list'[i] = list'[j] => i = j
        /\ \A i \in DOMAIN list' : timers'[list'[i]].used
        /\ ~ Queued(walk.timer)' /\ timers'[walk'.timer].used
    BY <1>2, <1>3, <2>1, <2>2, QueueTimerTypes, ZenonT(60)
  <2>4. QED
    BY <1>1, <2>3 DEF TypeOK, ListOK
<1>5. CASE timers[t].period = 0
  <2>1. /\ list' = Tail(list) /\ since' = 0
        /\ UNCHANGED <<timers, walk, left, shifted>>
    BY <1>5 DEF Expire, historyVars
  <2> HIDE DEF t
  <2>2. QED
    BY <1>1, <1>2, <1>3, <2>1 DEF TypeOK, ListOK
<1>6. QED
  BY <1>4, <1>5

LEMMA TypesStep == TypeOK /\ [Next]_vars => TypeOK'
<1> SUFFICES ASSUME TypeOK, [Next]_vars  PROVE TypeOK'
  OBVIOUS
<1> USE DEF tableVars, clockVars, historyVars
<1>1. CASE Tick
  <2>1. /\ since' \in Nat /\ alarm' \in Nat /\ irq' \in BOOLEAN /\ left' \in [Timer -> Nat]
        /\ UNCHANGED <<timers, list, event, mode, walk, shifted>>
    BY <1>1 DEF Tick, TypeOK
  <2>2. QED
    BY <2>1 DEF TypeOK, ListOK, Queued
<1>2. CASE IrqHandler
  BY <1>2 DEF IrqHandler, TypeOK, ListOK, Queued
<1>3. CASE WalkOn
  <2>1. /\ walk \in Walk /\ walk.at <= Len(list) /\ list \in Seq(Timer)
        /\ timers[list[walk.at]].ticks < walk.ticks /\ list[walk.at] \in Timer
        /\ timers[list[walk.at]] \in TimerInfo
    BY <1>3 DEF WalkOn, Before, TypeOK, ListOK, Walk
  <2> DEFINE r == walk.ticks - timers[list[walk.at]].ticks
  <2>2. r \in Nat /\ walk.at + 1 \in Nat \ {0} /\ walk.at + 1 <= Len(list) + 1
    BY <2>1 DEF TimerInfo, Walk
  <2>3. walk' = [walk EXCEPT !.ticks = r, !.at = walk.at + 1]
    BY <1>3 DEF WalkOn
  <2>4. UNCHANGED <<timers, list, since, alarm, irq, event, mode, left, shifted>>
    BY <1>3 DEF WalkOn
  <2> HIDE DEF r
  <2>5. walk' \in Walk /\ walk'.at = walk.at + 1 /\ walk'.timer = walk.timer
    BY <2>1, <2>2, <2>3 DEF Walk
  <2>6. ~ Queued(walk.timer)' /\ timers'[walk'.timer].used /\ mode' \in {"call", "handle"}
    BY <1>3, <2>4, <2>5 DEF WalkOn, TypeOK, ListOK, Queued
  <2>7. walk' # NULL
    BY <2>5, NullAssumption
  <2>8. QED
    BY <2>2, <2>4, <2>5, <2>6, <2>7 DEF TypeOK, ListOK
<1>4. CASE WalkEnds
  BY <1>4, WalkEndsTypes
<1>5. CASE Calls
  <2>1. ASSUME NEW s \in Setting, CreateTimer(s[1], s[2], s[3]) \/ RestartTimer(s[1], s[2], s[3])
        PROVE  TypeOK'
    <3>1. s[1] \in Timer /\ s[2] \in Nat /\ s[3] \in Nat
      BY SettingAssumption
    <3>2. ~ Queued(s[1]) /\ mode = "open"
      BY <2>1 DEF CreateTimer, RestartTimer, Call, TypeOK, ListOK, Queued
    <3>3. Start(s[1], s[2], s[3]) /\ UNCHANGED <<alarm, irq, event>>
      BY <2>1 DEF CreateTimer, RestartTimer
    <3>4. QED
      BY <3>1, <3>2, <3>3, StartTypes
  <2>2. ASSUME NEW e \in Ending, StopOrDestroyTimer(e[1], e[2])
        PROVE  TypeOK'
    BY <2>2, SettingAssumption, StopTypes
  <2>3. QED
    BY <1>5, <2>1, <2>2 DEF Calls
<1>6. CASE ReceiveEvent \/ NothingQueued
  BY <1>6 DEF ReceiveEvent, NothingQueued, TypeOK, ListOK, Queued
<1>7. CASE NotYet
  <2>1. /\ list # << >> /\ since < timers[Head(list)].ticks /\ since' = 0
        /\ timers' = Elapsed(timers, list, since) /\ mode' = "open" /\ walk = NULL
        /\ alarm' = AlarmIn(timers[Head(list)].ticks - since)
        /\ UNCHANGED <<list, irq, event, walk, left, shifted>>
    BY <1>7 DEF NotYet, Handling, SetTimerAlarm
  <2> DEFINE r == timers[Head(list)].ticks - since
  <2>2. Head(list) \in Timer /\ r \in Nat
    BY <2>1, HeadListed DEF TypeOK, TimerInfo
  <2>3. timers' = [timers EXCEPT ![Head(list)].ticks = r]
    BY <2>1 DEF Elapsed
  <2>4. alarm' \in Nat
    BY <2>1, <2>2 DEF AlarmIn
  <2> HIDE DEF r
  <2>5. timers' \in [Timer -> TimerInfo] /\ \A s \in Timer : timers'[s].used = timers[s].used
    BY <2>2, <2>3, WithTicks DEF TypeOK
  <2>6. \A i \in DOMAIN list : list[i] \in Timer
    BY DEF TypeOK, ListOK
  <2>7. QED
    BY <2>1, <2>4, <2>5, <2>6 DEF TypeOK, ListOK
<1>8. CASE Expire
  BY <1>8, ExpireTypes
<1>9. CASE UNCHANGED vars
  BY <1>9 DEF vars, TypeOK, ListOK, Queued
<1>10. QED
  BY <1>1, <1>2, <1>3, <1>4, <1>5, <1>6, <1>7, <1>8, <1>9 DEF Next, TimerHandler

LEMMA InitTypes == Init => TypeOK
<1> SUFFICES ASSUME Init  PROVE TypeOK
  OBVIOUS
<1>1. Free \in TimerInfo
  BY DEF Free, TimerInfo
<1>2. timers \in [Timer -> TimerInfo] /\ left \in [Timer -> Nat]
  BY <1>1 DEF Init
<1>3. ListOK
  BY DEF Init, ListOK
<1>4. QED
  BY <1>2, <1>3 DEF Init, TypeOK

(* Every step keeps the intervals and the clock non-negative and a timer   *)
(* on the list at most once, for any slots and calls.                      *)
THEOREM TypeCorrect == Spec => []TypeOK
<1>1. Init => TypeOK
  BY InitTypes
<1>2. QED
  BY <1>1, TypesStep, PTL DEF Spec

-----------------------------------------------------------------------------
(* AlarmInTime is inductive with it.                                       *)
LEMMA AlarmStep == TypeOK /\ TypeOK' /\ AlarmInTime /\ [Next]_vars => AlarmInTime'
<1> SUFFICES ASSUME TypeOK, TypeOK', AlarmInTime, [Next]_vars,
                    list' # << >>, mode' \in {"open", "call"}, ~ irq', ~ event'
             PROVE  /\ alarm' > 0
                    /\ \/ Head(list') \in shifted'
                       \/ alarm' <= AlarmIn(timers'[Head(list')].ticks - since')
  BY DEF AlarmInTime
<1> USE DEF tableVars, clockVars, historyVars
<1>1. ASSUME list # << >>
      PROVE  Head(list) \in Timer /\ Head(list) = list[1] /\ timers[Head(list)].ticks \in Nat
  BY <1>1, HeadListed DEF TimerInfo
<1>2. since \in Nat /\ alarm \in Nat
  BY DEF TypeOK
<1>3. CASE Tick
  <2>1. /\ list # << >> /\ mode \in {"open", "call"} /\ ~ irq /\ ~ event
        /\ alarm # 1 /\ since' = since + 1
        /\ alarm' = IF alarm = 0 THEN 0 ELSE alarm - 1
        /\ UNCHANGED <<timers, list, shifted>>
    BY <1>3 DEF Tick
  <2>2. alarm > 1 /\ (Head(list) \in shifted \/ alarm <= AlarmIn(timers[Head(list)].ticks - since))
    BY <2>1, <1>2 DEF AlarmInTime
  <2> DEFINE x == timers[Head(list)].ticks - since
  <2>3. x \in Int /\ timers[Head(list)].ticks - (since + 1) = x - 1
    BY <2>1, <1>1, <1>2
  <2> HIDE DEF x
  <2>4. QED
    <3>1. alarm' = alarm - 1 /\ alarm' > 0
      BY <2>1, <2>2, <1>2
    <3>2. timers'[Head(list')].ticks - since' = x - 1
      BY <2>1, <2>3
    <3>3. alarm <= AlarmIn(x) => alarm - 1 <= AlarmIn(x - 1)
      BY <2>3, <1>2 DEF AlarmIn
    <3>4. QED
      BY <2>1, <2>2, <3>1, <3>2, <3>3 DEF x
<1>4. CASE WalkOn
  BY <1>4 DEF WalkOn, AlarmInTime
<1>5. CASE WalkEnds
  <2>1. /\ walk \in Walk /\ walk.at \in 1 .. Len(list) + 1 /\ walk.timer \in Timer
        /\ list \in Seq(Timer) /\ ~ Queued(walk.timer) /\ walk.ticks \in Nat
        /\ list' = InsertAt(list, walk.at, walk.timer) /\ timers' = Placed(walk)
        /\ UNCHANGED <<irq, event, shifted>>
    BY <1>5 DEF WalkEnds, TypeOK, ListOK, Walk
  <2> DEFINE at == walk.at
             t == walk.timer
             tm == [timers EXCEPT ![t].ticks = walk.ticks]
             new == InsertAt(list, at, t)
  <2>2. new[1] = (IF 1 < at THEN list[1] ELSE t) /\ Len(new) = Len(list) + 1 /\ new \in Seq(Timer)
    <3>1. at \in 1 .. Len(list) + 1 /\ t \in Timer /\ list \in Seq(Timer)
      BY <2>1
    <3> HIDE DEF at, t
    <3>2. /\ new \in Seq(Timer) /\ Len(new) = Len(list) + 1
          /\ \A j \in 1 .. Len(list) + 1 :
               new[j] = IF j < at THEN list[j] ELSE IF j = at THEN t ELSE list[j - 1]
      BY <3>1, Inserted
    <3>3. 1 \in 1 .. Len(list) + 1 /\ (1 < at \/ 1 = at)
      BY <3>1
    <3> HIDE DEF new
    <3>4. QED
      BY <3>2, <3>3
  <2>3. Head(list') = new[1]
    BY <2>1, <2>2
  <2>4. /\ tm \in [Timer -> TimerInfo] /\ tm[t].ticks = walk.ticks
        /\ \A s \in Timer : s # t => tm[s] = timers[s]
    <3>1. t \in Timer /\ timers \in [Timer -> TimerInfo] /\ walk.ticks \in Nat
      BY <2>1 DEF TypeOK
    <3> HIDE DEF t
    <3>2. QED
      BY <3>1, WithTicks
  <2>5. ASSUME NEW s \in Timer, ~ (at <= Len(list) /\ s = list[at])
        PROVE  timers'[s] = tm[s]
    <3>1. CASE at <= Len(list)
      <4>1. list[at] \in Timer /\ timers' = [tm EXCEPT ![list[at]].ticks = @ - walk.ticks]
        BY <2>1, <3>1 DEF Placed
      <4> HIDE DEF tm
      <4>2. QED
        BY <2>4, <2>5, <3>1, <4>1
    <3>2. CASE ~ at <= Len(list)
      BY <2>1, <3>2 DEF Placed
    <3>3. QED
      BY <3>1, <3>2
  <2>6. CASE at = 1
    <3>1. timers'[t].ticks = walk.ticks
      <4>1. ~ (at <= Len(list) /\ t = list[at])
        BY <2>1 DEF Queued
      <4>2. QED
        BY <2>1, <2>4, <2>5, <4>1
    <3>2. alarm' = AlarmIn(walk.ticks) /\ since' = 0 /\ Head(list') = t
      BY <1>5, <2>2, <2>3, <2>6 DEF WalkEnds, SetTimerAlarm
    <3>3. QED
      BY <2>1, <3>1, <3>2 DEF AlarmIn
  <2>7. CASE at # 1
    <3>1. list # << >> /\ 1 < at /\ UNCHANGED <<alarm, since>>
      BY <1>5, <2>1, <2>7 DEF WalkEnds
    <3>2. Head(list') = list[1] /\ Head(list) = list[1] /\ list[1] \in Timer /\ list[1] # t
      BY <2>1, <2>2, <2>3, <3>1, <1>1 DEF Queued
    <3>3. ~ (at <= Len(list) /\ list[1] = list[at])
      <4>1. \A i, j \in 1 .. Len(list) : list[i] = list[j] => i = j
        BY ListDistinct
      <4>2. QED
        BY <2>1, <3>1, <4>1
    <3>4. timers'[list[1]] = timers[list[1]]
      BY <2>4, <2>5, <3>2, <3>3
    <3>5. ~ irq /\ ~ event /\ mode \in {"open", "call"}
      BY <1>5, <2>1 DEF WalkEnds, TypeOK
    <3>6. QED
      BY <2>1, <3>1, <3>2, <3>4, <3>5 DEF AlarmInTime
  <2>8. QED
    BY <2>6, <2>7
<1>6. ASSUME NEW t \in Timer, NEW delay \in Nat, NEW period \in Nat,
             mode = "open", ~ Queued(t), Start(t, delay, period), UNCHANGED <<alarm, irq, event>>
      PROVE  /\ alarm' > 0
             /\ \/ Head(list') \in shifted'
                \/ alarm' <= AlarmIn(timers'[Head(list')].ticks - since')
  <2> DEFINE n == ConvertDelayToTicks(IF delay # 0 THEN delay ELSE period)
             tm == [timers EXCEPT ![t] = [used |-> TRUE, ticks |-> n, period |-> period]]
             h == Head(list)
  <2>1. list' = list /\ h \in Timer /\ h # t
    BY <1>6, <1>1, SMTT(40) DEF Start, QueueTimer, Queued, TypeOK, ListOK
  <2>2. /\ alarm > 0
        /\ h \in shifted \/ alarm <= AlarmIn(timers[h].ticks - since)
    BY <1>6, <2>1 DEF AlarmInTime
  <2>3. n \in Nat
    BY ConvertedTypes
  <2> HIDE DEF n
  <2>9. tm \in [Timer -> TimerInfo] /\ tm[h] = timers[h]
    BY <2>1, <2>3 DEF TypeOK, TimerInfo
  <2>4. CASE n = 0
    <3>1. timers' = tm /\ UNCHANGED <<list, since, shifted>>
      BY <1>6, <2>4 DEF Start, n
    <3> HIDE DEF tm
    <3>2. QED
      BY <1>6, <2>2, <2>9, <3>1
  <2>5. CASE n # 0
    <3>1. QueueTimer(tm, list, t, n, since)
      BY <1>6, <2>5 DEF Start, n
    <3> HIDE DEF tm
    <3> DEFINE tn == [tm EXCEPT ![t].ticks = n]
               r == IF since < tn[h].ticks THEN tn[h].ticks - since ELSE 0
    <3>2. tn \in [Timer -> TimerInfo] /\ tn[h] = timers[h]
      BY <2>1, <2>3, <2>9, WithTicks
    <3>3. timers' = [tn EXCEPT ![h].ticks = r] /\ since' = 0 /\ shifted' = shifted \ {t}
      BY <2>1, <3>1 DEF QueueTimer, Elapsed
    <3>4. r \in Nat
      BY <2>1, <3>2, <1>2 DEF TimerInfo
    <3> HIDE DEF tn
    <3>5. r = IF since < timers[h].ticks THEN timers[h].ticks - since ELSE 0
      BY <3>2
    <3> HIDE DEF r
    <3>6. timers'[h].ticks = r
      BY <2>1, <3>2, <3>3, <3>4, WithTicks
    <3>8. timers[h].ticks \in Nat
      BY <2>1, <1>1
    <3>9. alarm <= AlarmIn(timers[h].ticks - since) => alarm <= AlarmIn(r - 0)
      BY <3>4, <3>5, <3>8, <1>2 DEF AlarmIn
    <3>10. QED
      BY <1>6, <2>1, <2>2, <3>3, <3>6, <3>9
  <2>6. QED
    BY <2>4, <2>5
<1>7. ASSUME NEW t \in Timer, NEW destroy \in BOOLEAN, StopOrDestroyTimer(t, destroy)
      PROVE  /\ alarm' > 0
             /\ \/ Head(list') \in shifted'
                \/ alarm' <= AlarmIn(timers'[Head(list')].ticks - since')
  <2>1. /\ \A s \in Timer : s # t => Cleared(t, destroy)[s] = timers[s]
    BY ClearedTypes
  <2>2. list \in Seq(Timer) /\ mode = "open" /\ UNCHANGED <<alarm, irq, event>>
    BY <1>7 DEF StopOrDestroyTimer, StopIdle, StopBefore, StopLast, StopOnly, Call, TypeOK, ListOK
  <2>3. CASE StopIdle(t, destroy)
    <3>1. Head(list) # t /\ Head(list) \in Timer /\ list # << >> /\ timers' = Cleared(t, destroy)
          /\ UNCHANGED <<list, since, shifted>>
      BY <2>3, <1>1 DEF StopIdle, Queued, TypeOK, ListOK
    <3>2. QED
      BY <2>1, <2>2, <3>1 DEF AlarmInTime
  <2>4. CASE StopBefore(t, destroy)
    <3>1. PICK i \in 1 .. Len(list) - 1 :
            /\ list[i] = t /\ list' = RemoveAt(list, i)
            /\ Moved(IF timers[t].ticks = 0 /\ t \notin shifted THEN {}
                     ELSE {list[j] : j \in i + 1 .. Len(list)})
      BY <2>4 DEF StopBefore
    <3>2. timers' = Cleared(t, destroy) /\ since' = since /\ list # << >>
      BY <2>2, <2>4, <3>1 DEF StopBefore
    <3>3. /\ list' \in Seq(Timer) /\ Len(list') = Len(list) - 1
          /\ \A j \in 1 .. Len(list) - 1 : list'[j] = IF j < i THEN list[j] ELSE list[j + 1]
      BY <2>2, <3>1, Removed
    <3>4. Head(list') = list'[1] /\ 1 \in 1 .. Len(list) - 1
      BY <3>1, <3>3
    <3>5. /\ alarm > 0
          /\ Head(list) \in shifted \/ alarm <= AlarmIn(timers[Head(list)].ticks - since)
      BY <2>2, <3>2 DEF AlarmInTime
    <3>6. CASE i = 1
      <4>1. Head(list') = list[2] /\ list[2] \in Timer /\ Head(list) = t
        BY <2>2, <3>1, <3>3, <3>4, <3>6
      <4>2. CASE timers[t].ticks = 0 /\ t \notin shifted
        <5>1. alarm <= 2
          BY <4>1, <4>2, <3>5, <1>2 DEF AlarmIn
        <5>2. timers'[Head(list')].ticks \in Nat
          BY <4>1 DEF TypeOK, TimerInfo
        <5>3. timers'[Head(list')].ticks - since' \in Int
          BY <5>2, <3>2, <1>2
        <5>4. QED
          BY <5>1, <5>3, <3>5, <2>2, <1>2 DEF AlarmIn
      <4>3. CASE ~ (timers[t].ticks = 0 /\ t \notin shifted)
        <5>1. shifted' = shifted \cup {list[j] : j \in 2 .. Len(list)}
          BY <3>1, <3>6, <4>3 DEF Moved
        <5>2. 2 \in 2 .. Len(list)
          BY <3>4, <2>2
        <5>3. QED
          BY <4>1, <5>1, <5>2, <3>5, <2>2
      <4>4. QED
        BY <4>2, <4>3
    <3>7. CASE i # 1
      <4>1. Head(list') = list[1] /\ Head(list) = list[1] /\ list[1] \in Timer
        BY <2>2, <3>1, <3>3, <3>4, <3>7
      <4>2. list[1] # t
        <5>1. \A a, b \in 1 .. Len(list) : list[a] = list[b] => a = b
          BY ListDistinct
        <5>2. 1 \in 1 .. Len(list) /\ i \in 1 .. Len(list)
          BY <2>2, <3>1, <3>4
        <5>3. QED
          BY <3>1, <3>7, <5>1, <5>2
      <4>3. shifted \subseteq shifted'
        BY <3>1 DEF Moved
      <4>4. QED
        BY <2>1, <2>2, <3>2, <3>5, <4>1, <4>2, <4>3
    <3>8. QED
      BY <3>6, <3>7
  <2>5. CASE StopLast(t, destroy)
    <3>1. Len(list) > 1 /\ list' = Front(list) /\ Moved(ToSet(Front(list)))
      BY <2>5 DEF StopLast
    <3>2. Head(list') \in ToSet(Front(list))
      <4>1. Len(Front(list)) = Len(list) - 1 /\ Front(list) \in Seq(Timer)
        BY <2>2, <3>1 DEF Front
      <4>2. 1 \in DOMAIN Front(list) /\ Head(list') = Front(list)[1]
        BY <2>2, <3>1, <4>1
      <4>3. QED
        BY <4>2 DEF ToSet
    <3>3. QED
      BY <2>2, <3>1, <3>2 DEF AlarmInTime, Moved
  <2>6. CASE StopOnly(t, destroy)
    BY <2>6 DEF StopOnly
  <2>7. QED
    BY <1>7, <2>3, <2>4, <2>5, <2>6 DEF StopOrDestroyTimer
<1>8. CASE Calls
  <2>1. ASSUME NEW s \in Setting, CreateTimer(s[1], s[2], s[3]) \/ RestartTimer(s[1], s[2], s[3])
        PROVE  /\ alarm' > 0
               /\ \/ Head(list') \in shifted'
                  \/ alarm' <= AlarmIn(timers'[Head(list')].ticks - since')
    <3>1. s[1] \in Timer /\ s[2] \in Nat /\ s[3] \in Nat
      BY SettingAssumption
    <3>2. ~ Queued(s[1]) /\ mode = "open"
      BY <2>1 DEF CreateTimer, RestartTimer, Call, TypeOK, ListOK, Queued
    <3>3. Start(s[1], s[2], s[3]) /\ UNCHANGED <<alarm, irq, event>>
      BY <2>1 DEF CreateTimer, RestartTimer
    <3>4. QED
      BY <3>1, <3>2, <3>3, <1>6
  <2>2. ASSUME NEW e \in Ending, StopOrDestroyTimer(e[1], e[2])
        PROVE  /\ alarm' > 0
               /\ \/ Head(list') \in shifted'
                  \/ alarm' <= AlarmIn(timers'[Head(list')].ticks - since')
    BY <2>2, SettingAssumption, <1>7
  <2>3. QED
    BY <1>8, <2>1, <2>2 DEF Calls
<1>9. CASE NotYet
  <2> DEFINE h == Head(list)
             r == timers[h].ticks - since
  <2>1. /\ list # << >> /\ list' = list /\ since < timers[h].ticks
        /\ timers' = [timers EXCEPT ![h].ticks = r]
        /\ alarm' = AlarmIn(r) /\ since' = 0
    BY <1>9 DEF NotYet, Handling, SetTimerAlarm, Elapsed
  <2>2. h \in Timer /\ r \in Nat
    BY <2>1, <1>1, <1>2
  <2> HIDE DEF h, r
  <2>3. timers'[h].ticks = r
    BY <2>1, <2>2, WithTicks DEF TypeOK
  <2>4. Head(list') = h /\ r - 0 = r
    BY <2>1, <2>2 DEF h
  <2>5. QED
    BY <2>1, <2>2, <2>3, <2>4 DEF AlarmIn
<1>10. CASE IrqHandler \/ ReceiveEvent \/ NothingQueued \/ Expire
  BY <1>10 DEF IrqHandler, ReceiveEvent, NothingQueued, Expire, Handling
<1>11. CASE UNCHANGED vars
  BY <1>11 DEF vars, AlarmInTime
<1>12. QED
  BY <1>3, <1>4, <1>5, <1>8, <1>9, <1>10, <1>11 DEF Next, TimerHandler

(* The handler never sleeps past the turn of the first timer that no stop  *)
(* has moved: its alarm is set, in time, or its wake up is on the way.     *)
THEOREM WakesInTime == Spec => []AlarmInTime
<1>1. Init => AlarmInTime
  BY DEF Init, AlarmInTime
<1>2. TypeOK /\ AlarmInTime /\ [Next]_vars => TypeOK' /\ AlarmInTime'
  BY TypesStep, AlarmStep
<1>3. Init => TypeOK
  BY InitTypes
<1>4. QED
  BY <1>1, <1>2, <1>3, PTL DEF Spec

-----------------------------------------------------------------------------
(* Turns are sums, added up timer by timer.                                *)
LEMMA SetOfNaturals ==
  ASSUME NEW S, 0 \in S, \A n \in Nat : n \in S => n + 1 \in S
  PROVE  Nat \subseteq S
<1> DEFINE R == OpToRel(<, Nat)
<1>1. IsWellFoundedOn(R, Nat)  BY NatLessThanWellFounded
<1>2. \A x, y \in Nat : x < y => <<x, y>> \in R  BY DEF OpToRel
<1> HIDE DEF R
<1>3. SUFFICES ASSUME Nat \ S # {} PROVE FALSE
  OBVIOUS
<1>4. PICK m \in Nat \ S : \A n \in Nat \ S : ~ (<<n, m>> \in R)
  BY <1>1, <1>3, WFMin
<1>5. m \in Nat /\ m # 0 /\ m - 1 \in Nat /\ m - 1 < m /\ (m - 1) + 1 = m
  BY <1>4
<1>6. m - 1 \in S
  BY <1>2, <1>4, <1>5
<1> QED  BY <1>4, <1>5, <1>6

Sums(f, l, tm, passed) ==
  /\ f \in [0 .. Len(l) -> Int] /\ f[0] = - passed
  /\ \A n \in 1 .. Len(l) : f[n] = f[n - 1] + tm[l[n]].ticks

LEMMA TurnsAreSums ==
  ASSUME NEW l \in Seq(Timer), NEW tm \in [Timer -> TimerInfo], NEW passed \in Nat
  PROVE  Sums(Turns(l, tm, passed), l, tm, passed)
<1>1. PICK len \in Nat : len = Len(l)
  BY LenProperties
<1>2. \A n \in 1 .. len : tm[l[n]].ticks \in Int
  <2> SUFFICES ASSUME NEW n \in 1 .. len PROVE tm[l[n]].ticks \in Int
    OBVIOUS
  <2>1. l[n] \in Timer
    BY <1>1, ElementOfSeq
  <2> QED  BY <2>1 DEF TimerInfo
<1> DEFINE Is(f, m) == f \in [0 .. m -> Int] /\ f[0] = - passed /\ \A n \in 1 .. m : f[n] = f[n - 1] + tm[l[n]].ticks
           S == {m \in Nat : m <= len => \E f : Is(f, m)}
<1>3. 0 \in S
  <2>1. Is([n \in 0 .. 0 |-> - passed], 0)
    OBVIOUS
  <2> QED  BY <2>1
<1>4. ASSUME NEW m \in Nat, m \in S PROVE m + 1 \in S
  <2> HIDE DEF Is
  <2> SUFFICES ASSUME m + 1 <= len PROVE \E f : Is(f, m + 1)
    OBVIOUS
  <2>0. m <= len
    BY <1>1
  <2>1. PICK f : Is(f, m)
    BY <1>4, <2>0
  <2> USE DEF Is
  <2> DEFINE g == [n \in 0 .. m + 1 |-> IF n <= m THEN f[n] ELSE f[m] + tm[l[n]].ticks]
  <2>2. tm[l[m + 1]].ticks \in Int /\ f[m] \in Int /\ \A n \in 0 .. m : f[n] \in Int
    BY <1>1, <1>2, <2>1
  <2>3. \A n \in 0 .. m + 1 : n <= m \/ n = m + 1
    OBVIOUS
  <2>4. g \in [0 .. m + 1 -> Int]
    BY <2>2, <2>3
  <2>5. g[0] = - passed
    BY <2>1
  <2>6. ASSUME NEW n \in 1 .. m + 1 PROVE g[n] = g[n - 1] + tm[l[n]].ticks
    <3>1. g[n - 1] = f[n - 1]
      OBVIOUS
    <3>2. CASE n \in 1 .. m
      BY <2>1, <3>1, <3>2
    <3>3. CASE n = m + 1
      BY <3>1, <3>3
    <3> QED  BY <3>2, <3>3
  <2> HIDE DEF g
  <2> QED  BY <2>4, <2>5, <2>6
<1>5. len \in S
  <2> HIDE DEF S
  <2>1. Nat \subseteq S
    BY <1>3, <1>4, SetOfNaturals
  <2> QED  BY <2>1
<1>6. PICK f : Is(f, len)
  BY <1>5
<1> DEFINE Next1(g) == [n \in 0 .. Len(l) |-> IF n = 0 THEN - passed ELSE g[n - 1] + tm[l[n]].ticks]
<1>7. f = Next1(f)
  BY <1>1, <1>6
<1>8. PICK g : g = Turns(l, tm, passed) /\ g = Next1(g)
  BY <1>7 DEF Turns
<1>9. g[0] = - passed /\ \A n \in 1 .. len : g[n] = g[n - 1] + tm[l[n]].ticks
  BY <1>1, <1>8
<1> DEFINE T == {m \in Nat : m <= len => g[m] \in Int}
<1>10. 0 \in T
  BY <1>9
<1>11. ASSUME NEW m \in Nat, m \in T PROVE m + 1 \in T
  BY <1>2, <1>9, <1>11
<1>12. \A m \in 0 .. len : g[m] \in Int
  <2> HIDE DEF T
  <2>1. Nat \subseteq T
    BY <1>10, <1>11, SetOfNaturals
  <2> QED  BY <2>1 DEF T
<1>13. g \in [0 .. len -> Int]
  BY <1>1, <1>8, <1>12
<1> QED  BY <1>1, <1>8, <1>9, <1>13 DEF Sums

(* Two sums that grow alike stay apart as they are.                        *)
LEMMA SumsGo ==
  ASSUME NEW f, NEW g, NEW m \in Nat, NEW n \in Nat, NEW s \in Int, NEW k \in Int,
         \A j \in m .. n : f[j] \in Int /\ g[j + s] \in Int,
         f[m] >= g[m + s] + k,
         \A j \in m + 1 .. n : \E x \in Int : f[j] = f[j - 1] + x /\ g[j + s] = g[j - 1 + s] + x
  PROVE  \A j \in m .. n : f[j] >= g[j + s] + k
<1> DEFINE S == {i \in Nat : m + i <= n => f[m + i] >= g[m + i + s] + k}
<1>1. 0 \in S
  OBVIOUS
<1>2. ASSUME NEW i \in Nat, i \in S PROVE i + 1 \in S
  <2> SUFFICES ASSUME m + (i + 1) <= n PROVE f[m + (i + 1)] >= g[m + (i + 1) + s] + k
    OBVIOUS
  <2>1. PICK j \in m + 1 .. n : j = m + (i + 1) /\ j - 1 = m + i /\ j - 1 \in m .. n /\ j \in m .. n
    OBVIOUS
  <2>2. f[j - 1] >= g[j - 1 + s] + k
    BY <1>2, <2>1
  <2>3. PICK x \in Int : f[j] = f[j - 1] + x /\ g[j + s] = g[j - 1 + s] + x
    OBVIOUS
  <2>4. f[j - 1] \in Int /\ g[j - 1 + s] \in Int
    BY <2>1
  <2>5. f[j] >= g[j + s] + k
    BY <2>2, <2>3, <2>4
  <2> QED  BY <2>1, <2>5
<1>3. Nat \subseteq S
  <2> HIDE DEF S
  <2> QED  BY <1>1, <1>2, SetOfNaturals
<1> SUFFICES ASSUME NEW j \in m .. n PROVE f[j] >= g[j + s] + k
  OBVIOUS
<1>4. PICK i \in Nat : m + i = j /\ m + i <= n
  <2>1. j - m \in Nat /\ m + (j - m) = j /\ m + (j - m) <= n
    OBVIOUS
  <2> QED  BY <2>1
<1>5. f[m + i] >= g[m + i + s] + k
  BY <1>3, <1>4
<1> QED  BY <1>4, <1>5

LEMMA TurnsHold ==
  ASSUME TypeOK
  PROVE  Sums(Turns(list, timers, since), list, timers, since)
BY TurnsAreSums DEF TypeOK, ListOK

LEMMA TurnsHoldNext ==
  ASSUME TypeOK'
  PROVE  Sums(Turns(list', timers', since'), list', timers', since')
BY TurnsAreSums DEF TypeOK, ListOK

(* Turns are numbers.                                                      *)
LEMMA TurnsAreNumbers ==
  ASSUME TypeOK
  PROVE  \A i \in 0 .. Len(list) : Turn(i) \in Int
BY TurnsHold DEF Sums, Turn

(* The list is the same and no timer but its first was touched.            *)
LEMMA SameListTurns ==
  ASSUME TypeOK, TypeOK', list' = list, NEW k \in Int, NEW m \in {0, 1}, m <= Len(list),
         \A i \in m + 1 .. Len(list) : timers'[list[i]].ticks = timers[list[i]].ticks,
         m = 0 => since' = since - k,
         m = 1 => timers'[list[1]].ticks - since' >= timers[list[1]].ticks - since + k
  PROVE  \A i \in m .. Len(list) : Turn(i)' >= Turn(i) + k
<1>1. PICK f, g, len : f = Turns(list', timers', since') /\ g = Turns(list, timers, since) /\ len = Len(list)
  OBVIOUS
<1>2. Sums(g, list, timers, since) /\ Sums(f, list, timers', since')
  BY <1>1, TurnsHold, TurnsHoldNext
<1>3. len \in Nat /\ since \in Nat /\ since' \in Nat
  BY <1>1, LenProperties DEF TypeOK, ListOK
<1>4. \A i \in 1 .. len : timers[list[i]].ticks \in Nat /\ timers'[list[i]].ticks \in Nat
  <2> SUFFICES ASSUME NEW i \in 1 .. len
               PROVE  timers[list[i]].ticks \in Nat /\ timers'[list[i]].ticks \in Nat
    OBVIOUS
  <2>1. list[i] \in Timer
    BY <1>1, ElementOfSeq DEF TypeOK, ListOK
  <2> QED  BY <2>1 DEF TypeOK, TimerInfo
<1>5. /\ \A j \in 0 .. len : f[j] \in Int /\ g[j] \in Int
      /\ f[0] = - since' /\ g[0] = - since
      /\ \A j \in 1 .. len : f[j] = f[j - 1] + timers'[list[j]].ticks /\ g[j] = g[j - 1] + timers[list[j]].ticks
  BY <1>1, <1>2 DEF Sums
<1>6. f[m] >= g[m] + k
  <2>1. CASE m = 0
    BY <1>3, <1>5, <2>1
  <2>2. CASE m = 1
    <3>1. PICK x \in Nat, y \in Nat : x = timers[list[1]].ticks /\ y = timers'[list[1]].ticks
      BY <1>1, <1>3, <1>4, <2>2
    <3>2. 1 \in 1 .. len
      BY <1>1, <1>3, <2>2
    <3>3. f[1] = f[0] + y /\ g[1] = g[0] + x
      BY <1>5, <3>1, <3>2
    <3>4. y - since' >= x - since + k
      BY <2>2, <3>1
    <3>5. f[1] >= g[1] + k
      <4>1. PICK p \in Nat, q \in Nat : p = since /\ q = since'
        BY <1>3
      <4>2. f[1] = - q + y /\ g[1] = - p + x /\ y - q >= x - p + k
        BY <1>5, <3>3, <3>4, <4>1
      <4> QED  BY <4>2
    <3> QED  BY <2>2, <3>5
  <2> QED  BY <2>1, <2>2
<1>7. \A j \in m + 1 .. len : \E x \in Int : f[j] = f[j - 1] + x /\ g[j + 0] = g[j - 1 + 0] + x
  <2> SUFFICES ASSUME NEW j \in m + 1 .. len
               PROVE  \E x \in Int : f[j] = f[j - 1] + x /\ g[j + 0] = g[j - 1 + 0] + x
    OBVIOUS
  <2>1. j \in 1 .. len /\ j + 0 = j /\ j - 1 + 0 = j - 1
    BY <1>3
  <2>2. PICK x \in Int : x = timers[list[j]].ticks
    BY <1>4, <2>1
  <2>3. f[j] = f[j - 1] + x /\ g[j] = g[j - 1] + x
    BY <1>1, <1>5, <2>1, <2>2
  <2> QED  BY <2>1, <2>3
<1>8. \A j \in m .. len : f[j] >= g[j + 0] + k
  <2>1. \A j \in m .. len : f[j] \in Int /\ g[j + 0] \in Int
    BY <1>3, <1>5
  <2>2. f[m] >= g[m + 0] + k
    BY <1>6
  <2>3. m \in Nat /\ 0 \in Int
    OBVIOUS
  <2> QED  BY <1>3, <1>7, <2>1, <2>2, <2>3, SumsGo
<1>9. \A j \in m .. len : f[j] >= g[j] + k
  BY <1>3, <1>8
<1> QED  BY <1>1, <1>9 DEF Turn

(* The timer whose place is looked for has gone as many ticks down the     *)
(* list as those that it passed hold.                                      *)
WalkInTime == walk # NULL /\ left[walk.timer] > 0 => Turn(walk.at - 1) + walk.ticks >= left[walk.timer]
InTime == NeverEarly /\ WalkInTime

(* Nothing comes earlier than it did.                                      *)
LEMMA LaterInTime ==
  ASSUME TypeOK, TypeOK', NeverEarly, list' = list,
         \A i \in 1 .. Len(list) : left'[list[i]] > 0 => left'[list[i]] = left[list[i]],
         shifted \ {t \in Timer : ~ Queued(t)} \subseteq shifted',
         \A i \in 1 .. Len(list) : Turn(i)' >= Turn(i)
  PROVE  NeverEarly'
<1> SUFFICES ASSUME NEW i \in DOMAIN list, left'[list[i]] > 0, list[i] \notin shifted'
             PROVE  Turn(i)' >= left'[list[i]]
  BY DEF NeverEarly
<1>1. PICK len \in Nat : len = Len(list) /\ DOMAIN list = 1 .. len
  BY LenProperties DEF TypeOK, ListOK
<1>2. Queued(list[i]) /\ list[i] \in Timer /\ i \in 1 .. Len(list) /\ i \in 0 .. Len(list)
  BY <1>1, ElementOfSeq DEF Queued, TypeOK, ListOK
<1>3. left'[list[i]] = left[list[i]] /\ list[i] \notin shifted
  BY <1>2
<1>4. Turn(i) >= left[list[i]]
  BY <1>3 DEF NeverEarly
<1>5. Turn(i) \in Int /\ left[list[i]] \in Nat
  BY <1>2, TurnsAreNumbers DEF TypeOK
<1>6. Turn(i)' \in Int
  <2>1. Sums(Turns(list', timers', since'), list', timers', since')
    BY TurnsHoldNext
  <2> QED  BY <1>2, <2>1 DEF Sums, Turn
<1>7. Turn(i)' >= Turn(i)
  BY <1>2
<1>8. PICK a \in Int, b \in Int, c \in Nat : a = Turn(i)' /\ b = Turn(i) /\ c = left[list[i]]
  BY <1>5, <1>6
<1>9. a >= b /\ b >= c
  BY <1>4, <1>7, <1>8
<1> QED  BY <1>3, <1>8, <1>9

LEMMA QuietInTime ==
  ASSUME InTime, UNCHANGED <<timers, list, since, walk, left, shifted>>
  PROVE  InTime'
BY DEF InTime, NeverEarly, WalkInTime, Turn

LEMMA WalkFacts ==
  ASSUME TypeOK, walk # NULL
  PROVE  /\ walk \in Walk /\ walk.timer \in Timer /\ walk.ticks \in Nat /\ walk.at \in 1 .. Len(list) + 1
         /\ walk.at - 1 \in 0 .. Len(list) /\ Len(list) \in Nat /\ Turn(walk.at - 1) \in Int
         /\ left[walk.timer] \in Nat
<1>1. walk \in Walk /\ walk.at <= Len(list) + 1 /\ Len(list) \in Nat
  BY LenProperties DEF TypeOK, ListOK
<1>2. walk.timer \in Timer /\ walk.ticks \in Nat /\ walk.at \in Nat \ {0}
  BY <1>1 DEF Walk
<1>3. walk.at \in 1 .. Len(list) + 1 /\ walk.at - 1 \in 0 .. Len(list)
  BY <1>1, <1>2
<1> QED  BY <1>1, <1>2, <1>3, TurnsAreNumbers DEF TypeOK

LEMMA TickInTime == ASSUME TypeOK, TypeOK', InTime, Tick PROVE InTime'
<1>1. /\ UNCHANGED <<timers, list, walk, shifted>>
      /\ left' = [t \in Timer |-> IF Started(t) /\ left[t] > 0 THEN left[t] - 1 ELSE 0]
      /\ (list = << >> /\ walk = NULL) \/ since' = since + 1
  BY DEF Tick, tableVars
<1>2. CASE list = << >> /\ walk = NULL
  BY <1>1, <1>2 DEF InTime, NeverEarly, WalkInTime
<1>3. CASE since' = since + 1
  <2>1. \A i \in 0 .. Len(list) : Turn(i)' >= Turn(i) + (-1)
    <3>1. since' = since - (-1) /\ 0 <= Len(list) /\ -1 \in Int /\ 0 \in {0, 1}
      BY <1>3, LenProperties DEF TypeOK, ListOK
    <3> QED  BY <1>1, <3>1, SameListTurns
  <2>2. \A t \in Timer : left'[t] > 0 => left[t] = left'[t] + 1 /\ left[t] \in Nat /\ left[t] > 0
    BY <1>1 DEF TypeOK
  <2>3. \A i \in 0 .. Len(list) : Turn(i)' \in Int /\ Turn(i) \in Int
    <3>1. Sums(Turns(list', timers', since'), list', timers', since')
      BY TurnsHoldNext
    <3> QED  BY <1>1, <3>1, TurnsAreNumbers DEF Sums, Turn
  <2>4. NeverEarly'
    <3> SUFFICES ASSUME NEW i \in DOMAIN list, left'[list[i]] > 0, list[i] \notin shifted
                 PROVE  Turn(i)' >= left'[list[i]]
      BY <1>1 DEF NeverEarly
    <3>1. PICK len \in Nat : len = Len(list) /\ DOMAIN list = 1 .. len
      BY LenProperties DEF TypeOK, ListOK
    <3>2. list[i] \in Timer /\ i \in 0 .. Len(list)
      BY <3>1, ElementOfSeq DEF TypeOK, ListOK
    <3>3. PICK a \in Int, b \in Int, c \in Nat : a = Turn(i)' /\ b = Turn(i) /\ c = left[list[i]]
      BY <2>2, <2>3, <3>2
    <3>4. a >= b + (-1) /\ b >= c /\ left'[list[i]] + 1 = c
      BY <2>1, <2>2, <3>2, <3>3 DEF InTime, NeverEarly
    <3>5. left'[list[i]] \in Nat
      BY <3>2 DEF TypeOK
    <3>6. a >= left'[list[i]]
      BY <3>4, <3>5
    <3> QED  BY <3>3, <3>6
  <2>5. WalkInTime'
    <3> SUFFICES ASSUME walk # NULL, left'[walk.timer] > 0
                 PROVE  Turn(walk.at - 1)' + walk.ticks >= left'[walk.timer]
      BY <1>1 DEF WalkInTime
    <3>1. walk.timer \in Timer /\ walk.ticks \in Nat /\ walk.at - 1 \in 0 .. Len(list) /\ left'[walk.timer] \in Nat
      BY WalkFacts DEF TypeOK
    <3>2. PICK a \in Int, b \in Int, c \in Nat, d \in Nat, w \in Nat :
            /\ a = Turn(walk.at - 1)' /\ b = Turn(walk.at - 1)
            /\ c = left[walk.timer] /\ d = left'[walk.timer] /\ w = walk.ticks
      <4>1. Turn(walk.at - 1)' \in Int /\ Turn(walk.at - 1) \in Int
        BY <1>1, <2>3, <3>1
      <4> QED  BY <2>2, <3>1, <4>1
    <3>3. a >= b + (-1)
      BY <1>1, <2>1, <3>1, <3>2
    <3>4. c = d + 1 /\ b + w >= c
      BY <2>2, <3>1, <3>2 DEF InTime, WalkInTime
    <3>5. a + w >= d
      BY <3>3, <3>4
    <3> QED  BY <3>2, <3>5
  <2> QED  BY <2>4, <2>5 DEF InTime
<1> QED  BY <1>1, <1>2, <1>3

LEMMA WalkOnInTime == ASSUME TypeOK, TypeOK', InTime, WalkOn PROVE InTime'
<1>1. /\ walk # NULL /\ UNCHANGED <<timers, list, since, left, shifted>>
      /\ walk.at <= Len(list)
  BY DEF WalkOn, Before, tableVars, clockVars, historyVars
<1>2. PICK w \in Nat, at \in Nat, x \in Nat : w = walk.ticks /\ at = walk.at /\ x = timers[list[at]].ticks
                                              /\ at \in 1 .. Len(list)
  <2>1. walk.at \in 1 .. Len(list)
    BY <1>1, WalkFacts
  <2>2. list[walk.at] \in Timer
    BY <2>1, ElementOfSeq DEF TypeOK, ListOK
  <2>3. timers[list[walk.at]].ticks \in Nat
    BY <2>2 DEF TypeOK, TimerInfo
  <2> QED  BY <2>1, <2>3, WalkFacts, <1>1, SMTT(40)
<1>3. walk' = [walk EXCEPT !.ticks = w - x, !.at = at + 1]
  BY <1>2 DEF WalkOn
<1>4. walk'.timer = walk.timer /\ walk'.ticks = w - x /\ walk'.at = at + 1
  BY <1>1, <1>3, WalkFacts DEF Walk
<1>5. NeverEarly'
  BY <1>1 DEF InTime, NeverEarly, Turn
<1>6. PICK a \in Int, b \in Int : a = Turn(at) /\ b = Turn(at - 1) /\ a = b + x
  <2>1. Sums(Turns(list, timers, since), list, timers, since)
    BY TurnsHold
  <2>2. Turn(at) = Turn(at - 1) + x
    BY <1>2, <2>1 DEF Sums, Turn
  <2>3. at - 1 \in 0 .. Len(list) /\ at \in 0 .. Len(list)
    BY <1>2
  <2> QED  BY <2>2, <2>3, TurnsAreNumbers
<1>7. WalkInTime'
  <2> SUFFICES ASSUME left[walk.timer] > 0 PROVE Turn(walk.at - 1)' + walk'.ticks >= left[walk.timer]
    BY <1>1, <1>4 DEF WalkInTime
  <2>1. b + w >= left[walk.timer] /\ left[walk.timer] \in Nat
    BY <1>1, <1>2, <1>6, WalkFacts DEF InTime, WalkInTime
  <2>2. Turn(walk.at - 1)' = a
    <3>1. walk'.at - 1 = at
      BY <1>2, <1>4
    <3> QED  BY <1>1, <1>6, <3>1 DEF Turn
  <2>3. a + (w - x) >= left[walk.timer]
    BY <1>6, <2>1
  <2> QED  BY <1>4, <2>2, <2>3
<1> QED  BY <1>5, <1>7 DEF InTime

LEMMA NotYetInTime == ASSUME TypeOK, TypeOK', InTime, NotYet PROVE InTime'
<1>1. /\ list # << >> /\ walk = NULL /\ since' = 0
      /\ timers' = Elapsed(timers, list, since) /\ since < timers[Head(list)].ticks
      /\ UNCHANGED <<list, walk, left, shifted>>
  BY DEF NotYet, Handling, SetTimerAlarm, historyVars
<1>2. Head(list) = list[1] /\ list[1] \in Timer /\ since \in Nat /\ timers[list[1]].ticks \in Nat
  BY <1>1, HeadListed DEF TypeOK, TimerInfo
<1>3. PICK r \in Nat : r = timers[list[1]].ticks - since
  BY <1>1, <1>2
<1>4. timers' = [timers EXCEPT ![list[1]].ticks = r]
  BY <1>1, <1>2, <1>3 DEF Elapsed
<1>5. timers'[list[1]].ticks = r /\ \A s \in Timer : s # list[1] => timers'[s] = timers[s]
  BY <1>2, <1>4, WithTicks DEF TypeOK
<1>6. \A i \in 1 .. Len(list) : Turn(i)' >= Turn(i) + 0
  <2>1. \A i \in 1 + 1 .. Len(list) : timers'[list[i]].ticks = timers[list[i]].ticks
    <3> SUFFICES ASSUME NEW i \in 2 .. Len(list) PROVE timers'[list[i]].ticks = timers[list[i]].ticks
      OBVIOUS
    <3>1. i \in 1 .. Len(list) /\ 1 \in 1 .. Len(list) /\ i # 1
      BY LenProperties DEF TypeOK, ListOK
    <3>2. list[i] \in Timer /\ list[i] # list[1]
      BY <3>1, ListDistinct, ElementOfSeq DEF TypeOK, ListOK
    <3> QED  BY <1>5, <3>2
  <2>2. timers'[list[1]].ticks - since' >= timers[list[1]].ticks - since + 0
    BY <1>1, <1>2, <1>3, <1>5
  <2>3. 1 <= Len(list) /\ 1 \in {0, 1} /\ 0 \in Int
    BY <1>1, EmptySeq, LenProperties DEF TypeOK, ListOK
  <2> QED  BY <1>1, <2>1, <2>2, <2>3, SameListTurns
<1>7. \A i \in 1 .. Len(list) : Turn(i)' >= Turn(i)
  <2>1. \A i \in 1 .. Len(list) : Turn(i) \in Int
    BY TurnsAreNumbers
  <2> QED  BY <1>6, <2>1
<1>8. NeverEarly'
  BY <1>1, <1>7, LaterInTime DEF InTime
<1> QED  BY <1>1, <1>8 DEF InTime, WalkInTime

(* A timer that is not on the list is started, or its entry changes.       *)
LEMMA BesideInTime ==
  ASSUME TypeOK, TypeOK', NeverEarly, list' = list, since' = since, NEW t \in Timer, ~ Queued(t),
         \A s \in Timer : s # t => timers'[s] = timers[s], UNCHANGED <<left, shifted>>
  PROVE  NeverEarly'
<1>1. \A i \in 0 + 1 .. Len(list) : timers'[list[i]].ticks = timers[list[i]].ticks
  <2> SUFFICES ASSUME NEW i \in 1 .. Len(list) PROVE timers'[list[i]].ticks = timers[list[i]].ticks
    OBVIOUS
  <2>1. list[i] \in Timer /\ list[i] # t
    BY ElementOfSeq DEF Queued, TypeOK, ListOK
  <2> QED  BY <2>1
<1>2. \A i \in 0 .. Len(list) : Turn(i)' >= Turn(i) + 0
  <2>1. 0 <= Len(list) /\ since' = since - 0 /\ 0 \in {0, 1} /\ 0 \in Int
    BY LenProperties DEF TypeOK, ListOK
  <2> QED  BY <1>1, <2>1, SameListTurns
<1>3. \A i \in 1 .. Len(list) : Turn(i)' >= Turn(i)
  <2> SUFFICES ASSUME NEW i \in 1 .. Len(list) PROVE Turn(i)' >= Turn(i)
    OBVIOUS
  <2>1. i \in 0 .. Len(list)
    BY LenProperties DEF TypeOK, ListOK
  <2>2. Turn(i) \in Int /\ Turn(i)' >= Turn(i) + 0
    BY <1>2, <2>1, TurnsAreNumbers
  <2> QED  BY <2>2
<1> QED  BY <1>3, LaterInTime

LEMMA StartInTime ==
  ASSUME TypeOK, TypeOK', InTime, mode = "open", NEW t \in Timer, NEW delay \in Nat, NEW period \in Nat,
         ~ Queued(t), Start(t, delay, period)
  PROVE  InTime'
<1>0. walk = NULL
  BY DEF TypeOK, ListOK
<1> DEFINE n == ConvertDelayToTicks(IF delay # 0 THEN delay ELSE period)
           tm == [timers EXCEPT ![t] = [used |-> TRUE, ticks |-> n, period |-> period]]
<1>1. n \in Nat
  BY ConvertedTypes
<1> HIDE DEF n
<1>2. tm \in [Timer -> TimerInfo] /\ \A s \in Timer : s # t => tm[s] = timers[s]
  BY <1>1 DEF TypeOK, TimerInfo
<1>3. CASE n = 0
  <2>1. timers' = tm /\ UNCHANGED <<list, since, walk, left, shifted>>
    BY <1>3 DEF Start, historyVars, n
  <2> HIDE DEF tm
  <2>2. NeverEarly'
    BY <1>2, <2>1, BesideInTime DEF InTime
  <2> QED  BY <1>0, <2>1, <2>2 DEF InTime, WalkInTime
<1>4. CASE n # 0
  <2>1. QueueTimer(tm, list, t, n, since)
    BY <1>4 DEF Start, n
  <2> HIDE DEF tm
  <2> DEFINE tn == [tm EXCEPT ![t].ticks = n]
  <2>2. timers' = Elapsed(tn, list, since) /\ list' = list /\ since' = 0 /\ shifted' = shifted \ {t}
        /\ walk' = [timer |-> t, ticks |-> n, at |-> 1] /\ left' = [left EXCEPT ![t] = n]
    BY <2>1 DEF QueueTimer
  <2>3. tn \in [Timer -> TimerInfo] /\ \A s \in Timer : s # t => tn[s] = timers[s]
    BY <1>1, <1>2, WithTicks
  <2> HIDE DEF tn
  <2>4. NeverEarly'
    <3>1. CASE list = << >>
      <4>1. DOMAIN list' = {}
        BY <2>2, <3>1
      <4> QED  BY <4>1 DEF NeverEarly
    <3>2. CASE list # << >>
      <4>1. /\ Head(list) = list[1] /\ list[1] \in Timer /\ since \in Nat /\ timers[list[1]].ticks \in Nat
            /\ list[1] # t /\ tn[list[1]] = timers[list[1]]
        BY <2>3, <3>2, HeadListed DEF TypeOK, TimerInfo, Queued
      <4>2. PICK r \in Nat : /\ r = IF since < timers[list[1]].ticks THEN timers[list[1]].ticks - since ELSE 0
                             /\ r >= timers[list[1]].ticks - since
        BY <4>1
      <4>3. timers' = [tn EXCEPT ![list[1]].ticks = r]
        BY <2>2, <3>2, <4>1, <4>2 DEF Elapsed
      <4>4. timers'[list[1]].ticks = r /\ \A s \in Timer : s # list[1] => timers'[s] = tn[s]
        BY <2>3, <4>1, <4>3, WithTicks
      <4>5. \A i \in 1 .. Len(list) : Turn(i)' >= Turn(i) + 0
        <5>1. \A i \in 1 + 1 .. Len(list) : timers'[list[i]].ticks = timers[list[i]].ticks
          <6> SUFFICES ASSUME NEW i \in 2 .. Len(list) PROVE timers'[list[i]].ticks = timers[list[i]].ticks
            OBVIOUS
          <6>1. i \in 1 .. Len(list) /\ 1 \in 1 .. Len(list) /\ i # 1
            BY LenProperties, SMTT(40) DEF TypeOK, ListOK
          <6>2. list[i] \in Timer /\ list[i] # list[1] /\ list[i] # t
            BY <6>1, ListDistinct, ElementOfSeq, SMTT(40) DEF TypeOK, ListOK, Queued
          <6> QED  BY <2>3, <4>4, <6>2
        <5>2. timers'[list[1]].ticks - since' >= timers[list[1]].ticks - since + 0
          BY <2>2, <4>1, <4>2, <4>4
        <5>3. 1 <= Len(list) /\ 1 \in {0, 1} /\ 0 \in Int
          BY <3>2, EmptySeq, LenProperties DEF TypeOK, ListOK
        <5> QED  BY <2>2, <5>1, <5>2, <5>3, SameListTurns
      <4>6. \A i \in 1 .. Len(list) : Turn(i)' >= Turn(i)
        <5> SUFFICES ASSUME NEW i \in 1 .. Len(list) PROVE Turn(i)' >= Turn(i)
          OBVIOUS
        <5>1. i \in 0 .. Len(list)
          BY LenProperties DEF TypeOK, ListOK
        <5>2. Turn(i) \in Int /\ Turn(i)' >= Turn(i) + 0
          BY <4>5, <5>1, TurnsAreNumbers
        <5> QED  BY <5>2
      <4>7. \A i \in 1 .. Len(list) : left'[list[i]] = left[list[i]]
        <5>1. \A i \in 1 .. Len(list) : list[i] \in Timer /\ list[i] # t
          BY ElementOfSeq DEF TypeOK, ListOK, Queued
        <5> QED  BY <2>2, <5>1 DEF TypeOK
      <4>8. shifted \ {s \in Timer : ~ Queued(s)} \subseteq shifted'
        BY <2>2
      <4> QED  BY <2>2, <4>6, <4>7, <4>8, LaterInTime DEF InTime
    <3> QED  BY <3>1, <3>2
  <2>5. WalkInTime'
    <3>1. Turn(0)' = 0
      <4>1. Sums(Turns(list', timers', since'), list', timers', since')
        BY TurnsHoldNext
      <4> QED  BY <2>2, <4>1 DEF Sums, Turn
    <3>2. left'[t] = n /\ walk'.timer = t /\ walk'.ticks = n /\ walk'.at - 1 = 0
      BY <2>2 DEF TypeOK
    <3>3. Turn(walk.at - 1)' = 0
      BY <3>1, <3>2 DEF Turn
    <3>4. 0 + n >= n
      BY <1>1
    <3> QED  BY <3>2, <3>3, <3>4 DEF WalkInTime
  <2> QED  BY <2>4, <2>5 DEF InTime
<1> QED  BY <1>3, <1>4

(* The list loses its first timers or all keep their place.                *)
LEMMA ExpireInTime == ASSUME TypeOK, TypeOK', InTime, Expire PROVE InTime'
<1> DEFINE t == Head(list)
<1>1. /\ list # << >> /\ walk = NULL /\ since >= timers[t].ticks /\ list' = Tail(list) /\ since' = 0
      /\ \/ QueueTimer(timers, Tail(list), t, NextTurn(timers[t]), 0)
         \/ UNCHANGED <<timers, walk, left, shifted>>
  BY DEF Expire, Handling, historyVars, QueueTimer
<1>2. /\ t \in Timer /\ t = list[1] /\ timers[t] \in TimerInfo /\ timers[t].ticks \in Nat /\ since \in Nat
      /\ Tail(list) \in Seq(Timer) /\ Len(Tail(list)) = Len(list) - 1
      /\ \A i \in DOMAIN Tail(list) : Tail(list)[i] = list[i + 1] /\ i + 1 \in DOMAIN list
  BY <1>1, HeadListed DEF TypeOK, TimerInfo
<1>3. PICK len \in Nat : len = Len(list) /\ len > 0 /\ Len(list') = len - 1 /\ DOMAIN list' = 1 .. len - 1
                         /\ len - 1 \in Nat
  <2>1. Len(list) \in Nat /\ Len(list) # 0
    BY <1>1, EmptySeq, LenProperties DEF TypeOK, ListOK
  <2>2. Len(list') = Len(list) - 1 /\ DOMAIN list' = 1 .. Len(list) - 1
    BY <1>1, <1>2, LenProperties
  <2> QED  BY <2>1, <2>2
<1>4. \A i \in 1 .. len - 1 : list'[i] = list[i + 1] /\ list[i + 1] \in Timer /\ list[i + 1] # t
  <2> SUFFICES ASSUME NEW i \in 1 .. len - 1
               PROVE  list'[i] = list[i + 1] /\ list[i + 1] \in Timer /\ list[i + 1] # t
    OBVIOUS
  <2>1. i + 1 \in 1 .. Len(list) /\ 1 \in 1 .. Len(list) /\ i + 1 # 1
    BY <1>3
  <2>2. list'[i] = list[i + 1]
    BY <1>1, <1>2, <1>3
  <2> QED  BY <1>2, <2>1, <2>2, ListDistinct, ElementOfSeq DEF TypeOK, ListOK
<1>5. \A s \in Timer : s # t => timers'[s].ticks = timers[s].ticks /\ left'[s] = left[s]
  <2>1. CASE QueueTimer(timers, Tail(list), t, NextTurn(timers[t]), 0)
    <3>1. PICK n \in Nat : n = NextTurn(timers[t])
      BY <1>2, NextTurnTypes
    <3> DEFINE tn == [timers EXCEPT ![t].ticks = n]
               l == Tail(list)
    <3>2. timers' = Elapsed(tn, l, 0) /\ left' = [left EXCEPT ![t] = n]
      BY <2>1, <3>1 DEF QueueTimer
    <3>3. tn \in [Timer -> TimerInfo] /\ \A s \in Timer : s # t => tn[s] = timers[s]
      BY <1>2, <3>1, WithTicks, ZenonT(60) DEF TypeOK
    <3> HIDE DEF tn, t
    <3>4. CASE l = << >>
      BY <3>2, <3>3, <3>4 DEF Elapsed, TypeOK
    <3>5. CASE l # << >>
      <4>1. PICK h \in Timer : h = Head(l)
        BY <1>2, <3>5, HeadTailProperties
      <4>2. PICK m \in Nat : m = tn[h].ticks
        BY <3>3, <4>1 DEF TimerInfo
      <4>3. timers' = [tn EXCEPT ![h].ticks = m]
        <5>1. timers' = [tn EXCEPT ![h].ticks = IF 0 < tn[h].ticks THEN tn[h].ticks - 0 ELSE 0]
          BY <3>2, <3>5, <4>1 DEF Elapsed
        <5>2. (IF 0 < tn[h].ticks THEN tn[h].ticks - 0 ELSE 0) = m
          BY <4>2
        <5> QED  BY <5>1, <5>2
      <4>4. ASSUME NEW s \in Timer PROVE timers'[s].ticks = tn[s].ticks
        <5>1. timers'[h].ticks = m /\ (s # h => timers'[s] = tn[s])
          <6>1. PICK old, new : old = tn /\ new = timers'
            OBVIOUS
          <6>2. old \in [Timer -> TimerInfo] /\ new = [old EXCEPT ![h].ticks = m]
            BY <3>3, <4>3, <6>1
          <6>3. new[h].ticks = m /\ (s # h => new[s] = old[s])
            BY <6>2, WithTicks
          <6> QED  BY <6>1, <6>3
        <5> QED  BY <4>2, <5>1
      <4> QED  BY <3>2, <3>3, <4>4 DEF TypeOK
    <3> QED  BY <3>4, <3>5
  <2>2. CASE UNCHANGED <<timers, walk, left, shifted>>
    BY <2>2
  <2> QED  BY <1>1, <2>1, <2>2
<1>6. PICK f, g : f = Turns(list', timers', since') /\ g = Turns(list, timers, since)
  OBVIOUS
<1>7. /\ \A j \in 0 .. len : g[j] \in Int
      /\ \A j \in 0 .. len - 1 : f[j] \in Int
      /\ f[0] = 0 /\ g[0] = - since
      /\ \A j \in 1 .. len : g[j] = g[j - 1] + timers[list[j]].ticks
      /\ \A j \in 1 .. len - 1 : f[j] = f[j - 1] + timers'[list'[j]].ticks
  <2>1. Sums(g, list, timers, since) /\ Sums(f, list', timers', since')
    BY <1>6, TurnsHold, TurnsHoldNext
  <2>2. f[0] = 0
    <3>1. f[0] = - since'
      BY <2>1 DEF Sums
    <3>2. PICK q \in Int : q = since' /\ q = 0
      BY <1>1
    <3>3. PICK x \in Int : x = f[0]
      BY <1>3, <2>1, SMTT(40) DEF Sums
    <3>4. x = - q
      BY <3>1, <3>2, <3>3
    <3>5. x + q = 0
      BY <3>4
    <3>6. x = 0
      BY <3>2, <3>5
    <3> QED  BY <3>3, <3>6
  <2> QED  BY <1>3, <2>1, <2>2 DEF Sums
<1>8. f[0] >= g[0 + 1] + 0
  <2>1. PICK x \in Nat, p \in Nat : x = timers[t].ticks /\ p = since /\ p >= x
    BY <1>1, <1>2
  <2>2. g[1] = g[0] + x /\ g[0] = - p /\ g[1] \in Int
    BY <1>2, <1>3, <1>7, <2>1
  <2> QED  BY <1>7, <2>1, <2>2
<1>9. \A j \in 0 + 1 .. len - 1 : \E x \in Int : f[j] = f[j - 1] + x /\ g[j + 1] = g[j - 1 + 1] + x
  <2> SUFFICES ASSUME NEW j \in 1 .. len - 1
               PROVE  \E x \in Int : f[j] = f[j - 1] + x /\ g[j + 1] = g[j - 1 + 1] + x
    OBVIOUS
  <2>1. list'[j] = list[j + 1] /\ list[j + 1] \in Timer /\ list[j + 1] # t
    BY <1>4
  <2>2. PICK x \in Int : x = timers[list[j + 1]].ticks /\ x = timers'[list'[j]].ticks
    <3>1. timers[list[j + 1]].ticks \in Int
      BY <2>1 DEF TypeOK, TimerInfo
    <3> QED  BY <1>5, <2>1, <3>1
  <2>3. PICK i \in 1 .. len : i = j + 1 /\ i - 1 = j - 1 + 1
    OBVIOUS
  <2>4. g[i] = g[i - 1] + x
    BY <1>7, <2>2, <2>3
  <2>5. f[j] = f[j - 1] + x
    BY <1>7, <2>2
  <2> QED  BY <2>3, <2>4, <2>5
<1>10. \A j \in 0 .. len - 1 : f[j] >= g[j + 1] + 0
  <2>1. \A j \in 0 .. len - 1 : f[j] \in Int /\ g[j + 1] \in Int
    BY <1>7
  <2>2. 0 \in Nat /\ 1 \in Int /\ 0 \in Int
    OBVIOUS
  <2> QED  BY <1>3, <1>8, <1>9, <2>1, <2>2, SumsGo
<1>11. shifted \ {t} \subseteq shifted'
  BY <1>1 DEF QueueTimer
<1>12. NeverEarly'
  <2> SUFFICES ASSUME NEW i \in 1 .. len - 1, left'[list'[i]] > 0, list'[i] \notin shifted'
               PROVE  Turn(i)' >= left'[list'[i]]
    BY <1>3 DEF NeverEarly
  <2>1. i + 1 \in DOMAIN list /\ i \in 0 .. len - 1 /\ i + 1 \in 0 .. len
    <3>1. DOMAIN list = 1 .. len
      BY <1>3, LenProperties DEF TypeOK, ListOK
    <3> QED  BY <3>1
  <2>2. left'[list'[i]] = left[list[i + 1]] /\ list[i + 1] \notin shifted
    BY <1>4, <1>5, <1>11
  <2>3. Turn(i + 1) >= left[list[i + 1]]
    BY <2>1, <2>2 DEF InTime, NeverEarly
  <2>4. PICK a \in Int, b \in Int, c \in Nat : a = f[i] /\ b = g[i + 1] /\ c = left[list[i + 1]]
    BY <1>4, <1>7, <2>1 DEF TypeOK
  <2>5. a >= b + 0 /\ b >= c
    BY <1>6, <1>10, <2>1, <2>3, <2>4 DEF Turn
  <2>6. a >= c
    BY <2>5
  <2> QED  BY <1>6, <2>2, <2>4, <2>6 DEF Turn
<1>13. WalkInTime'
  <2>1. CASE QueueTimer(timers, Tail(list), t, NextTurn(timers[t]), 0)
    <3>1. PICK n \in Nat : n = NextTurn(timers[t])
      BY <1>2, NextTurnTypes
    <3>2. walk' = [timer |-> t, ticks |-> n, at |-> 1] /\ left' = [left EXCEPT ![t] = n]
      BY <2>1, <3>1 DEF QueueTimer
    <3>3. left'[t] = n /\ walk'.timer = t /\ walk'.ticks = n /\ walk'.at - 1 = 0
      BY <1>2, <3>2 DEF TypeOK
    <3>4. Turn(walk.at - 1)' = 0
      BY <1>6, <1>7, <3>3 DEF Turn
    <3>5. 0 + n >= n
      BY <3>1
    <3> QED  BY <3>3, <3>4, <3>5 DEF WalkInTime
  <2>2. CASE UNCHANGED <<timers, walk, left, shifted>>
    BY <1>1, <2>2 DEF WalkInTime
  <2> QED  BY <1>1, <2>1, <2>2
<1> QED  BY <1>12, <1>13 DEF InTime

(* The walk ends: a timer joins the list and takes of the next one's ticks *)
(* what it has.                                                            *)
TurnsPlaced(len, at, w, p, q, f, g, d, e) ==
  /\ len \in Nat /\ at \in 1 .. len + 1 /\ w \in Nat /\ p \in Nat /\ q \in Nat /\ q <= p
  /\ (\A j \in 0 .. len : g[j] \in Int) /\ (\A j \in 0 .. len + 1 : f[j] \in Int)
  /\ (\A j \in 1 .. len : d[j] \in Nat) /\ (\A j \in 1 .. len + 1 : e[j] \in Nat)
  /\ f[0] = - q /\ g[0] = - p
  /\ \A j \in 1 .. len : g[j] = g[j - 1] + d[j]
  /\ \A j \in 1 .. len + 1 : f[j] = f[j - 1] + e[j]
  /\ \A j \in 1 .. at - 1 : e[j] = d[j]
  /\ e[at] = w
  /\ at <= len => e[at + 1] = d[at] - w
  /\ \A j \in at + 2 .. len + 1 : e[j] = d[j - 1]

LEMMA PlacedTurns ==
  ASSUME NEW len, NEW at, NEW w, NEW p, NEW q, NEW f, NEW g, NEW d, NEW e,
         TurnsPlaced(len, at, w, p, q, f, g, d, e)
  PROVE  /\ \A j \in 0 .. at - 1 : f[j] >= g[j]
         /\ f[at] >= g[at - 1] + w
         /\ \A j \in at + 1 .. len + 1 : f[j] >= g[j - 1]
<1> USE DEF TurnsPlaced
<1>1. \A j \in 0 .. at - 1 : f[j] >= g[j + 0] + 0
  <2>1. at - 1 \in Nat /\ 0 \in Nat /\ 0 \in Int /\ \A j \in 0 .. at - 1 : f[j] \in Int /\ g[j + 0] \in Int
    OBVIOUS
  <2>2. f[0] >= g[0 + 0] + 0
    <3>1. f[0] \in Int /\ g[0] \in Int
      OBVIOUS
    <3> QED  BY <3>1
  <2>3. \A j \in 0 + 1 .. at - 1 : \E x \in Int : f[j] = f[j - 1] + x /\ g[j + 0] = g[j - 1 + 0] + x
    <3> SUFFICES ASSUME NEW j \in 1 .. at - 1
                 PROVE  \E x \in Int : f[j] = f[j - 1] + x /\ g[j + 0] = g[j - 1 + 0] + x
      OBVIOUS
    <3>1. j \in 1 .. len /\ j \in 1 .. len + 1 /\ j + 0 = j /\ j - 1 + 0 = j - 1
      OBVIOUS
    <3>2. f[j] = f[j - 1] + d[j] /\ g[j] = g[j - 1] + d[j] /\ d[j] \in Int
      BY <3>1
    <3> QED  BY <3>1, <3>2
  <2> QED  BY <2>1, <2>2, <2>3, SumsGo
<1>2. \A j \in 0 .. at - 1 : f[j] >= g[j]
  BY <1>1
<1>3. f[at] >= g[at - 1] + w
  <2>1. at \in 1 .. len + 1 /\ at - 1 \in 0 .. at - 1 /\ at - 1 \in 0 .. len
    OBVIOUS
  <2>2. f[at] = f[at - 1] + w /\ f[at - 1] >= g[at - 1] /\ f[at - 1] \in Int /\ g[at - 1] \in Int
    BY <1>2, <2>1
  <2> QED  BY <2>2
<1>4. CASE at <= len
  <2>1. f[at + 1] >= g[at + 1 + (-1)] + 0
    <3>1. at + 1 \in 1 .. len + 1 /\ at + 1 - 1 = at /\ at + 1 + (-1) = at /\ at \in 1 .. len /\ at \in 0 .. len + 1
          /\ at - 1 \in 0 .. len
      BY <1>4
    <3>2. f[at + 1] = f[at] + (d[at] - w) /\ g[at] = g[at - 1] + d[at] /\ d[at] \in Nat
          /\ f[at] \in Int /\ g[at - 1] \in Int /\ g[at] \in Int
      BY <1>4, <3>1
    <3>3. f[at + 1] >= g[at] + 0
      BY <1>3, <3>2
    <3> QED  BY <3>1, <3>3
  <2>2. at + 1 \in Nat /\ len + 1 \in Nat /\ -1 \in Int /\ 0 \in Int
        /\ \A j \in at + 1 .. len + 1 : f[j] \in Int /\ g[j + (-1)] \in Int
    OBVIOUS
  <2>3. \A j \in at + 1 + 1 .. len + 1 : \E x \in Int : f[j] = f[j - 1] + x /\ g[j + (-1)] = g[j - 1 + (-1)] + x
    <3> SUFFICES ASSUME NEW j \in at + 2 .. len + 1
                 PROVE  \E x \in Int : f[j] = f[j - 1] + x /\ g[j + (-1)] = g[j - 1 + (-1)] + x
      OBVIOUS
    <3>1. j - 1 \in 1 .. len /\ j \in 1 .. len + 1 /\ j + (-1) = j - 1 /\ j - 1 + (-1) = j - 1 - 1
      OBVIOUS
    <3>2. f[j] = f[j - 1] + d[j - 1] /\ g[j - 1] = g[j - 1 - 1] + d[j - 1] /\ d[j - 1] \in Int
      BY <3>1
    <3> QED  BY <3>1, <3>2
  <2>4. \A j \in at + 1 .. len + 1 : f[j] >= g[j + (-1)] + 0
    BY <2>1, <2>2, <2>3, SumsGo
  <2>5. \A j \in at + 1 .. len + 1 : f[j] >= g[j - 1]
    BY <2>4
  <2> QED  BY <1>2, <1>3, <2>5
<1>5. CASE at = len + 1
  BY <1>2, <1>3, <1>5
<1> QED  BY <1>4, <1>5

LEMMA WalkEndsInTime == ASSUME TypeOK, TypeOK', InTime, WalkEnds PROVE InTime'
<1>1. /\ walk # NULL /\ walk' = NULL /\ ~ Before(walk.ticks, walk.at)
      /\ timers' = Placed(walk) /\ list' = InsertAt(list, walk.at, walk.timer)
      /\ since' \in {0, since}
      /\ UNCHANGED <<left, shifted>>
  BY DEF WalkEnds, SetTimerAlarm, clockVars, historyVars
<1>2. PICK len, at, w, t, old :
        /\ len \in Nat /\ at \in Nat /\ w \in Nat /\ t \in Timer
        /\ len = Len(list) /\ at = walk.at /\ w = walk.ticks /\ t = walk.timer /\ old = list
        /\ at \in 1 .. len + 1
  <2>1. walk.at \in Nat
    BY <1>1, WalkFacts
  <2> QED  BY <1>1, <2>1, WalkFacts
<1>3. old \in Seq(Timer) /\ ~ Queued(t) /\ DOMAIN old = 1 .. len
  BY <1>1, <1>2, LenProperties DEF TypeOK, ListOK
<1>4. /\ Len(list') = len + 1 /\ DOMAIN list' = 1 .. len + 1
      /\ \A j \in 1 .. len + 1 : list'[j] = IF j < at THEN old[j] ELSE IF j = at THEN t ELSE old[j - 1]
  <2>1. list' = InsertAt(old, at, t) /\ at \in 1 .. Len(old) + 1
    BY <1>1, <1>2
  <2>2. /\ InsertAt(old, at, t) \in Seq(Timer) /\ Len(InsertAt(old, at, t)) = Len(old) + 1
        /\ \A j \in 1 .. Len(old) + 1 :
             InsertAt(old, at, t)[j] = IF j < at THEN old[j] ELSE IF j = at THEN t ELSE old[j - 1]
    <3>1. old \in Seq(Timer) /\ t \in Timer /\ at \in 1 .. Len(old) + 1
      BY <1>2, <1>3, <2>1
    <3> QED  BY <3>1, Inserted
  <2>3. DOMAIN list' = 1 .. Len(list')
    BY LenProperties DEF TypeOK, ListOK
  <2> QED  BY <1>2, <2>1, <2>2, <2>3
<1>5. \A j \in 1 .. len : old[j] \in Timer /\ old[j] # t
  BY <1>2, <1>3, ElementOfSeq DEF Queued
<1>6. /\ \A j \in 1 .. len : timers[old[j]].ticks \in Nat
      /\ \A s \in Timer : timers'[s].ticks \in Nat
  BY <1>5 DEF TypeOK, TimerInfo
<1>7. /\ timers'[t].ticks = w
      /\ at <= len => timers'[old[at]].ticks = timers[old[at]].ticks - w
      /\ \A s \in Timer : s # t /\ ~ (at <= len /\ s = old[at]) => timers'[s].ticks = timers[s].ticks
  <2>1. PICK tm : tm = [timers EXCEPT ![t].ticks = w]
    OBVIOUS
  <2>2. tm \in [Timer -> TimerInfo] /\ tm[t].ticks = w /\ \A s \in Timer : s # t => tm[s] = timers[s]
    <3>1. timers \in [Timer -> TimerInfo] /\ t \in Timer /\ w \in Nat
      BY <1>2 DEF TypeOK
    <3> QED  BY <2>1, <3>1, WithTicks
  <2>3. CASE at <= len
    <3>1. old[at] \in Timer /\ old[at] # t /\ at \in 1 .. len
      BY <1>2, <1>5, <2>3
    <3>2. PICK r \in Nat : r = timers[old[at]].ticks - w
      <4>1. ~ timers[old[at]].ticks < w /\ timers[old[at]].ticks \in Nat
        BY <1>1, <1>2, <1>6, <2>3, <3>1 DEF Before
      <4>2. PICK x \in Nat : x = timers[old[at]].ticks
        BY <4>1
      <4>3. x - w \in Nat
        BY <1>2, <4>1, <4>2
      <4> QED  BY <4>2, <4>3
    <3>3. timers' = [tm EXCEPT ![old[at]].ticks = r]
      <4>1. timers' = [tm EXCEPT ![old[at]].ticks = @ - w]
        BY <1>1, <1>2, <2>1, <2>3 DEF Placed
      <4>2. tm[old[at]].ticks - w = r
        BY <2>2, <3>1, <3>2
      <4> QED  BY <4>1, <4>2
    <3>4. PICK new, n : new = timers' /\ n = old[at] /\ n \in Timer
      BY <3>1
    <3>5. new = [tm EXCEPT ![n].ticks = r]
      BY <3>3, <3>4
    <3>6. new[n].ticks = r /\ \A s \in Timer : s # n => new[s] = tm[s]
      <4>1. tm \in [Timer -> TimerInfo] /\ n \in Timer /\ r \in Nat
        BY <2>2, <3>4
      <4> QED  BY <3>5, <4>1, WithTicks
    <3>7. \A s \in Timer : s # t /\ s # n => new[s] = timers[s]
      BY <2>2, <3>6
    <3>8. new[t].ticks = w
      BY <1>2, <2>2, <3>1, <3>4, <3>6
    <3> QED  BY <2>3, <3>2, <3>4, <3>6, <3>7, <3>8
  <2>4. CASE ~ at <= len
    <3>1. timers' = tm
      BY <1>1, <1>2, <2>1, <2>4 DEF Placed
    <3> QED  BY <2>2, <2>4, <3>1
  <2> QED  BY <2>3, <2>4
<1>8. PICK f, g, d, e, p, q :
        /\ p \in Nat /\ q \in Nat
        /\ f = Turns(list', timers', since') /\ g = Turns(list, timers, since) /\ p = since /\ q = since'
        /\ d = [j \in 1 .. len |-> timers[old[j]].ticks]
        /\ e = [j \in 1 .. len + 1 |-> timers'[list'[j]].ticks]
  <2>1. since \in Nat /\ since' \in Nat
    BY DEF TypeOK
  <2> QED  BY <2>1
<1>9. /\ \A j \in 0 .. len : g[j] \in Int
      /\ \A j \in 0 .. len + 1 : f[j] \in Int
      /\ f[0] = - q /\ g[0] = - p
      /\ \A j \in 1 .. len : g[j] = g[j - 1] + d[j]
      /\ \A j \in 1 .. len + 1 : f[j] = f[j - 1] + e[j]
  <2>1. Sums(g, list, timers, since) /\ Sums(f, list', timers', since')
    BY <1>8, TurnsHold, TurnsHoldNext
  <2> QED  BY <1>2, <1>4, <1>8, <2>1 DEF Sums
<1>10. q <= p
  <2>1. since' <= since
    BY <1>1 DEF TypeOK
  <2> QED  BY <1>8, <2>1
<1>11. (\A j \in 1 .. len : d[j] \in Nat) /\ (\A j \in 1 .. len + 1 : e[j] \in Nat)
  <2>1. \A j \in 1 .. len + 1 : list'[j] \in Timer
    BY <1>4, ElementOfSeq DEF TypeOK, ListOK
  <2> QED  BY <1>6, <1>8, <2>1
<1>12. \A a, b \in 1 .. len : old[a] = old[b] => a = b
  BY <1>2, ListDistinct
<1>13. \A j \in 1 .. at - 1 : e[j] = d[j]
  <2> SUFFICES ASSUME NEW j \in 1 .. at - 1 PROVE e[j] = d[j]
    OBVIOUS
  <2>1. j \in 1 .. len /\ j \in 1 .. len + 1 /\ j < at /\ j # at
    BY <1>2
  <2>2. old[j] \in Timer /\ old[j] # t /\ ~ (at <= len /\ old[j] = old[at])
    <3>1. at <= len => at \in 1 .. len
      BY <1>2
    <3> QED  BY <1>5, <1>12, <2>1, <3>1
  <2> QED  BY <1>4, <1>7, <1>8, <2>1, <2>2
<1>14. e[at] = w
  BY <1>2, <1>4, <1>7, <1>8
<1>15. at <= len => e[at + 1] = d[at] - w
  <2> SUFFICES ASSUME at <= len PROVE e[at + 1] = d[at] - w
    OBVIOUS
  <2>1. at \in 1 .. len /\ at + 1 \in 1 .. len + 1 /\ at + 1 - 1 = at /\ ~ at + 1 < at /\ at + 1 # at
    BY <1>2
  <2>2. list'[at + 1] = old[at]
    BY <1>4, <2>1
  <2> QED  BY <1>7, <1>8, <2>1, <2>2
<1>16. \A j \in at + 2 .. len + 1 : e[j] = d[j - 1]
  <2> SUFFICES ASSUME NEW j \in at + 2 .. len + 1 PROVE e[j] = d[j - 1]
    OBVIOUS
  <2>1. j - 1 \in 1 .. len /\ j \in 1 .. len + 1 /\ ~ j < at /\ j # at /\ j - 1 # at
    BY <1>2
  <2>2. old[j - 1] \in Timer /\ old[j - 1] # t /\ ~ (at <= len /\ old[j - 1] = old[at])
    <3>1. at <= len => at \in 1 .. len
      BY <1>2
    <3> QED  BY <1>5, <1>12, <2>1, <3>1
  <2>3. list'[j] = old[j - 1]
    BY <1>4, <2>1
  <2> QED  BY <1>7, <1>8, <2>1, <2>2, <2>3
<1>17. /\ \A j \in 0 .. at - 1 : f[j] >= g[j]
       /\ f[at] >= g[at - 1] + w
       /\ \A j \in at + 1 .. len + 1 : f[j] >= g[j - 1]
  <2>1. TurnsPlaced(len, at, w, p, q, f, g, d, e)
    BY <1>2, <1>8, <1>9, <1>10, <1>11, <1>13, <1>14, <1>15, <1>16, Zenon DEF TurnsPlaced
  <2> QED  BY <2>1, PlacedTurns
<1>18. ASSUME NEW j \in 1 .. len, left[old[j]] > 0, old[j] \notin shifted
       PROVE  g[j] >= left[old[j]] /\ g[j] \in Int /\ left[old[j]] \in Nat
  <2>1. Turn(j) >= left[old[j]]
    BY <1>2, <1>3, <1>18 DEF InTime, NeverEarly
  <2> QED  BY <1>5, <1>8, <1>9, <2>1 DEF Turn, TypeOK
<1>19. NeverEarly'
  <2> SUFFICES ASSUME NEW i \in 1 .. len + 1, left[list'[i]] > 0, list'[i] \notin shifted
               PROVE  f[i] >= left[list'[i]]
    BY <1>1, <1>4, <1>8 DEF NeverEarly, Turn
  <2>0. f[i] \in Int
    BY <1>9
  <2>1. CASE i < at
    <3>1. i \in 1 .. len /\ i \in 0 .. at - 1 /\ list'[i] = old[i]
      BY <1>2, <1>4, <2>1
    <3>2. f[i] >= g[i] /\ g[i] >= left[old[i]] /\ g[i] \in Int /\ left[old[i]] \in Nat
      BY <1>17, <1>18, <3>1
    <3> QED  BY <2>0, <3>1, <3>2
  <2>2. CASE i = at
    <3>1. list'[i] = t /\ left[t] \in Nat
      <4>1. list'[i] = t
        BY <1>4, <2>2
      <4>2. left[t] \in Nat
        BY <1>2 DEF TypeOK
      <4> QED  BY <4>1, <4>2
    <3>2. g[at - 1] + w >= left[t]
      BY <1>1, <1>2, <1>8, <3>1 DEF InTime, WalkInTime, Turn
    <3>3. g[at - 1] \in Int
      BY <1>2, <1>9
    <3>4. f[i] >= g[at - 1] + w /\ w \in Nat
      BY <1>2, <1>17, <2>2
    <3>5. PICK x \in Int, y \in Int, z \in Nat : x = f[i] /\ y = g[at - 1] + w /\ z = left[t]
      BY <2>0, <3>1, <3>3, <3>4
    <3>6. x >= y /\ y >= z
      BY <3>2, <3>4, <3>5
    <3> QED  BY <3>1, <3>5, <3>6
  <2>3. CASE i > at
    <3>1. i - 1 \in 1 .. len /\ i \in at + 1 .. len + 1 /\ list'[i] = old[i - 1]
      BY <1>2, <1>4, <2>3
    <3>2. f[i] >= g[i - 1] /\ g[i - 1] >= left[old[i - 1]] /\ g[i - 1] \in Int /\ left[old[i - 1]] \in Nat
      BY <1>17, <1>18, <3>1
    <3> QED  BY <2>0, <3>1, <3>2
  <2> QED  BY <1>2, <2>1, <2>2, <2>3
<1> QED  BY <1>1, <1>19 DEF InTime, WalkInTime

(* A stop: those before the timer keep their turns, and those behind it    *)
(* come early by what it had.                                              *)
TurnsWithout(len, i, p, f, g, d, e) ==
  /\ len \in Nat /\ i \in 1 .. len /\ p \in Nat
  /\ (\A j \in 0 .. len : g[j] \in Int) /\ (\A j \in 0 .. len - 1 : f[j] \in Int)
  /\ \A j \in 1 .. len : d[j] \in Nat
  /\ f[0] = - p /\ g[0] = - p
  /\ \A j \in 1 .. len : g[j] = g[j - 1] + d[j]
  /\ \A j \in 1 .. len - 1 : f[j] = f[j - 1] + e[j]
  /\ \A j \in 1 .. i - 1 : e[j] = d[j]
  /\ \A j \in i .. len - 1 : e[j] = d[j + 1]

LEMMA RemovedTurns ==
  ASSUME NEW len, NEW i, NEW p, NEW f, NEW g, NEW d, NEW e, TurnsWithout(len, i, p, f, g, d, e)
  PROVE  /\ \A j \in 0 .. i - 1 : f[j] >= g[j]
         /\ d[i] = 0 => \A j \in i .. len - 1 : f[j] >= g[j + 1]
<1> USE DEF TurnsWithout
<1>1. \A j \in 0 .. i - 1 : f[j] >= g[j + 0] + 0
  <2>1. i - 1 \in Nat /\ 0 \in Nat /\ 0 \in Int /\ \A j \in 0 .. i - 1 : f[j] \in Int /\ g[j + 0] \in Int
    OBVIOUS
  <2>2. f[0] >= g[0 + 0] + 0
    <3>1. f[0] \in Int /\ g[0] \in Int /\ f[0] = g[0]
      OBVIOUS
    <3> QED  BY <3>1
  <2>3. \A j \in 0 + 1 .. i - 1 : \E x \in Int : f[j] = f[j - 1] + x /\ g[j + 0] = g[j - 1 + 0] + x
    <3> SUFFICES ASSUME NEW j \in 1 .. i - 1
                 PROVE  \E x \in Int : f[j] = f[j - 1] + x /\ g[j + 0] = g[j - 1 + 0] + x
      OBVIOUS
    <3>1. j \in 1 .. len /\ j \in 1 .. len - 1 /\ j + 0 = j /\ j - 1 + 0 = j - 1
      OBVIOUS
    <3>2. f[j] = f[j - 1] + d[j] /\ g[j] = g[j - 1] + d[j] /\ d[j] \in Int
      BY <3>1
    <3> QED  BY <3>1, <3>2
  <2> QED  BY <2>1, <2>2, <2>3, SumsGo
<1>2. \A j \in 0 .. i - 1 : f[j] >= g[j]
  BY <1>1
<1>3. ASSUME d[i] = 0 PROVE \A j \in i .. len - 1 : f[j] >= g[j + 1]
  <2>1. PICK m \in Nat : m = i - 1 /\ m \in 0 .. i - 1 /\ m \in 0 .. len - 1 /\ m + 1 = i /\ m \in 0 .. len
                         /\ m + 1 \in 1 .. len /\ m + 1 - 1 = m
    <3>1. i - 1 \in Nat
      OBVIOUS
    <3> QED  BY <3>1
  <2>2. f[m] >= g[m + 1] + 0
    <3>1. g[i] = g[m] + 0 /\ f[m] >= g[m] /\ f[m] \in Int /\ g[m] \in Int
      BY <1>2, <1>3, <2>1
    <3> QED  BY <2>1, <3>1
  <2>3. \A j \in m + 1 .. len - 1 : \E x \in Int : f[j] = f[j - 1] + x /\ g[j + 1] = g[j - 1 + 1] + x
    <3> SUFFICES ASSUME NEW j \in i .. len - 1
                 PROVE  \E x \in Int : f[j] = f[j - 1] + x /\ g[j + 1] = g[j - 1 + 1] + x
      BY <2>1
    <3>1. j \in 1 .. len - 1 /\ j + 1 \in 1 .. len /\ j + 1 - 1 = j /\ j - 1 + 1 = j
      OBVIOUS
    <3>2. f[j] = f[j - 1] + d[j + 1] /\ g[j + 1] = g[j] + d[j + 1] /\ d[j + 1] \in Int
      BY <3>1
    <3> QED  BY <3>1, <3>2
  <2>4. \A j \in m .. len - 1 : f[j] \in Int /\ g[j + 1] \in Int
    BY <2>1
  <2>5. len - 1 \in Nat /\ 1 \in Int /\ 0 \in Int
    OBVIOUS
  <2>6. \A j \in m .. len - 1 : f[j] >= g[j + 1] + 0
    BY <2>1, <2>2, <2>3, <2>4, <2>5, SumsGo
  <2> SUFFICES ASSUME NEW j \in i .. len - 1 PROVE f[j] >= g[j + 1]
    OBVIOUS
  <2>7. j \in m .. len - 1
    BY <2>1
  <2>8. f[j] \in Int /\ g[j + 1] \in Int /\ f[j] >= g[j + 1] + 0
    BY <2>4, <2>6, <2>7
  <2> QED  BY <2>8
<1> QED  BY <1>2, <1>3

LEMMA StopBeforeInTime ==
  ASSUME TypeOK, TypeOK', InTime, NEW t \in Timer, NEW destroy \in BOOLEAN, StopBefore(t, destroy)
  PROVE  InTime'
<1>a. PICK old, len :
        /\ len \in Nat /\ old \in Seq(Timer) /\ len = Len(list) /\ old = list /\ DOMAIN old = 1 .. len
  <2>1. list \in Seq(Timer) /\ Len(list) \in Nat /\ DOMAIN list = 1 .. Len(list)
    BY LenProperties DEF TypeOK, ListOK
  <2> QED  BY <2>1
<1>b. PICK i \in 1 .. len - 1 :
        /\ old[i] = t /\ list' = RemoveAt(old, i)
        /\ Moved(IF timers[t].ticks = 0 /\ t \notin shifted THEN {} ELSE {old[j] : j \in i + 1 .. len})
  BY <1>a DEF StopBefore
<1>1. /\ len \in Nat /\ i \in 1 .. len - 1 /\ old \in Seq(Timer) /\ len = Len(list) /\ old = list
      /\ DOMAIN old = 1 .. len /\ old[i] = t /\ list' = RemoveAt(old, i)
      /\ Moved(IF timers[t].ticks = 0 /\ t \notin shifted THEN {} ELSE {old[j] : j \in i + 1 .. len})
  BY <1>a, <1>b
<1>2. /\ timers' = Cleared(t, destroy) /\ since' = since /\ mode = "open" /\ walk = NULL /\ walk' = walk
  BY DEF StopBefore, Call, clockVars, TypeOK, ListOK
<1>3. /\ Len(list') = len - 1 /\ DOMAIN list' = 1 .. len - 1
      /\ \A j \in 1 .. len - 1 : list'[j] = IF j < i THEN old[j] ELSE old[j + 1]
  <2>1. old \in Seq(Timer) /\ i \in 1 .. Len(old)
    BY <1>1
  <2>2. /\ Len(RemoveAt(old, i)) = Len(old) - 1
        /\ \A j \in 1 .. Len(old) - 1 : RemoveAt(old, i)[j] = IF j < i THEN old[j] ELSE old[j + 1]
    BY <2>1, Removed
  <2>3. DOMAIN list' = 1 .. Len(list')
    BY LenProperties DEF TypeOK, ListOK
  <2> QED  BY <1>1, <2>2, <2>3
<1>4. \A j \in 1 .. len : old[j] \in Timer
  BY <1>1, ElementOfSeq
<1>5. \A j \in 1 .. len : j # i => old[j] # t
  BY <1>1, ListDistinct
<1>6. \A j \in 1 .. len : /\ timers[old[j]].ticks \in Nat
                          /\ j # i => timers'[old[j]].ticks = timers[old[j]].ticks
  BY <1>2, <1>4, <1>5, ClearedTypes DEF TypeOK, TimerInfo
<1>7. PICK f, g, d, e, p :
        /\ p \in Nat
        /\ f = Turns(list', timers', since') /\ g = Turns(list, timers, since) /\ p = since
        /\ d = [j \in 1 .. len |-> timers[old[j]].ticks]
        /\ e = [j \in 1 .. len - 1 |-> timers'[list'[j]].ticks]
  <2>1. since \in Nat
    BY DEF TypeOK
  <2> QED  BY <2>1
<1>8. /\ \A j \in 0 .. len : g[j] \in Int
      /\ \A j \in 0 .. len - 1 : f[j] \in Int
      /\ f[0] = - p /\ g[0] = - p
      /\ \A j \in 1 .. len : g[j] = g[j - 1] + d[j]
      /\ \A j \in 1 .. len - 1 : f[j] = f[j - 1] + e[j]
  <2>1. Sums(g, list, timers, since) /\ Sums(f, list', timers', since')
    BY <1>7, TurnsHold, TurnsHoldNext
  <2> QED  BY <1>1, <1>2, <1>3, <1>7, <2>1 DEF Sums
<1>9. \A j \in 1 .. i - 1 : e[j] = d[j]
  <2> SUFFICES ASSUME NEW j \in 1 .. i - 1 PROVE e[j] = d[j]
    OBVIOUS
  <2>1. j \in 1 .. len /\ j \in 1 .. len - 1 /\ j < i /\ j # i
    BY <1>1
  <2> QED  BY <1>3, <1>6, <1>7, <2>1
<1>10. \A j \in i .. len - 1 : e[j] = d[j + 1]
  <2> SUFFICES ASSUME NEW j \in i .. len - 1 PROVE e[j] = d[j + 1]
    OBVIOUS
  <2>1. j + 1 \in 1 .. len /\ j \in 1 .. len - 1 /\ ~ j < i /\ j + 1 # i
    BY <1>1
  <2> QED  BY <1>3, <1>6, <1>7, <2>1
<1>11. TurnsWithout(len, i, p, f, g, d, e)
  <2>1. i \in 1 .. len /\ \A j \in 1 .. len : d[j] \in Nat
    BY <1>1, <1>6, <1>7
  <2> QED  BY <1>1, <1>7, <1>8, <1>9, <1>10, <2>1, Zenon DEF TurnsWithout
<1>12. /\ \A j \in 0 .. i - 1 : f[j] >= g[j]
       /\ d[i] = 0 => \A j \in i .. len - 1 : f[j] >= g[j + 1]
  BY <1>11, RemovedTurns
<1>13. ASSUME NEW j \in 1 .. len, left[old[j]] > 0, old[j] \notin shifted
       PROVE  g[j] >= left[old[j]] /\ g[j] \in Int /\ left[old[j]] \in Nat
  <2>1. Turn(j) >= left[old[j]]
    BY <1>1, <1>13 DEF InTime, NeverEarly
  <2> QED  BY <1>4, <1>7, <1>8, <2>1 DEF Turn, TypeOK
<1>14. /\ shifted \subseteq shifted'
       /\ \A s \in Timer : left'[s] > 0 => left'[s] = left[s]
  BY <1>1 DEF Moved
<1>15. NeverEarly'
  <2> SUFFICES ASSUME NEW a \in 1 .. len - 1, left'[list'[a]] > 0, list'[a] \notin shifted'
               PROVE  f[a] >= left'[list'[a]]
    BY <1>3, <1>7 DEF NeverEarly, Turn
  <2>0. f[a] \in Int
    BY <1>1, <1>8
  <2>1. CASE a < i
    <3>1. a \in 1 .. len /\ a \in 0 .. i - 1 /\ list'[a] = old[a] /\ old[a] \in Timer
      BY <1>1, <1>3, <1>4, <2>1
    <3>2. left'[old[a]] = left[old[a]] /\ old[a] \notin shifted /\ left[old[a]] > 0
      BY <1>14, <3>1
    <3>3. f[a] >= g[a] /\ g[a] >= left[old[a]] /\ g[a] \in Int /\ left[old[a]] \in Nat
      BY <1>12, <1>13, <3>1, <3>2
    <3> QED  BY <2>0, <3>1, <3>2, <3>3
  <2>2. CASE ~ a < i
    <3>1. a \in i .. len - 1 /\ a + 1 \in 1 .. len /\ a + 1 \in i + 1 .. len
          /\ list'[a] = old[a + 1] /\ old[a + 1] \in Timer
      BY <1>1, <1>3, <1>4, <2>2
    <3>2. left'[old[a + 1]] = left[old[a + 1]] /\ old[a + 1] \notin shifted /\ left[old[a + 1]] > 0
      BY <1>14, <3>1
    <3>3. timers[t].ticks = 0
      BY <1>1, <3>1 DEF Moved
    <3>4. d[i] = 0
      BY <1>1, <1>7, <3>3
    <3>5. f[a] >= g[a + 1] /\ g[a + 1] >= left[old[a + 1]] /\ g[a + 1] \in Int /\ left[old[a + 1]] \in Nat
      BY <1>12, <1>13, <3>1, <3>2, <3>4
    <3> QED  BY <2>0, <3>1, <3>2, <3>5
  <2> QED  BY <2>1, <2>2
<1> QED  BY <1>2, <1>15 DEF InTime, WalkInTime

LEMMA StopIdleInTime ==
  ASSUME TypeOK, TypeOK', InTime, NEW t \in Timer, NEW destroy \in BOOLEAN, StopIdle(t, destroy)
  PROVE  InTime'
<1>1. /\ ~ Queued(t) /\ list' = list /\ since' = since /\ timers' = Cleared(t, destroy)
      /\ UNCHANGED <<left, shifted>> /\ walk' = NULL
  BY DEF StopIdle, Call, clockVars, historyVars, TypeOK, ListOK
<1>2. \A s \in Timer : s # t => timers'[s] = timers[s]
  BY <1>1, ClearedTypes
<1>3. NeverEarly'
  BY <1>1, <1>2, BesideInTime DEF InTime
<1> QED  BY <1>1, <1>3 DEF InTime, WalkInTime

LEMMA StopLastInTime ==
  ASSUME TypeOK, TypeOK', NEW t, NEW destroy, StopLast(t, destroy)
  PROVE  InTime'
<1>1. /\ list' = Front(list) /\ Moved(ToSet(list')) /\ walk' = NULL
  BY DEF StopLast, Call, TypeOK, ListOK
<1>2. \A i \in DOMAIN list' : list'[i] \in shifted'
  BY <1>1 DEF Moved, ToSet
<1> QED  BY <1>1, <1>2 DEF InTime, NeverEarly, WalkInTime

LEMMA StopOnlyInTime ==
  ASSUME TypeOK, TypeOK', InTime, NEW t, NEW destroy, StopOnly(t, destroy)
  PROVE  InTime'
<1>1. since' = 0 /\ UNCHANGED <<left, shifted>> /\ walk' = NULL
  BY DEF StopOnly, Call, historyVars, TypeOK, ListOK
<1>2. CASE list' = << >>
  BY <1>1, <1>2 DEF InTime, NeverEarly, WalkInTime
<1>3. CASE UNCHANGED <<timers, list>>
  <2>1. PICK p \in Nat : p = since
    BY DEF TypeOK
  <2>2. \A i \in 0 .. Len(list) : Turn(i)' >= Turn(i) + p
    <3>1. 0 <= Len(list) /\ 0 \in {0, 1} /\ p \in Int
      BY <2>1, LenProperties DEF TypeOK, ListOK
    <3>2. since' = since - p
      BY <1>1, <2>1
    <3>3. list' = list /\ \A i \in 0 + 1 .. Len(list) : timers'[list[i]].ticks = timers[list[i]].ticks
      BY <1>3
    <3> QED  BY <3>1, <3>2, <3>3, SameListTurns
  <2>3. \A i \in 1 .. Len(list) : Turn(i)' >= Turn(i)
    <3> SUFFICES ASSUME NEW i \in 1 .. Len(list) PROVE Turn(i)' >= Turn(i)
      OBVIOUS
    <3>1. i \in 0 .. Len(list)
      BY LenProperties DEF TypeOK, ListOK
    <3>2. Turn(i)' \in Int
      <4>1. Sums(Turns(list', timers', since'), list', timers', since')
        BY TurnsHoldNext
      <4> QED  BY <1>3, <3>1, <4>1 DEF Sums, Turn
    <3>3. PICK a \in Int, b \in Int : a = Turn(i)' /\ b = Turn(i)
      BY <3>1, <3>2, TurnsAreNumbers
    <3>4. a >= b + p
      BY <2>2, <3>1, <3>3
    <3>5. a >= b
      BY <2>1, <3>3, <3>4
    <3> QED  BY <3>3, <3>5
  <2>4. NeverEarly'
    BY <1>1, <1>3, <2>3, LaterInTime DEF InTime
  <2> QED  BY <1>1, <2>4 DEF InTime, WalkInTime
<1> QED  BY <1>2, <1>3 DEF StopOnly, tableVars

(* Every step keeps every turn in time.                                    *)
LEMMA InTimeStep == TypeOK /\ TypeOK' /\ InTime /\ [Next]_vars => InTime'
<1> SUFFICES ASSUME TypeOK, TypeOK', InTime, [Next]_vars PROVE InTime'
  OBVIOUS
<1>1. CASE Tick
  BY <1>1, TickInTime
<1>2. CASE IrqHandler
  BY <1>2, QuietInTime DEF IrqHandler, tableVars, historyVars
<1>3. CASE WalkOn
  BY <1>3, WalkOnInTime
<1>4. CASE WalkEnds
  BY <1>4, WalkEndsInTime
<1>5. ASSUME NEW s \in Setting, CreateTimer(s[1], s[2], s[3]) \/ RestartTimer(s[1], s[2], s[3])
      PROVE  InTime'
  <2>1. s[1] \in Timer /\ s[2] \in Nat /\ s[3] \in Nat
    BY SettingAssumption
  <2>2. mode = "open" /\ ~ Queued(s[1]) /\ Start(s[1], s[2], s[3])
    <3>1. CASE CreateTimer(s[1], s[2], s[3])
      BY <2>1, <3>1 DEF CreateTimer, Call, Queued, TypeOK, ListOK
    <3>2. CASE RestartTimer(s[1], s[2], s[3])
      BY <3>2 DEF RestartTimer, Call
    <3> QED  BY <1>5, <3>1, <3>2
  <2> QED  BY <2>1, <2>2, StartInTime
<1>6. ASSUME NEW e \in Ending, StopOrDestroyTimer(e[1], e[2]) PROVE InTime'
  <2>1. e[1] \in Timer /\ e[2] \in BOOLEAN
    BY SettingAssumption
  <2> QED  BY <1>6, <2>1, StopIdleInTime, StopBeforeInTime, StopLastInTime, StopOnlyInTime DEF StopOrDestroyTimer
<1>7. CASE ReceiveEvent
  BY <1>7, QuietInTime DEF ReceiveEvent, tableVars, clockVars, historyVars
<1>8. CASE NothingQueued
  BY <1>8, QuietInTime DEF NothingQueued, tableVars, clockVars, historyVars
<1>9. CASE NotYet
  BY <1>9, NotYetInTime
<1>10. CASE Expire
  BY <1>10, ExpireInTime
<1>11. CASE UNCHANGED vars
  BY <1>11, QuietInTime DEF vars
<1> QED  BY <1>1, <1>2, <1>3, <1>4, <1>5, <1>6, <1>7, <1>8, <1>9, <1>10, <1>11 DEF Next, Calls, TimerHandler

LEMMA InitInTime == Init => InTime
BY DEF Init, InTime, NeverEarly, WalkInTime

(* A timer does not fire before the time it was asked for, unless a timer  *)
(* before it on the list was stopped.                                      *)
THEOREM FiresInTime == Spec => []NeverEarly
<1>1. TypeOK /\ InTime /\ [Next]_vars => TypeOK' /\ InTime'
  BY TypesStep, InTimeStep
<1>2. Init => TypeOK /\ InTime
  BY InitTypes, InitInTime
<1>3. InTime => NeverEarly
  BY DEF InTime
<1> QED  BY <1>1, <1>2, <1>3, PTL DEF Spec
=============================================================================
