--------------------------------- MODULE Timers ---------------------------------
(***************************************************************************)
(* Timers, kernel/source/scheduler/timer.c: the queued timers form a list  *)
(* in which each holds the ticks it comes after the one before it, and one *)
(* hardware alarm is set for the first.  CurrentTimer is the empty timer   *)
(* at the ends of the list and is not kept.  A call and a round of the     *)
(* handler run with interrupts disabled, but the hardware counts on: the   *)
(* walk that places a timer takes a step for each timer it passes.         *)
(* HW_TIMER wraps, so only its distance to PreviousTimerValue and to       *)
(* HW_ALARM is kept.                                                       *)
(***************************************************************************)
EXTENDS Integers, SequencesExt

CONSTANTS
  Timer,   \* the slots of timers[]
  Setting, \* what they are started with: <<timer, delay, period>>, in
           \* microseconds, where 0 is none
  Ending,  \* how they are stopped: <<timer, whether it is destroyed>>
  Word,    \* 2^32, the range of an interval
  Clock,   \* GetCoreClock, in units of 1.9 MHz / 128
  MaxLag,  \* bound: the handler is at most that many ticks behind
  NULL

ASSUME SettingAssumption == Setting \subseteq Timer \X Nat \X Nat 
                            /\ Ending \subseteq Timer \X BOOLEAN
Walk == [timer : Timer, ticks : Nat, at : Nat \ {0}]
ASSUME NullAssumption == NULL \notin Walk
ASSUME WordAssumption == Word \in Nat \ {0} /\ MaxLag \in Nat

VARIABLES
  timers,  \* Queue is set, IntervalInTicks and IntervalInMicros of each
  list,    \* the queued timers, by their links
  since,   \* HW_TIMER - PreviousTimerValue
  alarm,   \* HW_ALARM - HW_TIMER; 0 is an alarm that does not come
  irq,     \* IRQF_TIMER is raised
  event,   \* the message in the handler's queue of one
  mode,    \* interrupts enabled ("open"), a "call", the handler ("handle")
  walk,    \* QueueTimer's timerInfo, intervalInTicks and place, or NULL
  left,    \* history: ticks until a timer is due by what was asked for
  shifted  \* history: the queued timers that a stop moved

vars == <<timers, list, since, alarm, irq, event, mode, walk, left, shifted>>
tableVars == <<timers, list>>
clockVars == <<since, alarm>>
historyVars == <<left, shifted>>

TimerInfo == [used : BOOLEAN, ticks : Nat, period : Nat]
Free == [used |-> FALSE, ticks |-> 0, period |-> 0]
Queued(t) == \E i \in DOMAIN list : list[i] = t
Started(t) == Queued(t) \/ (walk # NULL /\ walk.timer = t)

Init ==
  /\ timers = [t \in Timer |-> Free]
  /\ list = << >>
  /\ since = 0 /\ alarm = 0
  /\ irq = FALSE /\ event = FALSE
  /\ mode = "open" /\ walk = NULL
  /\ left = [t \in Timer |-> 0] /\ shifted = {}

-----------------------------------------------------------------------------
(* Microseconds to ticks.  Every term is rounded down, and short delays    *)
(* have no ticks.                                                          *)
ConvertDelayToTicks(d) ==
  (CASE Clock = 81  -> (d \div 2) + (d \div 8) + (d \div 128)
     [] Clock = 54  -> (d \div 4) + (d \div 8) + (d \div 32) + (d \div 64)
     [] Clock = 108 -> (d \div 2) + (d \div 4) + (d \div 16) + (d \div 32)
     [] Clock = 162 -> (d \div 4) + (d \div 64) + d
     [] OTHER -> d + (d \div 2) + (d \div 4) + (d \div 8) + (d \div 64) + (d \div 128)) % Word

HeadTicks == IF list = << >> THEN 0 ELSE timers[Head(list)].ticks

(* The hardware.  Nobody looks at the clock while no timer is queued.  With *)
(* interrupts disabled at most a tick passes between two looks.            *)
Tick ==
  /\ mode = "open" \/ (mode \in {"call", "handle"} /\ since = 0)
  /\ IF list = << >> /\ walk = NULL THEN since' = 0
     ELSE since < HeadTicks + MaxLag /\ since' = since + 1
  /\ alarm' = IF alarm = 0 THEN 0 ELSE alarm - 1
  /\ irq' = (irq \/ alarm = 1)
  /\ left' = [t \in Timer |-> IF Started(t) /\ left[t] > 0 THEN left[t] - 1 ELSE 0]
  /\ UNCHANGED <<tableVars, event, mode, walk, shifted>>

(* Taken as soon as interrupts are enabled.                                *)
IrqHandler ==
  /\ mode = "open" /\ irq
  /\ irq' = FALSE /\ alarm' = 0
  /\ event' = TRUE
  /\ UNCHANGED <<tableVars, since, mode, walk, historyVars>>

-----------------------------------------------------------------------------
(* An alarm for the present tick or the next might be missed.              *)
AlarmIn(ticks) == IF ticks < 2 THEN 2 ELSE ticks

(* The alarm for the first timer, and PreviousTimerValue with it.          *)
SetTimerAlarm(ticks) ==
  /\ alarm' = AlarmIn(ticks)
  /\ since' = 0

Elapsed(tm, l, passed) ==
  IF l = << >> THEN tm
  ELSE [tm EXCEPT ![Head(l)].ticks = IF passed < @ THEN @ - passed ELSE 0]

(* A mutant: PreviousTimerValue is not brought up to date.                 *)
QueueTimerUnread(tm, l, t, ticks, passed) ==
  /\ timers' = Elapsed([tm EXCEPT ![t].ticks = ticks], l, passed)
  /\ list' = l
  /\ since' = since
  /\ walk' = [timer |-> t, ticks |-> ticks, at |-> 1]
  /\ left' = [left EXCEPT ![t] = ticks]
  /\ shifted' = shifted \ {t}

(* QueueTimer up to its loop, for a timer with a number of ticks to go in  *)
(* table tm and list l, when so many have passed.                          *)
QueueTimer(tm, l, t, ticks, passed) ==
  /\ timers' = Elapsed([tm EXCEPT ![t].ticks = ticks], l, passed)
  /\ list' = l
  /\ since' = 0
  /\ walk' = [timer |-> t, ticks |-> ticks, at |-> 1]
  /\ left' = [left EXCEPT ![t] = ticks]
  /\ shifted' = shifted \ {t}

(* A mutant: every timer is passed.                                        *)
BeforeAll(ticks, at) == at <= Len(list)

Before(ticks, at) == at <= Len(list) /\ timers[list[at]].ticks < ticks

WalkOn ==
  /\ walk # NULL /\ Before(walk.ticks, walk.at)
  /\ walk' = [walk EXCEPT !.ticks = @ - timers[list[walk.at]].ticks, !.at = @ + 1]
  /\ UNCHANGED <<tableVars, clockVars, irq, event, mode, historyVars>>

(* The intervals after a timer is placed.                                  *)
Placed(w) ==
  LET tm == [timers EXCEPT ![w.timer].ticks = w.ticks]
  IN  IF w.at <= Len(list) THEN [tm EXCEPT ![list[w.at]].ticks = @ - w.ticks] ELSE tm

(* A mutant: the alarm of another timer is left as it is.                  *)
WalkEndsBeside ==
  /\ walk # NULL /\ ~ Before(walk.ticks, walk.at)
  /\ timers' = Placed(walk)
  /\ list' = InsertAt(list, walk.at, walk.timer)
  /\ IF list = << >> THEN SetTimerAlarm(walk.ticks) ELSE UNCHANGED clockVars
  /\ mode' = IF mode = "call" THEN "open" ELSE mode
  /\ walk' = NULL
  /\ UNCHANGED <<irq, event, historyVars>>

WalkEnds ==
  /\ walk # NULL /\ ~ Before(walk.ticks, walk.at)
  /\ timers' = Placed(walk)
  /\ list' = InsertAt(list, walk.at, walk.timer)
  /\ IF walk.at = 1 THEN SetTimerAlarm(walk.ticks) ELSE UNCHANGED clockVars
  /\ mode' = IF mode = "call" THEN "open" ELSE mode
  /\ walk' = NULL
  /\ UNCHANGED <<irq, event, historyVars>>

-----------------------------------------------------------------------------
(* The calls.  The checks of the ids and of the owner change nothing, and  *)
(* a thread with the owner's process id is any caller.                     *)
Call == mode = "open" /\ ~ irq

(* A delay of 0 stands for the period, and 0 ticks are not queued.         *)
Start(t, delay, period) ==
  LET ticks == ConvertDelayToTicks(IF delay # 0 THEN delay ELSE period)
      tm == [timers EXCEPT ![t] = [used |-> TRUE, ticks |-> ticks, period |-> period]]
  IN  IF ticks # 0
      THEN /\ QueueTimer(tm, list, t, ticks, since)
           /\ mode' = "call"
      ELSE /\ timers' = tm
           /\ UNCHANGED <<list, since, mode, walk, historyVars>>

CreateTimer(t, delay, period) ==
  /\ Call /\ ~ timers[t].used
  /\ Start(t, delay, period)
  /\ UNCHANGED <<alarm, irq, event>>

(* Without effect on a timer that runs or has not been stopped.            *)
RestartTimer(t, delay, period) ==
  /\ Call /\ timers[t].used
  /\ timers[t].ticks = 0 /\ timers[t].period = 0 /\ ~ Queued(t)
  /\ Start(t, delay, period)
  /\ UNCHANGED <<alarm, irq, event>>

Cleared(t, destroy) ==
  [timers EXCEPT ![t] = [used |-> @.used /\ ~ destroy, ticks |-> 0, period |-> 0]]

(* The stop of a timer moves the turns of others.                          *)
Moved(others) ==
  /\ shifted' = shifted \cup others
  /\ left' = [t \in Timer |-> IF t \in others THEN 0 ELSE left[t]]

StopIdle(t, destroy) ==
  /\ Call /\ timers[t].used /\ ~ Queued(t)
  /\ timers' = Cleared(t, destroy)
  /\ UNCHANGED <<list, clockVars, irq, event, mode, walk, historyVars>>

(* The removed interval is not given to the timers behind: they come early *)
(* by that much.                                                           *)
StopBefore(t, destroy) ==
  /\ Call
  /\ \E i \in 1 .. Len(list) - 1 :
       /\ list[i] = t
       /\ list' = RemoveAt(list, i)
       /\ Moved(IF timers[t].ticks = 0 /\ t \notin shifted THEN {}
                ELSE {list[j] : j \in i + 1 .. Len(list)})
  /\ timers' = Cleared(t, destroy)
  /\ UNCHANGED <<clockVars, irq, event, mode, walk>>

(* PreviousTimerValue becomes an interval: HW_TIMER may be any distance    *)
(* from it.                                                                *)
StopLast(t, destroy) ==
  /\ Call
  /\ Len(list) > 1 /\ t = Last(list)
  /\ list' = Front(list)
  /\ since' \in 0 .. MaxLag
  /\ Moved(ToSet(Front(list)))
  /\ timers' = Cleared(t, destroy)
  /\ UNCHANGED <<alarm, irq, event, mode, walk>>

(* The clock is read at HW_TIMER - PreviousTimerValue instead of HW_TIMER, *)
(* an address that may not be mapped.                                      *)
StopOnly(t, destroy) ==
  /\ Call
  /\ list = <<t>>
  /\ since' = 0
  /\ \/ /\ mode' = "panic"
        /\ UNCHANGED tableVars
     \/ /\ list' = << >>
        /\ timers' = Cleared(t, destroy)
        /\ UNCHANGED mode
  /\ UNCHANGED <<alarm, irq, event, walk, historyVars>>

StopOrDestroyTimer(t, destroy) ==
  StopIdle(t, destroy) \/ StopBefore(t, destroy) \/ StopLast(t, destroy) \/ StopOnly(t, destroy)

-----------------------------------------------------------------------------
(* TimerHandler.  No thread has a higher priority, so nothing runs while   *)
(* it sends.                                                               *)
ReceiveEvent ==
  /\ mode = "open" /\ ~ irq /\ event
  /\ event' = FALSE
  /\ mode' = "handle"
  /\ UNCHANGED <<tableVars, clockVars, irq, walk, historyVars>>

NothingQueued ==
  /\ mode = "handle" /\ walk = NULL /\ list = << >>
  /\ mode' = "open"
  /\ UNCHANGED <<tableVars, clockVars, irq, event, walk, historyVars>>

Handling == mode = "handle" /\ walk = NULL /\ list # << >>

(* A mutant: the next round waits for an alarm that nobody set.            *)
NotYetUnset ==
  /\ Handling /\ since < timers[Head(list)].ticks
  /\ timers' = Elapsed(timers, list, since)
  /\ since' = 0
  /\ mode' = "open"
  /\ UNCHANGED <<list, alarm, irq, event, walk, historyVars>>

NotYet ==
  /\ Handling /\ since < timers[Head(list)].ticks
  /\ timers' = Elapsed(timers, list, since)
  /\ SetTimerAlarm(timers[Head(list)].ticks - since)
  /\ mode' = "open"
  /\ UNCHANGED <<list, irq, event, walk, historyVars>>

(* The ticks to the next turn of a periodic timer: those that it is late   *)
(* are taken off.  Late by exactly a period, the difference wraps.         *)
NextTurn(info) ==
  LET interval == ConvertDelayToTicks(info.period)
  IN IF info.ticks + interval < since THEN 1 ELSE (info.ticks - since + interval - 1) % Word

Expire ==
  LET t == Head(list)
  IN
  /\ Handling /\ since >= timers[t].ticks
  /\ IF timers[t].period # 0
     THEN QueueTimer(timers, Tail(list), t, NextTurn(timers[t]), 0)
     ELSE /\ list' = Tail(list)
          /\ since' = 0
          /\ UNCHANGED <<timers, walk, historyVars>>
  /\ UNCHANGED <<alarm, irq, event, mode>>

TimerHandler == ReceiveEvent \/ NothingQueued \/ NotYet \/ Expire

-----------------------------------------------------------------------------
Calls ==
  \/ \E s \in Setting : CreateTimer(s[1], s[2], s[3]) \/ RestartTimer(s[1], s[2], s[3])
  \/ \E e \in Ending : StopOrDestroyTimer(e[1], e[2])

Next == Tick \/ IrqHandler \/ WalkOn \/ WalkEnds \/ Calls \/ TimerHandler

Spec == Init /\ [][Next]_vars

(* Calls do not take all of the time, interrupts are taken, a call returns *)
(* and the handler has the highest priority.                               *)
Fairness ==
  /\ SF_vars(mode = "open" /\ Tick) /\ WF_vars(IrqHandler)
  /\ WF_vars(WalkOn \/ WalkEnds)
  /\ SF_vars(ReceiveEvent) /\ WF_vars(TimerHandler)

FairSpec == Spec /\ Fairness

-----------------------------------------------------------------------------
(* A timer is on the list once at most, while it is in use, and not while  *)
(* its place is looked for.                                                *)
ListOK ==
  /\ list \in Seq(Timer)
  /\ \A i, j \in DOMAIN list : list[i] = list[j] => i = j
  /\ \A i \in DOMAIN list : timers[list[i]].used
  /\ walk # NULL => /\ walk \in Walk /\ walk.at <= Len(list) + 1
                    /\ ~ Queued(walk.timer) /\ timers[walk.timer].used
                    /\ mode \in {"call", "handle"}
  /\ mode = "call" => walk # NULL

TypeOK ==
  /\ timers \in [Timer -> TimerInfo]
  /\ since \in Nat /\ alarm \in Nat
  /\ irq \in BOOLEAN /\ event \in BOOLEAN
  /\ mode \in {"open", "call", "handle", "panic"}
  /\ left \in [Timer -> Nat] /\ shifted \subseteq Timer
  /\ ListOK

(* When the turns of the timers on list l come, in ticks from now.         *)
Turns(l, tm, passed) ==
  LET turn[n \in 0 .. Len(l)] == IF n = 0 THEN - passed ELSE turn[n - 1] + tm[l[n]].ticks
  IN  turn
Turn(i) == Turns(list, timers, since)[i]

(* No timer fires before it was asked to, however the others are created,  *)
(* restarted and fire meanwhile, unless a timer before it was stopped: the *)
(* turns that the intervals of the list add up to never come early.        *)
NeverEarly ==
  \A i \in DOMAIN list : left[list[i]] > 0 => list[i] \in shifted \/ Turn(i) >= left[list[i]]

(* Whenever a timer is queued, the handler is about to look at the list or *)
(* the alarm comes no later than the turn of the first timer, two ticks    *)
(* being the least.                                                        *)
AlarmInTime ==
  list # << >> /\ mode \in {"open", "call"} /\ ~ irq /\ ~ event =>
    /\ alarm > 0
    /\ Head(list) \in shifted \/ alarm <= AlarmIn(timers[Head(list)].ticks - since)

(* A queued timer whose time has come fires, unless it is stopped or a     *)
(* stop has moved it.                                                      *)
DueFires ==
  \A t \in Timer :
    Queued(t) /\ left[t] = 0 /\ t \notin shifted ~>
      left[t] > 0 \/ ~ Queued(t) \/ t \in shifted \/ mode = "panic"
=============================================================================
