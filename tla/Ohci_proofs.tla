------------------------------- MODULE Ohci_proofs -------------------------------
(***************************************************************************)
(* That no change of a port is lost on its way from the root hub to main,  *)
(* for any ports, requests, length of the device queue and attempts.       *)
(***************************************************************************)
EXTENDS Ohci, TLAPS, SequenceTheorems

Message == Request \cup {StatusChange}
StartUp == {"start", "power", "query", "device", "finish", "serve", "ended"}
Loop == {"connection", "reset", "acknowledge"}
Place == StartUp \cup Loop \cup {"receive", "port", "sleep", "closed"}

(* The types of the variables that the argument rests on.                  *)
MainType ==
  main \in [ at : Place, then : {"start", "query", "reset", "closed"}, port : Nat \ {0}, tries : Nat,
             found : Nat, req : Request \cup {NULL} ]
WorkerType == worker \in [at : {"off", "wait", "report"}, change : BOOLEAN, other : BOOLEAN]
QueueType == queue \in Seq(Message)
HubType ==
  hub \in [Port -> [ connected : BOOLEAN, csc : BOOLEAN, prsc : BOOLEAN, reset : BOOLEAN, fresh : BOOLEAN ]]
HcType == hc \in [rhsc : BOOLEAN, other : BOOLEAN, masked : BOOLEAN, events : Nat]
OhciType == MainType /\ WorkerType /\ QueueType /\ HubType /\ HcType /\ serving \in BOOLEAN

(* main holds a request only while it closes the slot; once it serves it   *)
(* is at no place of the start-up; and only then is a change fresh.        *)
Closes == main.at = "closed" \/ (main.at = "sleep" /\ main.then = "closed")
PlacesAgree ==
  /\ main.req # NULL <=> Closes
  /\ serving => main.at \notin StartUp /\ (main.at = "sleep" => main.then \in {"reset", "closed"})
  /\ main.at = "connection" => main.port \in Port
  /\ worker.at # "report" => ~ worker.change
  /\ \A p \in Port : hub[p].fresh => serving

HubInv == OhciType /\ PlacesAgree /\ NoLostChange

-----------------------------------------------------------------------------
LEMMA InitHub == Init => HubInv
<1> SUFFICES ASSUME Init PROVE HubInv
  OBVIOUS
<1>1. PICK there \in [Port -> BOOLEAN] :
        hub = [p \in Port |-> [ connected |-> there[p], csc |-> there[p], prsc |-> FALSE,
                                reset |-> FALSE, fresh |-> FALSE ]]
  BY DEF Init
<1>2. OhciType
  <2>1. MainType
    <3>1. "start" \in Place /\ 1 \in Nat \ {0} /\ 0 \in Nat
      BY DEF Place, StartUp
    <3> QED BY <3>1 DEF Init, MainType
  <2>2. WorkerType /\ HcType /\ serving \in BOOLEAN
    BY DEF Init, WorkerType, HcType
  <2>3. QueueType /\ HubType
    BY <1>1 DEF Init, QueueType, HubType
  <2> QED BY <2>1, <2>2, <2>3 DEF OhciType
<1>3. \A p \in Port : ~ hub[p].fresh
  BY <1>1
<1> QED BY <1>2, <1>3 DEF Init, HubInv, PlacesAgree, Closes, NoLostChange

(* What is added to a queue, or stays when its head goes.                  *)
LEMMA AppendedIsIn ==
  ASSUME NEW S, NEW q \in Seq(S), NEW e \in S
  PROVE  /\ Append(q, e) \in Seq(S)
         /\ e \in ToSet(Append(q, e))
         /\ \A x \in ToSet(q) : x \in ToSet(Append(q, e))
<1>1. /\ Append(q, e) \in Seq(S)
      /\ Len(Append(q, e)) = Len(q) + 1 /\ Len(q) \in Nat
      /\ Append(q, e)[Len(q) + 1] = e
      /\ \A i \in 1..Len(q) : Append(q, e)[i] = q[i]
  BY AppendProperties, LenProperties
<1>2. DOMAIN q = 1..Len(q) /\ DOMAIN Append(q, e) = 1..(Len(q) + 1)
  BY <1>1, LenProperties
<1> QED BY <1>1, <1>2 DEF ToSet

LEMMA TailKeeps ==
  ASSUME NEW S, NEW q \in Seq(S), q # << >>
  PROVE  /\ Tail(q) \in Seq(S)
         /\ Head(q) \in S
         /\ \A x \in ToSet(q) : x # Head(q) => x \in ToSet(Tail(q))
<1>1. Tail(q) \in Seq(S) /\ Head(q) \in S /\ Len(Tail(q)) = Len(q) - 1 /\ Len(q) \in Nat \ {0}
  BY HeadTailProperties, EmptySeq, LenProperties
<1>2. ASSUME NEW i \in 1..Len(q), q[i] # Head(q)
      PROVE  q[i] \in ToSet(Tail(q))
  <2>1. Head(q) = q[1] /\ i - 1 \in 1..Len(Tail(q))
    BY <1>1, <1>2 DEF Head
  <2>2. Tail(q)[i - 1] = q[(i - 1) + 1]
    BY <1>1, <2>1, HeadTailProperties
  <2>3. Tail(q)[i - 1] = q[i]
    BY <2>1, <2>2, <1>1
  <2>4. DOMAIN Tail(q) = 1..Len(Tail(q))
    BY <1>1, LenProperties
  <2> QED BY <2>1, <2>3, <2>4 DEF ToSet
<1>3. DOMAIN q = 1..Len(q)
  BY LenProperties
<1> QED BY <1>1, <1>2, <1>3 DEF ToSet

(* A reset of a port leaves what is fresh.                                 *)
LEMMA ResetKeepsFresh ==
  ASSUME HubType, HcType, NEW p \in Port, StartReset(p)
  PROVE  /\ HubType' /\ HcType' /\ (hc.rhsc => hc'.rhsc)
         /\ \A q \in Port : hub'[q].fresh = hub[q].fresh
<1>1. CASE hub[p].connected
  <2>1. hub' = [hub EXCEPT ![p].reset = TRUE] /\ hc' = hc
    BY <1>1 DEF StartReset
  <2>2. HubType' /\ \A q \in Port : hub'[q].fresh = hub[q].fresh
    BY <2>1 DEF HubType
  <2> QED BY <2>1, <2>2 DEF HcType
<1>2. CASE ~ hub[p].connected
  <2>1. hub' = [hub EXCEPT ![p].csc = TRUE] /\ hc' = [hc EXCEPT !.rhsc = TRUE]
    BY <1>2 DEF StartReset
  <2>2. HubType' /\ \A q \in Port : hub'[q].fresh = hub[q].fresh
    BY <2>1 DEF HubType
  <2>3. HcType' /\ hc'.rhsc
    BY <2>1 DEF HcType
  <2> QED BY <2>2, <2>3
<1> QED BY <1>1, <1>2

(* The moves of main.                                                      *)
LEMMA Moves ==
  ASSUME MainType, NEW place \in Place
  PROVE  /\ Goes(place) => MainType' /\ main'.at = place /\ main'.port = main.port
                           /\ main'.req = main.req /\ main'.then = main.then
         /\ \A p \in Nat \ {0} : GoesTo(place, p) =>
              MainType' /\ main'.at = place /\ main'.port = p
              /\ main'.req = main.req /\ main'.then = main.then
         /\ main.port \in Nat \ {0} /\ main.port + 1 \in Nat \ {0}
<1>1. Goes(place) => MainType' /\ main'.at = place /\ main'.port = main.port
                     /\ main'.req = main.req /\ main'.then = main.then
  BY DEF MainType, Goes
<1>2. ASSUME NEW p \in Nat \ {0}, GoesTo(place, p)
      PROVE  MainType' /\ main'.at = place /\ main'.port = p /\ main'.req = main.req /\ main'.then = main.then
  <2>1. main' = [main EXCEPT !.at = place, !.port = p, !.tries = 0] /\ 0 \in Nat
    BY <1>2 DEF GoesTo
  <2> QED BY <2>1 DEF MainType
<1>3. main.port \in Nat \ {0} /\ main.port + 1 \in Nat \ {0}
  <2>1. main.port \in Nat \ {0}
    BY DEF MainType
  <2> QED BY <2>1
<1> QED BY <1>1, <1>2, <1>3

(* A step that leaves what carries a change carries it on.                 *)
LEMMA OnItsWay ==
  ASSUME NoLostChange,
         \A p \in Port : hub'[p].fresh => hub[p].fresh /\ (p \in ToLookAt => p \in ToLookAt'),
         hc.rhsc => hc'.rhsc,
         worker.change => worker'.change,
         StatusChange \in ToSet(queue) => StatusChange \in ToSet(queue')
  PROVE  NoLostChange'
BY DEF NoLostChange

-----------------------------------------------------------------------------
(* The root hub, the controller and the clients.                           *)
LEMMA EventsKeepHub ==
  ASSUME HubInv, NEW rhsc \in BOOLEAN, NEW other \in BOOLEAN, Event(rhsc, other)
  PROVE  /\ MainType' /\ WorkerType' /\ QueueType' /\ HcType' /\ serving' \in BOOLEAN
         /\ (hc.rhsc \/ rhsc => hc'.rhsc)
<1>1. UNCHANGED <<main, worker, queue, serving>> /\ hc' = [hc EXCEPT !.rhsc = @ \/ rhsc, !.other = @ \/ other, !.events = @ + 1]
  BY DEF Event
<1>2. HcType' /\ (hc.rhsc \/ rhsc => hc'.rhsc)
  <2>1. hc \in [rhsc : BOOLEAN, other : BOOLEAN, masked : BOOLEAN, events : Nat]
    BY DEF HubInv, OhciType, HcType
  <2>2. /\ (hc.rhsc \/ rhsc) \in BOOLEAN /\ (hc.other \/ other) \in BOOLEAN
        /\ hc.masked \in BOOLEAN /\ hc.events + 1 \in Nat
    BY <2>1
  <2>3. hc' = [ rhsc |-> hc.rhsc \/ rhsc, other |-> hc.other \/ other,
                masked |-> hc.masked, events |-> hc.events + 1 ]
    BY <1>1, <2>1, Zenon
  <2>4. HcType'
    BY <2>2, <2>3 DEF HcType
  <2>5. hc'.rhsc = (hc.rhsc \/ rhsc)
    BY <2>3, Zenon
  <2> QED BY <2>4, <2>5
<1> QED BY <1>1, <1>2 DEF HubInv, OhciType, MainType, WorkerType, QueueType

LEMMA EnvironmentKeepsHub ==
  ASSUME HubInv, RootHub \/ \E r \in Request : Post(r)
  PROVE  HubInv'
<1>1. CASE OtherEvent
  <2>1. PICK rhsc \in BOOLEAN : Event(rhsc, ~ rhsc) /\ UNCHANGED hub
    BY <1>1 DEF OtherEvent
  <2>2. OhciType' /\ (hc.rhsc => hc'.rhsc)
    BY <2>1, EventsKeepHub DEF HubInv, OhciType, HubType
  <2>3. UNCHANGED <<main, worker, queue, hub, serving>>
    BY <2>1 DEF Event
  <2> QED BY <2>2, <2>3, OnItsWay DEF HubInv, PlacesAgree, Closes, ToLookAt
<1>2. ASSUME NEW p \in Port, PlugOrPull(p)
      PROVE  HubInv'
  <2>1. /\ Event(TRUE, FALSE)
        /\ hub' = [hub EXCEPT ![p].connected = ~ @, ![p].csc = TRUE, ![p].fresh = serving]
    BY <1>2 DEF PlugOrPull
  <2>2. HubType' /\ \A q \in Port : hub'[q].fresh => hub[q].fresh \/ serving
    <3> DEFINE plugged == [hub[p] EXCEPT !.connected = ~ hub[p].connected, !.csc = TRUE, !.fresh = serving]
               State   == [ connected : BOOLEAN, csc : BOOLEAN, prsc : BOOLEAN, reset : BOOLEAN,
                            fresh : BOOLEAN ]
    <3>1. hub \in [Port -> State] /\ serving \in BOOLEAN
      BY DEF HubInv, OhciType, HubType
    <3>2. plugged \in State /\ plugged.fresh = serving
      BY <3>1
    <3>3. hub' = [hub EXCEPT ![p] = plugged]
      BY <2>1, <3>1
    <3> HIDE DEF plugged
    <3>4. hub' \in [Port -> State] /\ hub'[p] = plugged /\ \A q \in Port \ {p} : hub'[q] = hub[q]
      BY <3>1, <3>2, <3>3
    <3> QED BY <3>2, <3>4 DEF HubType
  <2>3. OhciType' /\ hc'.rhsc
    BY <2>1, <2>2, EventsKeepHub DEF OhciType
  <2>4. UNCHANGED <<main, worker, serving>>
    BY <2>1 DEF Event
  <2> QED BY <2>2, <2>3, <2>4 DEF HubInv, PlacesAgree, Closes, NoLostChange
<1>3. ASSUME NEW p \in Port, ResetEnds(p)
      PROVE  HubInv'
  <2>1. /\ hub' = [hub EXCEPT ![p].reset = FALSE, ![p].prsc = TRUE]
        /\ hc' = [hc EXCEPT !.rhsc = TRUE]
        /\ UNCHANGED <<main, worker, queue, serving>>
    BY <1>3 DEF ResetEnds
  <2>2. HubType' /\ \A q \in Port : hub'[q].fresh => hub[q].fresh
    BY <2>1 DEF HubInv, OhciType, HubType
  <2>3. HcType' /\ hc'.rhsc
    BY <2>1 DEF HubInv, OhciType, HcType
  <2> QED BY <2>1, <2>2, <2>3 DEF HubInv, OhciType, MainType, WorkerType, QueueType, PlacesAgree,
                                  Closes, NoLostChange
<1>4. ASSUME NEW r \in Request, Post(r)
      PROVE  HubInv'
  <2>1. QueueType' /\ \A x \in ToSet(queue) : x \in ToSet(queue')
    BY <1>4, AppendedIsIn, r \in Message DEF Post, HubInv, OhciType, QueueType, Message
  <2>2. UNCHANGED <<main, worker, hub, hc, serving>>
    BY <1>4 DEF Post
  <2>3. OhciType' /\ PlacesAgree'
    BY <2>1, <2>2 DEF HubInv, OhciType, MainType, WorkerType, HubType, HcType, PlacesAgree, Closes
  <2>4. NoLostChange'
    BY <2>1, <2>2, OnItsWay DEF HubInv, ToLookAt
  <2> QED BY <2>3, <2>4 DEF HubInv
<1> QED BY <1>1, <1>2, <1>3, <1>4 DEF RootHub

LEMMA WorkerKeepsHub ==
  ASSUME HubInv, WorkerThread
  PROVE  HubInv'
<1>1. CASE WorkerLooks
  <2>1. /\ worker' = [at |-> "report", change |-> hc.rhsc, other |-> hc.other]
        /\ UNCHANGED <<main, queue, hub, hc, serving>>
    BY <1>1 DEF WorkerLooks
  <2>2. OhciType' /\ PlacesAgree'
    BY <2>1 DEF HubInv, OhciType, MainType, WorkerType, QueueType, HubType, HcType, PlacesAgree, Closes
  <2>3. worker'.change = hc.rhsc
    BY <2>1
  <2>4. \A p \in Port : hub[p].fresh =>
          hc.rhsc \/ worker.change \/ StatusChange \in ToSet(queue) \/ p \in ToLookAt
    BY DEF HubInv, NoLostChange
  <2>5. worker.change => hc.rhsc
    BY <1>1 DEF WorkerLooks, HubInv, PlacesAgree
  <2>6. NoLostChange'
    BY <2>1, <2>3, <2>4, <2>5 DEF NoLostChange, ToLookAt
  <2> QED BY <2>2, <2>6 DEF HubInv
<1>2. CASE WorkerReports
  <2>1. /\ worker' = [at |-> "wait", change |-> FALSE, other |-> FALSE]
        /\ hc' = [hc EXCEPT !.rhsc = @ /\ ~ worker.change, !.other = @ /\ ~ worker.other]
        /\ UNCHANGED <<main, hub, serving>>
    BY <1>2 DEF WorkerReports
  <2>2. HcType' /\ (~ worker.change => hc'.rhsc = hc.rhsc)
    BY <2>1 DEF HubInv, OhciType, HcType, WorkerType
  <2>3. CASE worker.change /\ serving
    <3>1. queue' = Append(queue, StatusChange) /\ queue \in Seq(Message) /\ StatusChange \in Message
      BY <1>2, <2>3 DEF WorkerReports, HubInv, OhciType, QueueType, Message
    <3>2. QueueType' /\ StatusChange \in ToSet(queue')
      BY <3>1, AppendedIsIn DEF QueueType
    <3>3. OhciType' /\ PlacesAgree'
      BY <2>1, <2>2, <3>2 DEF HubInv, OhciType, MainType, WorkerType, HubType, PlacesAgree, Closes
    <3> QED BY <3>2, <3>3 DEF HubInv, NoLostChange
  <2>4. CASE ~ (worker.change /\ serving)
    <3>1. queue' = queue
      BY <1>2, <2>4 DEF WorkerReports
    <3>2. OhciType' /\ PlacesAgree'
      BY <2>1, <2>2, <3>1 DEF HubInv, OhciType, MainType, WorkerType, QueueType, HubType, PlacesAgree, Closes
    <3>3. NoLostChange'
      BY <2>1, <2>2, <2>4, <3>1 DEF HubInv, NoLostChange, ToLookAt, PlacesAgree
    <3> QED BY <3>2, <3>3 DEF HubInv
  <2> QED BY <2>3, <2>4
<1> QED BY <1>1, <1>2 DEF WorkerThread

-----------------------------------------------------------------------------
(* ResetDevice, at start-up and while the module serves: the ports that    *)
(* are still to be looked at remain so.                                    *)
LEMMA ResetsKeepHub ==
  ASSUME HubInv, main.port \in Port, main.req = NULL, main.at \in {"query", "connection"},
         ResetDevice, UNCHANGED <<worker, queue, serving>>
  PROVE  HubInv'
<1> DEFINE p == main.port
<1>1. main.port + 1 \in Nat \ {0} /\ (main.at = "query" => ~ serving) /\ MainType
  BY Moves DEF HubInv, OhciType, PlacesAgree, StartUp, MainType
<1>2. /\ HubType' /\ HcType' /\ (hc.rhsc => hc'.rhsc)
      /\ \A q \in Port : hub'[q].fresh = hub[q].fresh
  <2>1. CASE StartReset(p)
    BY <2>1, ResetKeepsFresh DEF HubInv, OhciType
  <2>2. CASE UNCHANGED <<hub, hc>>
    BY <2>2 DEF HubInv, OhciType, HubType, HcType
  <2> QED BY <2>1, <2>2 DEF ResetDevice
<1>3. /\ MainType' /\ main'.req = NULL
      /\ \/ main'.at = "sleep" /\ main'.then = "reset" /\ main'.port = main.port
         \/ main'.at = "acknowledge" /\ main'.port = main.port /\ serving
         \/ main'.at = "query" /\ ~ serving
  <2>1. CASE main' = [main EXCEPT !.at = "sleep", !.then = "reset", !.tries = Attempts]
    BY <1>1, <2>1, AttemptsAssumption DEF MainType, Place, Loop
  <2>2. CASE NotReset
    BY <1>1, <2>2, Moves DEF NotReset, Place, Loop, StartUp
  <2> QED BY <2>1, <2>2 DEF ResetDevice
<1>4. OhciType'
  BY <1>2, <1>3 DEF HubInv, OhciType, WorkerType, QueueType
<1>5. PlacesAgree'
  BY <1>1, <1>2, <1>3 DEF HubInv, PlacesAgree, Closes, StartUp
<1>6. CASE serving
  <2>1. main.at = "connection" /\ ToLookAt = (main.port + 1)..Ports /\ ToLookAt' = (main.port + 1)..Ports
    BY <1>1, <1>3, <1>6 DEF ToLookAt
  <2> QED BY <1>2, <1>4, <1>5, <2>1, OnItsWay DEF HubInv
<1>7. CASE ~ serving
  BY <1>2, <1>4, <1>5, <1>7 DEF HubInv, PlacesAgree, NoLostChange
<1> QED BY <1>6, <1>7

(* main before it serves: no change is fresh.                              *)
LEMMA StartUpKeepsHub ==
  ASSUME HubInv, MainStarts \/ QueryModuleDevices \/ MainServes
  PROVE  HubInv'
<1>1. serving = FALSE /\ MainType /\ WorkerType /\ QueueType /\ HubType /\ HcType
  BY DEF HubInv, OhciType, PlacesAgree, QueryModuleDevices, MainStarts, MainPowersUp, MainQueries,
         MainAddsDevice, MainFinishes, MainServes, MainAt, StartUp
<1>2. /\ (\A p \in Port : ~ hub[p].fresh) /\ (main.req # NULL <=> Closes)
      /\ worker.at # "report" => ~ worker.change
  BY <1>1 DEF HubInv, PlacesAgree
<1>3. ASSUME MainType', HubType', HcType', WorkerType', UNCHANGED queue, serving' = FALSE,
             main'.req = NULL, main'.at \notin {"closed", "connection"}, main'.at = "sleep" => main'.then # "closed",
             worker'.at # "report" => ~ worker'.change, \A p \in Port : ~ hub'[p].fresh
      PROVE  HubInv'
  BY <1>1, <1>3 DEF HubInv, OhciType, QueueType, PlacesAgree, Closes, NoLostChange
<1>4. CASE MainStarts
  <2>1. main.at = "start" /\ main.req = NULL /\ UNCHANGED <<queue, hub, serving>>
    BY <1>2, <1>4 DEF MainStarts, MainAt, Closes
  <2>2. MainType' /\ main'.req = NULL /\ main'.at \in {"ended", "power"}
    BY <1>1, <1>4, <2>1, Moves DEF MainStarts, Place, StartUp
  <2>3. WorkerType' /\ HcType' /\ (worker'.at # "report" => ~ worker'.change)
    <3>1. worker.at # "report"
      BY <1>1, <1>4 DEF MainStarts, MainAt, WorkerBlocked, WorkerType
    <3> QED BY <1>1, <1>2, <1>4, <3>1 DEF MainStarts, WorkerType, HcType
  <2> QED BY <1>1, <1>2, <1>3, <2>1, <2>2, <2>3 DEF HubType
<1>5. CASE MainPowersUp
  <2>1. /\ main.req = NULL /\ main' = [main EXCEPT !.at = "sleep", !.then = "query"]
        /\ UNCHANGED <<worker, queue, hub, hc, serving>>
    BY <1>2, <1>5 DEF MainPowersUp, MainAt, Closes, Sleeps
  <2>2. MainType' /\ main'.req = NULL /\ main'.then = "query" /\ main'.at = "sleep"
    BY <1>1, <2>1 DEF MainType, Place, StartUp
  <2> QED BY <1>1, <1>2, <1>3, <2>1, <2>2 DEF HubType, HcType, WorkerType
<1>6. CASE MainQueries
  <2>1. main.at = "query" /\ main.req = NULL /\ UNCHANGED <<worker, queue, serving>>
    BY <1>2, <1>6 DEF MainQueries, MainAt, Closes
  <2>2. CASE main.port \in Port
    BY <1>6, <2>1, <2>2, ResetsKeepHub DEF MainQueries
  <2>3. CASE main.port \notin Port
    <3>1. Goes("finish") /\ UNCHANGED <<hub, hc>>
      BY <1>6, <2>3 DEF MainQueries
    <3>2. MainType' /\ main'.req = NULL /\ main'.at = "finish"
      BY <1>1, <2>1, <3>1, Moves DEF Place, StartUp
    <3> QED BY <1>1, <1>2, <1>3, <2>1, <3>1, <3>2 DEF HubType, HcType, WorkerType
  <2> QED BY <2>2, <2>3
<1>7. CASE MainAddsDevice
  <2>1. main.at = "device" /\ main.req = NULL /\ UNCHANGED <<worker, queue, hub, hc, serving>>
    BY <1>2, <1>7 DEF MainAddsDevice, MainAt, Closes
  <2>2. MainType' /\ main'.req = NULL /\ main'.at \in {"query", "finish"}
    <3>1. CASE main' = [main EXCEPT !.at = "query", !.port = @ + 1, !.tries = 0, !.found = @ + 1]
      <4>1. main.port + 1 \in Nat \ {0} /\ main.found + 1 \in Nat /\ "query" \in Place /\ 0 \in Nat
        BY <1>1, Moves DEF MainType, Place, StartUp
      <4> QED BY <1>1, <2>1, <3>1, <4>1 DEF MainType
    <3>2. CASE Goes("finish")
      BY <1>1, <2>1, <3>2, Moves DEF Place, StartUp
    <3> QED BY <1>7, <3>1, <3>2 DEF MainAddsDevice
  <2> QED BY <1>1, <1>2, <1>3, <2>1, <2>2 DEF HubType, HcType, WorkerType
<1>8. CASE MainFinishes
  <2>1. /\ main.req = NULL /\ UNCHANGED <<worker, queue, hc, serving>>
        /\ hub' = [p \in Port |-> [hub[p] EXCEPT !.csc = FALSE]]
    BY <1>2, <1>8 DEF MainFinishes, MainAt, Closes
  <2>2. HubType' /\ \A p \in Port : ~ hub'[p].fresh
    BY <1>1, <1>2, <2>1 DEF HubType
  <2>3. MainType' /\ main'.req = NULL /\ main'.at \in {"ended", "serve"}
    <3>1. "ended" \in Place /\ "serve" \in Place /\ 1 \in Nat \ {0}
      BY DEF Place, StartUp
    <3>2. GoesTo("ended", 1) \/ GoesTo("serve", 1)
      BY <1>8 DEF MainFinishes
    <3> QED BY <1>1, <2>1, <3>1, <3>2, Moves
  <2> QED BY <1>1, <1>2, <1>3, <2>1, <2>2, <2>3 DEF HcType, WorkerType
<1>9. CASE MainServes
  <2>1. main.req = NULL /\ Goes("receive") /\ serving' = TRUE /\ UNCHANGED <<worker, queue, hub, hc>>
    BY <1>2, <1>9 DEF MainServes, MainAt, Closes
  <2>2. MainType' /\ main'.req = NULL /\ main'.at = "receive"
    BY <1>1, <2>1, Moves DEF Place
  <2> QED BY <1>1, <1>2, <2>1, <2>2 DEF HubInv, OhciType, WorkerType, QueueType, HubType, HcType,
                                        PlacesAgree, Closes, StartUp, NoLostChange
<1> QED BY <1>4, <1>5, <1>6, <1>7, <1>8, <1>9 DEF QueryModuleDevices

-----------------------------------------------------------------------------
(* Requests: a status change in the queue stays there.                     *)
LEMMA RequestsKeepHub ==
  ASSUME HubInv, ProcessEvents \/ MainClosed
  PROVE  HubInv'
<1>1. CASE MainClosed
  <2>1. /\ main.at = "closed" /\ main' = [main EXCEPT !.at = "receive", !.req = NULL]
        /\ UNCHANGED <<worker, queue, hub, hc, serving>>
    BY <1>1 DEF MainClosed, MainAt
  <2>2. MainType' /\ main'.at = "receive" /\ main'.req = NULL
    BY <2>1 DEF HubInv, OhciType, MainType, Place
  <2>3. OhciType' /\ PlacesAgree'
    BY <2>1, <2>2 DEF HubInv, OhciType, WorkerType, QueueType, HubType, HcType, PlacesAgree, Closes, StartUp
  <2>4. NoLostChange'
    BY <2>1, OnItsWay DEF HubInv, ToLookAt
  <2> QED BY <2>3, <2>4 DEF HubInv
<1>2. ASSUME NEW r \in Request, Receives(r), UNCHANGED <<worker, serving>>,
             HubType', HcType', hc.rhsc => hc'.rhsc, \A p \in Port : hub'[p].fresh = hub[p].fresh,
             UNCHANGED main \/ main' = [main EXCEPT !.at = "sleep", !.then = "closed", !.req = r]
      PROVE  HubInv'
  <2>1. /\ queue # << >> /\ Head(queue) = r /\ queue' = Tail(queue) /\ main.at = "receive"
        /\ r # StatusChange /\ r # NULL
    BY <1>2, RequestAssumption DEF Receives, MainAt
  <2>2. QueueType' /\ (StatusChange \in ToSet(queue) => StatusChange \in ToSet(queue'))
    BY <2>1, TailKeeps DEF HubInv, OhciType, QueueType
  <2>3. MainType' /\ PlacesAgree'
    <3>1. CASE UNCHANGED main
      BY <1>2, <3>1 DEF HubInv, OhciType, MainType, PlacesAgree, Closes
    <3>2. CASE main' = [main EXCEPT !.at = "sleep", !.then = "closed", !.req = r]
      <4>1. MainType' /\ main'.at = "sleep" /\ main'.then = "closed" /\ main'.req = r
        BY <3>2 DEF HubInv, OhciType, MainType, Place
      <4> QED BY <1>2, <2>1, <4>1 DEF HubInv, PlacesAgree, Closes, StartUp
    <3> QED BY <1>2, <3>1, <3>2
  <2>4. OhciType'
    BY <1>2, <2>2, <2>3 DEF HubInv, OhciType, WorkerType
  <2>5. ToLookAt = {}
    BY <2>1 DEF ToLookAt
  <2>6. NoLostChange'
    BY <1>2, <2>2, <2>5, OnItsWay DEF HubInv
  <2> QED BY <2>3, <2>4, <2>6 DEF HubInv
<1>3. ASSUME NEW r \in Request,
             \/ MainOpens(r) \/ MainAnswers(r) \/ MainHook(r) \/ MainCloses(r)
             \/ ProcessControlMessage(r) \/ ProcessInterruptBlockMessage(r) \/ SuspendDevice(r)
      PROVE  HubInv'
  <2>1. /\ Receives(r) /\ UNCHANGED <<worker, hub, hc, serving>>
        /\ UNCHANGED main \/ main' = [main EXCEPT !.at = "sleep", !.then = "closed", !.req = r]
    BY <1>3 DEF MainOpens, MainAnswers, MainHook, MainCloses, ProcessControlMessage,
                ProcessInterruptBlockMessage, SuspendDevice
  <2>2. HubType' /\ HcType'
    BY <2>1 DEF HubInv, OhciType, HubType, HcType
  <2> QED BY <1>2, <2>1, <2>2
<1>4. ASSUME NEW r \in Request, MainSetsPort(r)
      PROVE  HubInv'
  <2>1. Receives(r) /\ UNCHANGED <<main, worker, serving>>
    BY <1>4 DEF MainSetsPort
  <2>2. HubType' /\ HcType' /\ (hc.rhsc => hc'.rhsc) /\ (\A p \in Port : hub'[p].fresh = hub[p].fresh)
    <3>1. CASE UNCHANGED <<hub, hc>>
      BY <3>1 DEF HubInv, OhciType, HubType, HcType
    <3>2. ASSUME NEW p \in Port, hub' = [hub EXCEPT ![p].csc = FALSE], UNCHANGED hc
          PROVE  HubType' /\ HcType' /\ (\A q \in Port : hub'[q].fresh = hub[q].fresh)
      BY <3>2 DEF HubInv, OhciType, HubType, HcType
    <3>3. ASSUME NEW p \in Port, hub' = [hub EXCEPT ![p].prsc = FALSE], UNCHANGED hc
          PROVE  HubType' /\ HcType' /\ (\A q \in Port : hub'[q].fresh = hub[q].fresh)
      BY <3>3 DEF HubInv, OhciType, HubType, HcType
    <3>4. ASSUME NEW p \in Port, StartReset(p)
          PROVE  HubType' /\ HcType' /\ (hc.rhsc => hc'.rhsc) /\ (\A q \in Port : hub'[q].fresh = hub[q].fresh)
      BY <3>4, ResetKeepsFresh DEF HubInv, OhciType
    <3> QED BY <1>4, <3>1, <3>2, <3>3, <3>4 DEF MainSetsPort
  <2> QED BY <1>2, <2>1, <2>2
<1>5. ASSUME NEW r \in Request, ResumeDevice(r)
      PROVE  HubInv'
  <2>1. Receives(r) /\ UNCHANGED <<main, worker, hub, serving>>
    BY <1>5 DEF ResumeDevice
  <2>2. HubType' /\ HcType' /\ (hc.rhsc => hc'.rhsc)
    BY <1>5, <2>1 DEF ResumeDevice, HubInv, OhciType, HubType, HcType
  <2> QED BY <1>2, <2>1, <2>2
<1> QED BY <1>1, <1>3, <1>4, <1>5 DEF ProcessEvents

(* HandleStatusChange and its sleeps: a port is looked at, or still to be. *)
LEMMA LoopKeepsHub ==
  ASSUME HubInv, HandleStatusChange \/ MainWakes \/ MainLooksAtReset
  PROVE  HubInv'
<1>1. MainType /\ WorkerType /\ QueueType /\ HubType /\ HcType /\ serving \in BOOLEAN
      /\ main.port \in Nat \ {0} /\ main.port + 1 \in Nat \ {0}
  BY Moves DEF HubInv, OhciType, MainType
<1>2. ASSUME MainType', HubType', HcType', UNCHANGED <<worker, queue, serving>>,
             PlacesAgree', hc.rhsc => hc'.rhsc,
             \A p \in Port : hub'[p].fresh => hub[p].fresh /\ (p \in ToLookAt => p \in ToLookAt')
      PROVE  HubInv'
  <2>1. NoLostChange'
    BY <1>2, OnItsWay DEF HubInv
  <2> QED BY <1>1, <1>2, <2>1 DEF HubInv, OhciType, WorkerType, QueueType
<1>3. CASE MainStatusChange
  <2>1. /\ main.at = "receive" /\ main.req = NULL /\ GoesTo("port", 1)
        /\ queue # << >> /\ queue' = Tail(queue) /\ hc' = [hc EXCEPT !.masked = TRUE]
        /\ UNCHANGED <<worker, hub, serving>>
    BY <1>3 DEF MainStatusChange, Receives, MainAt, HubInv, PlacesAgree, Closes
  <2>2. MainType' /\ main'.at = "port" /\ main'.port = 1 /\ main'.req = NULL
    BY <1>1, <2>1, Moves, 1 \in Nat \ {0} DEF Place
  <2>3. QueueType' /\ HcType' /\ HubType' /\ WorkerType'
    BY <1>1, <2>1, TailKeeps DEF QueueType, HcType, HubType, WorkerType
  <2>4. PlacesAgree'
    BY <2>1, <2>2 DEF HubInv, PlacesAgree, Closes, StartUp
  <2>5. NoLostChange'
    BY <2>2 DEF NoLostChange, ToLookAt, Port
  <2> QED BY <1>1, <2>1, <2>2, <2>3, <2>4, <2>5 DEF HubInv, OhciType
<1>4. CASE MainLooksAtPort
  <2> DEFINE p == main.port
  <2>1. /\ main.at = "port" /\ main.req = NULL /\ p \in Port
        /\ hub' = [hub EXCEPT ![p].fresh = FALSE]
        /\ GoesTo("port", p + 1) \/ Goes("connection") \/ Goes("acknowledge")
        /\ UNCHANGED <<worker, queue, hc, serving>>
    BY <1>4 DEF MainLooksAtPort, MainAt, HubInv, PlacesAgree, Closes
  <2>2. HubType' /\ \A q \in Port : hub'[q].fresh => hub[q].fresh /\ q # p
    BY <1>1, <2>1 DEF HubType
  <2>3. MainType' /\ main'.req = NULL
        /\ \/ main'.at = "port" /\ main'.port = p + 1
           \/ main'.at \in {"connection", "acknowledge"} /\ main'.port = p
    BY <1>1, <2>1, Moves DEF Place, Loop
  <2>4. PlacesAgree'
    BY <2>1, <2>2, <2>3 DEF HubInv, PlacesAgree, Closes, StartUp
  <2>5. ToLookAt = p..Ports /\ ToLookAt' = (p + 1)..Ports
    BY <2>1, <2>3 DEF ToLookAt
  <2>6. \A q \in Port : q # p /\ q \in p..Ports => q \in (p + 1)..Ports
    BY <1>1, PortsAssumption DEF Port
  <2> QED BY <1>1, <1>2, <2>1, <2>2, <2>3, <2>4, <2>5, <2>6 DEF HcType
<1>5. CASE MainConnection
  <2>1. /\ main.at = "connection" /\ main.port \in Port /\ main.req = NULL
        /\ ResetDevice /\ UNCHANGED <<worker, queue, serving>>
    BY <1>5 DEF MainConnection, MainAt, HubInv, PlacesAgree, Closes
  <2> QED BY <2>1, ResetsKeepHub
<1>6. CASE MainAcknowledges
  <2>1. /\ main.at = "acknowledge" /\ main.req = NULL /\ GoesTo("port", main.port + 1)
        /\ UNCHANGED <<worker, queue, hub, hc, serving>>
    BY <1>6 DEF MainAcknowledges, MainAt, HubInv, PlacesAgree, Closes
  <2>2. MainType' /\ main'.req = NULL /\ main'.at = "port" /\ main'.port = main.port + 1
    BY <1>1, <2>1, Moves DEF Place
  <2>3. PlacesAgree'
    BY <2>1, <2>2 DEF HubInv, PlacesAgree, Closes, StartUp
  <2>4. ToLookAt' = ToLookAt
    BY <2>1, <2>2 DEF ToLookAt
  <2> QED BY <1>1, <1>2, <2>1, <2>2, <2>3, <2>4 DEF HubType, HcType
<1>7. CASE MainUnmasks
  <2>1. /\ main.at = "port" /\ main.req = NULL /\ main.port \notin Port /\ GoesTo("receive", 1)
        /\ hc' = [hc EXCEPT !.masked = FALSE]
        /\ UNCHANGED <<worker, queue, hub, serving>>
    BY <1>7 DEF MainUnmasks, MainAt, HubInv, PlacesAgree, Closes
  <2>2. MainType' /\ main'.req = NULL /\ main'.at = "receive"
    BY <1>1, <2>1, Moves, 1 \in Nat \ {0} DEF Place
  <2>3. PlacesAgree'
    BY <2>1, <2>2 DEF HubInv, PlacesAgree, Closes, StartUp
  <2>4. ToLookAt = main.port..Ports /\ HcType' /\ hc'.rhsc = hc.rhsc
    BY <1>1, <2>1 DEF ToLookAt, HcType
  <2>5. \A q \in Port : q \notin ToLookAt
    BY <1>1, <2>1, <2>4, PortsAssumption DEF Port
  <2> QED BY <1>1, <1>2, <2>1, <2>2, <2>3, <2>4, <2>5 DEF HubType
<1>8. CASE MainWakes
  <2>1. /\ main.at = "sleep" /\ main' = [main EXCEPT !.at = main.then, !.then = "start"]
        /\ UNCHANGED <<worker, queue, hub, hc, serving>>
    BY <1>8 DEF MainWakes, MainAt
  <2>2. MainType' /\ main'.at = main.then /\ main'.port = main.port /\ main'.req = main.req /\ main'.then = "start"
    <3>1. main.then \in Place /\ "start" \in {"start", "query", "reset", "closed"}
      BY <1>1 DEF MainType, Place, StartUp, Loop
    <3> QED BY <1>1, <2>1, <3>1 DEF MainType
  <2>3. main.then \notin {"sleep", "connection"}
    BY <1>1 DEF MainType
  <2>4. PlacesAgree'
    BY <2>1, <2>2, <2>3 DEF HubInv, PlacesAgree, Closes, StartUp
  <2>5. serving => ToLookAt' = ToLookAt
    BY <2>1, <2>2 DEF ToLookAt, HubInv, PlacesAgree, Closes
  <2>6. \A p \in Port : hub[p].fresh => serving
    BY DEF HubInv, PlacesAgree
  <2> QED BY <1>1, <1>2, <2>1, <2>2, <2>4, <2>5, <2>6 DEF HubType, HcType
<1>9. CASE MainLooksAtReset
  <2>1. main.at = "reset" /\ main.req = NULL /\ UNCHANGED <<worker, queue, hc, serving>>
    BY <1>9 DEF MainLooksAtReset, MainAt, HubInv, PlacesAgree, Closes
  <2>2. HubType' /\ \A q \in Port : hub'[q].fresh = hub[q].fresh
    <3>1. CASE UNCHANGED hub
      BY <1>1, <3>1 DEF HubType
    <3>2. CASE hub' = [hub EXCEPT ![main.port].prsc = FALSE]
      BY <1>1, <3>2 DEF HubType
    <3> QED BY <1>9, <3>1, <3>2 DEF MainLooksAtReset
  <2>3. /\ MainType' /\ main'.req = NULL
        /\ \/ ~ serving /\ main'.at \in {"query", "device"}
           \/ serving /\ main'.at = "acknowledge" /\ main'.port = main.port
           \/ main'.at = "sleep" /\ main'.then = "reset" /\ main'.port = main.port
    <3>1. CASE NotReset \/ Goes(IF serving THEN "acknowledge" ELSE "device")
      BY <1>1, <2>1, <3>1, Moves DEF NotReset, Place, Loop, StartUp
    <3>2. CASE main.tries # 0 /\ main' = [main EXCEPT !.at = "sleep", !.then = "reset", !.tries = @ - 1]
      <4>1. main.tries \in Nat /\ main.tries - 1 \in Nat /\ "sleep" \in Place
        BY <1>1, <3>2 DEF MainType, Place
      <4> QED BY <1>1, <2>1, <3>2, <4>1 DEF MainType
    <3> QED BY <1>9, <3>1, <3>2 DEF MainLooksAtReset
  <2>4. PlacesAgree'
    BY <2>1, <2>2, <2>3 DEF HubInv, PlacesAgree, Closes, StartUp
  <2>5. serving => ToLookAt' = ToLookAt
    BY <2>1, <2>3 DEF ToLookAt
  <2>6. \A p \in Port : hub[p].fresh => serving
    BY DEF HubInv, PlacesAgree
  <2> QED BY <1>1, <1>2, <2>1, <2>2, <2>3, <2>4, <2>5, <2>6 DEF HcType
<1> QED BY <1>3, <1>4, <1>5, <1>6, <1>7, <1>8, <1>9 DEF HandleStatusChange

-----------------------------------------------------------------------------
(* A connection or removal that main has not looked at is pending in the   *)
(* controller, with the worker, on the device queue or at a port that main *)
(* comes to, for any ports, requests, queue and attempts.                  *)
THEOREM NoChangeIsLost == Spec => []NoLostChange
<1>1. Init => HubInv
  BY InitHub
<1>2. HubInv /\ [Next]_vars => HubInv'
  <2> SUFFICES ASSUME HubInv, [Next]_vars PROVE HubInv'
    OBVIOUS
  <2>1. CASE UNCHANGED vars
    BY <2>1 DEF vars, HubInv, OhciType, MainType, WorkerType, QueueType, HubType, HcType, PlacesAgree, Closes, NoLostChange, ToLookAt
  <2>2. CASE Next
    BY <2>2, EnvironmentKeepsHub, WorkerKeepsHub, StartUpKeepsHub, RequestsKeepHub, LoopKeepsHub
       DEF Next, MainThread
  <2> QED BY <2>1, <2>2
<1>3. HubInv => NoLostChange
  BY DEF HubInv
<1> QED BY <1>1, <1>2, <1>3, PTL DEF Spec
=============================================================================
