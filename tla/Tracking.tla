------------------------------ MODULE Tracking ------------------------------
(***************************************************************************)
(* The monks on their way: tracking devices and alerts,                    *)
(* src/src/modules/devices and alerts; routes of stops and the journeys on *)
(* them, tracking; the entries made by hand, manualTracking. Devices, SIM  *)
(* cards, alerts, routes, journeys and entries are named by the call that  *)
(* makes them; a stop is the mark it carries. "signal" is what a device    *)
(* last reported: none, ok, low (battery), silent (too long ago).          *)
(***************************************************************************)
EXTENDS Accounts, SequencesExt

VARIABLES devices,   \* device -> monk, signal, SIM cards that expire in a week
          alerts,    \* rows: type, monk, device, row, resolved
          routes,    \* route -> monk, stops; no call deletes a route
          journeys,  \* journey -> route, at (current stop, from 1), over
          events,    \* journey events: <<journey, type, call>>
          told,      \* calls whose followers and feed heard of it
          entries,   \* manual entries: their station, deleted
          blurred    \* history: routes whose events overlapped, or that were edited

watchVars == <<devices, alerts>>
people == <<accountVars, adminVars>>

WatchInit(w) == devices = w.gear /\ alerts = {}

Signals == {"none", "ok", "low", "silent"}
\* The devices of the start are finitely many, and have the columns of one.
ASSUME WatchAssumption ==
    \A w \in Scenarios :
        /\ IsFiniteSet(DOMAIN w.gear)
        /\ \A d \in DOMAIN w.gear : /\ DOMAIN w.gear[d] = {"monk", "signal", "sims"}
                                    /\ w.gear[d].signal \in Signals /\ IsFiniteSet(w.gear[d].sims)

Alert(type, monk, device) == [type |-> type, monk |-> monk, device |-> device]
Unresolved(a) == {x \in alerts : /\ ~x.resolved /\ x.type = a.type
                                 /\ x.monk = a.monk /\ x.device = a.device}

-----------------------------------------------------------------------------
(* raiseAlert, for each alert a call has to raise. An alert that gives a key *)
(* (any but SOS) is not raised while one of its type, monk and device is     *)
(* unresolved; the key itself is not compared.                               *)

RaiseFind(c) ==
    /\ pc[c] = "raise"
    /\ IF saw[c].todo = <<>> THEN Goto(c, "done") /\ Forget
       ELSE IF Head(saw[c].todo).type # "SOS" /\ Unresolved(Head(saw[c].todo)) # {}
            THEN Goto(c, "raise") /\ Keep(c, [todo |-> Tail(saw[c].todo)])
       ELSE Goto(c, "alert") /\ Forget
    /\ UNCHANGED <<people, watchVars>>

RaiseWrite(c) ==
    /\ Move(c, "alert", "raise")
    /\ alerts' = alerts \union
           {Updated(Head(saw[c].todo), [row |-> <<c, Len(saw[c].todo)>>, resolved |-> FALSE])}
    /\ Keep(c, [todo |-> Tail(saw[c].todo)])
    /\ UNCHANGED <<people, devices>>

Raise(c) == RaiseFind(c) \/ RaiseWrite(c)

\* raiseSosAlert.
Sos(c) ==
    /\ Permit(c, None, "TRACKING", "EDIT", "raise")
    /\ Keep(c, [todo |-> <<Alert("SOS", sent[c].monk, None)>>])
    /\ UNCHANGED <<people, watchVars>>

\* resolveAlert, listAlerts: who may see the alerts may resolve them.
Resolve(c) ==
    LET mine == {x \in alerts : x.row[1] = sent[c].alert} IN
    /\ Permit(c, None, "ALERTS", "VIEW", IF mine = {} THEN "failed" ELSE "done")
    /\ alerts' = IF pc'[c] # "done" THEN alerts
                 ELSE (alerts \ mine) \union {[x EXCEPT !.resolved = TRUE] : x \in mine}
    /\ Forget /\ UNCHANGED <<people, devices>>

ListAlerts(c) ==
    /\ Permit(c, None, "ALERTS", "VIEW", "done")
    /\ Keep(c, [alerts |-> alerts])
    /\ UNCHANGED <<people, watchVars>>

-----------------------------------------------------------------------------
(* runDeviceAlertSweep: one read of all devices, then alert by alert. A      *)
(* SIM's warning is of type OFFLINE too, and names no monk.                  *)

Wanted(d) ==
    (CASE devices[d].signal = "silent" -> <<Alert("OFFLINE", devices[d].monk, d)>>
       [] devices[d].signal = "low"    -> <<Alert("LOW_BATTERY", devices[d].monk, d)>>
       [] OTHER                        -> <<>>)
    \o [i \in 1 .. Cardinality(devices[d].sims) |-> Alert("OFFLINE", None, d)]

SweepRead(c) ==
    /\ Move(c, "start", "raise")
    /\ \E order \in SetToSeqs(DOMAIN devices) :
           Keep(c, [todo |-> FlattenSeq([i \in DOMAIN order |-> Wanted(order[i])])])
    /\ UNCHANGED <<people, watchVars>>

-----------------------------------------------------------------------------
(* ingestLocationPing (any signed-in account), registerDevice, assignDevice, *)
(* addSimRecord, listDevices                                                 *)

PingRead(c) ==
    /\ Authenticate(c, IF sent[c].device \in DOMAIN devices THEN "ping" ELSE "refused")
    /\ Forget /\ UNCHANGED <<people, watchVars>>

PingWrite(c) ==
    /\ Move(c, "ping", "done")
    /\ devices' = [devices EXCEPT ![sent[c].device].signal = IF sent[c].low THEN "low" ELSE "ok"]
    /\ Forget /\ UNCHANGED <<people, alerts>>

\* No ping for longer than the threshold.
FallsSilent == \E d \in DOMAIN devices :
    /\ devices[d].signal = "ok"
    /\ devices' = [devices EXCEPT ![d].signal = "silent"]
    /\ UNCHANGED <<people, alerts>>

RegisterDevice(c) ==
    /\ Permit(c, None, "DEVICES", "CREATE", "done")
    /\ devices' = IF pc'[c] # "done" THEN devices
                  ELSE Put(devices, c, [monk |-> sent[c].monk, signal |-> "none", sims |-> {}])
    /\ Forget /\ UNCHANGED <<people, alerts>>

DeviceRead(c) ==
    /\ Permit(c, None, "DEVICES", "EDIT", IF sent[c].device \in DOMAIN devices THEN "write"
                                          ELSE IF Op(c) = "sim" THEN "failed" ELSE "refused")
    /\ Forget /\ UNCHANGED <<people, watchVars>>

DeviceWrite(c) ==
    LET row == devices[sent[c].device] IN
    /\ Move(c, "write", "done")
    /\ devices' = [devices EXCEPT ![sent[c].device] =
           IF Op(c) = "assignDevice" THEN [row EXCEPT !.monk = sent[c].monk]
           ELSE [row EXCEPT !.sims = row.sims \union {c}]]
    /\ Forget /\ UNCHANGED <<people, alerts>>

ListDevices(c) ==
    /\ Permit(c, None, "DEVICES", "VIEW", "done")
    /\ Keep(c, [devices |-> devices])
    /\ UNCHANGED <<people, watchVars>>

WatchStep(c) ==
    \/ Op(c) = "sos" /\ (Sos(c) \/ Raise(c))
    \/ Op(c) = "sweep" /\ (SweepRead(c) \/ Raise(c))
    \/ Op(c) = "resolve" /\ Resolve(c)
    \/ Op(c) = "alerts" /\ ListAlerts(c)
    \/ Op(c) = "ping" /\ (PingRead(c) \/ PingWrite(c))
    \/ Op(c) = "device" /\ RegisterDevice(c)
    \/ Op(c) \in {"assignDevice", "sim"} /\ (DeviceRead(c) \/ DeviceWrite(c))
    \/ Op(c) = "devices" /\ ListDevices(c)

WatchTypeOK ==
    /\ \A d \in DOMAIN devices : devices[d].signal \in Signals
    /\ \A x \in alerts : /\ x.type \in {"SOS", "OFFLINE", "LOW_BATTERY", "ROUTE_DELAY"}
                         /\ x.device \in DOMAIN devices \union {None}

-----------------------------------------------------------------------------
(* Routes and journeys *)

viharVars == <<routes, journeys, events, told, entries, blurred>>
StopMarks == {"PENDING", "COMPLETED", "DELAYED", "NONE"}

\* The routes of the start have stops and no name that a call may give; a
\* body names its number of stops.
ASSUME TrackingAssumption ==
    /\ \A w \in Scenarios :
           /\ w.routes = [r \in DOMAIN w.routes |-> w.routes[r]] /\ DOMAIN w.routes \intersect Calls = {}
           /\ \A r \in DOMAIN w.routes : /\ "stops" \in DOMAIN w.routes[r]
                                        /\ w.routes[r].stops \in Seq(StopMarks)
    /\ \A c \in Calls : Input[c].op \in {"route", "routeEdit"} => Input[c].stops \in Nat

ViharInit(w) == /\ routes = w.routes /\ journeys = <<>> /\ events = {}
                /\ told = {} /\ entries = <<>> /\ blurred = {}

J(c) == sent[c].journey
RouteOf(j) == journeys[j].route

-----------------------------------------------------------------------------
(* createRoute, updateRoute: the stops of an edit carry no mark *)

CreateRoute(c) ==
    /\ Permit(c, None, "TRACKING", "CREATE", "done")
    /\ routes' = IF pc'[c] # "done" THEN routes
                 ELSE Put(routes, c, [monk |-> sent[c].monk,
                                 stops |-> [i \in 1 .. sent[c].stops |-> "PENDING"]])
    /\ Forget /\ UNCHANGED <<people, watchVars, journeys, events, told, entries, blurred>>

RouteRead(c) ==
    /\ Permit(c, None, "TRACKING", IF Op(c) = "journey" THEN "CREATE" ELSE "EDIT",
              IF sent[c].route \notin DOMAIN routes THEN "refused"
              ELSE IF Op(c) = "journey" THEN "find" ELSE "write")
    /\ Forget /\ UNCHANGED <<people, watchVars, viharVars>>

RouteWrite(c) ==
    /\ Move(c, "write", "done")
    /\ routes' = [routes EXCEPT ![sent[c].route].stops = [i \in 1 .. sent[c].stops |-> "NONE"]]
    /\ blurred' = blurred \union {sent[c].route}
    /\ Forget /\ UNCHANGED <<people, watchVars, journeys, events, told, entries>>

-----------------------------------------------------------------------------
(* startJourney: one journey of a route at a time, looked for and then made  *)

JourneyFind(c) ==
    LET under == {j \in DOMAIN journeys : RouteOf(j) = sent[c].route /\ ~journeys[j].over} IN
    /\ Move(c, "find", IF under # {} THEN "refused" ELSE "create")
    /\ Forget /\ UNCHANGED <<people, watchVars, viharVars>>

JourneyCreate(c) ==
    LET r == sent[c].route  before == {j \in DOMAIN journeys : RouteOf(j) = r} IN
    /\ Move(c, "create", "tell")
    /\ journeys' = Put(journeys, c, [route |-> r, at |-> 1, over |-> FALSE])
    /\ blurred' = IF before # {} THEN blurred \union {r} ELSE blurred
    /\ Forget /\ UNCHANGED <<people, watchVars, routes, events, told, entries>>

\* notifyMonkFollowers, createAutoFeedCard: after the rows.
JourneyTell(c) ==
    /\ Move(c, "tell", "done")
    /\ told' = told \union {c}
    /\ Forget /\ UNCHANGED <<people, watchVars, routes, journeys, events, entries, blurred>>

-----------------------------------------------------------------------------
(* recordJourneyEvent: journey and route are read once; an arrival completes *)
(* the stop read, writes all stops back, and then moves the journey on, or   *)
(* ends it; a delay marks the stop and raises an alert. Nothing asks whether *)
(* the journey is over.                                                      *)

EventRead(c) ==
    /\ Permit(c, None, "TRACKING", "EDIT", IF J(c) \in DOMAIN journeys THEN "event" ELSE "refused")
    /\ IF J(c) \in DOMAIN journeys
       THEN LET r == RouteOf(J(c)) IN
            /\ Keep(c, [route |-> r, at |-> journeys[J(c)].at, stops |-> routes[r].stops])
            /\ blurred' = IF \E d \in Open \ {c} : Op(d) = "event" /\ saw[d] # <<>> /\ saw[d].route = r
                          THEN blurred \union {r} ELSE blurred
       ELSE Forget /\ UNCHANGED blurred
    /\ UNCHANGED <<people, watchVars, routes, journeys, events, told, entries>>

EventCreate(c) ==
    /\ Move(c, "event", IF sent[c].type \in {"ARRIVAL", "DELAY"} THEN "stops" ELSE "done")
    /\ events' = events \union {<<J(c), sent[c].type, c>>}
    /\ Forget /\ UNCHANGED <<people, watchVars, routes, journeys, told, entries, blurred>>

Marked(c, mark) == [i \in DOMAIN saw[c].stops |-> IF i = saw[c].at THEN mark ELSE saw[c].stops[i]]
MoveOn(c) == [journeys EXCEPT ![J(c)] =
                  IF saw[c].at >= Len(saw[c].stops) THEN [@ EXCEPT !.at = saw[c].at, !.over = TRUE]
                  ELSE [@ EXCEPT !.at = saw[c].at + 1]]

\* Mutation: the journey moves on before the stop is marked.
PointerFirst(c) ==
    /\ \/ /\ Move(c, "stops", "pointer")
          /\ journeys' = MoveOn(c) /\ UNCHANGED routes
       \/ /\ Move(c, "pointer", "tell")
          /\ routes' = [routes EXCEPT ![saw[c].route].stops = Marked(c, "COMPLETED")]
          /\ UNCHANGED journeys
    /\ sent[c].type = "ARRIVAL"
    /\ Forget /\ UNCHANGED <<people, watchVars, events, told, entries, blurred>>

Arrival(c) ==
    /\ \/ /\ Move(c, "stops", "pointer")
          /\ routes' = [routes EXCEPT ![saw[c].route].stops = Marked(c, "COMPLETED")]
          /\ UNCHANGED journeys
       \/ /\ Move(c, "pointer", "tell")
          /\ journeys' = MoveOn(c) /\ UNCHANGED routes
    /\ sent[c].type = "ARRIVAL"
    /\ Forget /\ UNCHANGED <<people, watchVars, events, told, entries, blurred>>

Delay(c) ==
    /\ sent[c].type = "DELAY"
    /\ Move(c, "stops", "raise")
    /\ routes' = [routes EXCEPT ![saw[c].route].stops = Marked(c, "DELAYED")]
    /\ Keep(c, [route |-> saw[c].route,
                todo |-> <<Alert("ROUTE_DELAY", routes[saw[c].route].monk, None)>>])
    /\ UNCHANGED <<people, watchVars, journeys, events, told, entries, blurred>>

DelayRaise(c) ==
    LET a == Head(saw[c].todo) IN
    /\ \/ Move(c, "raise", IF Unresolved(a) # {} THEN "done" ELSE "alert") /\ UNCHANGED alerts
       \/ /\ Move(c, "alert", "done")
          /\ alerts' = alerts \union {Updated(a, [row |-> <<c, 1>>, resolved |-> FALSE])}
    /\ Forget /\ UNCHANGED <<people, devices, viharVars>>

-----------------------------------------------------------------------------
(* manualTracking: create, update, delete (a super admin's alone)            *)

EntryCreate(c) ==
    /\ Permit(c, None, "TRACKING", "CREATE", "done")
    /\ entries' = IF pc'[c] # "done" THEN entries
                  ELSE Put(entries, c, [station |-> c, gone |-> FALSE])
    /\ Forget /\ UNCHANGED <<people, watchVars, routes, journeys, events, told, blurred>>

EntryRead(c) ==
    LET e == sent[c].entry  there == IF e \in DOMAIN entries THEN ~entries[e].gone ELSE FALSE IN
    /\ Permit(c, None, "TRACKING", IF Op(c) = "entryEdit" THEN "EDIT" ELSE "DELETE",
              IF there THEN "write" ELSE "refused")
    /\ Forget /\ UNCHANGED <<people, watchVars, viharVars>>

EntryWrite(c) ==
    /\ Move(c, "write", "done")
    /\ entries' = [entries EXCEPT ![sent[c].entry] =
           IF Op(c) = "entryEdit" THEN [@ EXCEPT !.station = c] ELSE [@ EXCEPT !.gone = TRUE]]
    /\ Forget /\ UNCHANGED <<people, watchVars, routes, journeys, events, told, blurred>>

-----------------------------------------------------------------------------
(* What is read: listRoutes, listJourneys, activeJourneys, the timeline, the *)
(* live map (the devices of monks that have reported), the manual entries.   *)

LiveMap == {d \in DOMAIN devices : devices[d].monk # None /\ devices[d].signal # "none"}
TrackingRead(c) ==
    /\ IF Op(c) = "entries" THEN Permit(c, None, "TRACKING", "VIEW", "done")
       ELSE Authenticate(c, IF Op(c) = "timeline" /\ J(c) \notin DOMAIN journeys
                            THEN "refused" ELSE "done")
    /\ Keep(c, [seen |->
           CASE Op(c) = "routes"   -> DOMAIN routes
             [] Op(c) = "journeys" -> DOMAIN journeys
             [] Op(c) = "active"   -> {j \in DOMAIN journeys : ~journeys[j].over}
             [] Op(c) = "timeline" -> {e \in events : e[1] = J(c)}
             [] Op(c) = "liveMap"  -> LiveMap
             [] Op(c) = "entries"  -> {e \in DOMAIN entries : ~entries[e].gone}])
    /\ UNCHANGED <<people, watchVars, viharVars>>

ViharStep(c) ==
    \/ Op(c) = "route" /\ CreateRoute(c)
    \/ Op(c) = "routeEdit" /\ (RouteRead(c) \/ RouteWrite(c))
    \/ Op(c) = "journey" /\ (RouteRead(c) \/ JourneyFind(c) \/ JourneyCreate(c) \/ JourneyTell(c))
    \/ /\ Op(c) = "event"
       /\ EventRead(c) \/ EventCreate(c) \/ Arrival(c) \/ Delay(c) \/ DelayRaise(c) \/ JourneyTell(c)
    \/ Op(c) = "entry" /\ EntryCreate(c)
    \/ Op(c) \in {"entryEdit", "entryDelete"} /\ (EntryRead(c) \/ EntryWrite(c))
    \/ Op(c) \in {"routes", "journeys", "active", "timeline", "liveMap", "entries"} /\ TrackingRead(c)

-----------------------------------------------------------------------------
(* Properties *)

ViharTypeOK ==
    /\ \A r \in DOMAIN routes : \A i \in DOMAIN routes[r].stops :
           routes[r].stops[i] \in StopMarks
    /\ \A j \in DOMAIN journeys : journeys[j].route \in DOMAIN routes /\ journeys[j].at > 0
    /\ \A e \in events : e[1] \in DOMAIN journeys

\* tracking.service.ts:197-209: what a journey has passed is completed, also
\* when a request dies between the two writes, unless events of its route were
\* recorded at once, its stops were edited, or the route was travelled before.
PassedStopsAreCompleted ==
    \A j \in DOMAIN journeys : RouteOf(j) \notin blurred =>
        \A i \in 1 .. journeys[j].at - 1 : routes[RouteOf(j)].stops[i] = "COMPLETED"
=============================================================================
