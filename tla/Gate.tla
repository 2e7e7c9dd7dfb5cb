-------------------------------- MODULE Gate --------------------------------
(***************************************************************************)
(* The visitor gate of one organization,                                   *)
(* src/src/modules/visitors/visitors.service.ts: guards check members,     *)
(* visitors and vehicles in and out, online one by one or in batches a     *)
(* device collected offline and may send again. Nothing but the            *)
(* idempotency key is unique in the database.                              *)
(***************************************************************************)
EXTENDS Requests

CONSTANTS Guests, Vehicles,
          NoOne, NoVehicle   \* no member; 'walk-in', 'none', ...

Arrivals == [key : STRING, m : Guests \union {NoOne}, vehicle : Vehicles \union {NoVehicle}]
VisitorEntries == [key : STRING, m : Guests \union {NoOne}, vehicle : Vehicles \union {NoVehicle},
                   out : BOOLEAN]

\* A batch is not empty; the entries that exist have unique keys, and nobody
\* is inside twice.
ASSUME GateAssumption ==
    /\ Guests \intersect Vehicles = {} /\ {NoOne, NoVehicle} \intersect (Guests \union Vehicles) = {}
    /\ \A c \in Calls : Input[c].op = "checkIn" =>
           Input[c].entries \in Seq(Arrivals) /\ Input[c].entries # <<>>
    /\ \A w \in Scenarios :
           /\ IsFiniteSet(w.entries) /\ w.entries \subseteq VisitorEntries
           /\ \A e, f \in w.entries : e # f =>
                  /\ e.key # f.key
                  /\ ~e.out /\ ~f.out => {e.m, e.vehicle} \intersect {f.m, f.vehicle}
                                              \subseteq {NoOne, NoVehicle}

VARIABLES entries,    \* visitor entries: key, member, vehicle, checkOutAt set
          answers,    \* answers[c]: what c was told of each of its entries
          crowded     \* history: members and vehicles with two check-ins at once

gateVars == <<entries, answers, crowded>>

GateInit(w) ==
    /\ entries = w.entries
    /\ answers = [c \in Come |-> <<>>]
    /\ crowded = {}

Inside == {e \in entries : ~e.out}

\* The entry of a batch that c is at; it was told of those before.
AtGate(c) == sent[c].entries[Len(answers[c]) + 1]
GateCalls == {c \in Come : Op(c) = "checkIn"}
Who(e) == {e.m, e.vehicle} \ {NoOne, NoVehicle}
Checking(c) == IF pc[c] \in {"start", "member", "vehicle", "create"} /\ c \in GateCalls
               THEN Who(AtGate(c)) ELSE {}

\* c is told; a batch goes on with its next entry, whatever became of this one.
Answer(c, word) ==
    /\ answers' = [answers EXCEPT ![c] = Append(@, word)]
    /\ Goto(c, IF Len(answers[c]) + 1 < Len(sent[c].entries) THEN "start"
               ELSE IF word = "error" /\ Len(sent[c].entries) = 1 THEN "refused" ELSE "done")

-----------------------------------------------------------------------------
(* checkIn, syncOfflineEntries *)

\* A key that is known returns the original entry.
GateKey(c) ==
    LET e == AtGate(c)
        rivals == UNION {Checking(d) : d \in {x \in Come \ {c} : pc[x] # "start"}}
    IN
    /\ pc[c] = "start"
    /\ \/ (\E x \in entries : x.key = e.key) /\ Answer(c, "replayed")
       \/ (\A x \in entries : x.key # e.key) /\ Goto(c, "member") /\ UNCHANGED answers
    /\ crowded' = crowded \union (Who(e) \intersect rivals)
    /\ Forget /\ UNCHANGED entries

IsInside(c) == \E x \in Inside : x.m = AtGate(c).m /\ x.m # NoOne

GateMember(c) ==
    /\ pc[c] = "member"
    /\ \/ IsInside(c) /\ Answer(c, "error")
       \/ ~IsInside(c) /\ Goto(c, "vehicle") /\ UNCHANGED answers
    /\ Forget /\ UNCHANGED <<entries, crowded>>

\* Mutation: the vehicle is looked up among those that have left.
VehicleLeft(c) == \E x \in entries \ Inside : x.vehicle = AtGate(c).vehicle
                                              /\ x.vehicle # NoVehicle

VehicleInside(c) == \E x \in Inside : x.vehicle = AtGate(c).vehicle
                                      /\ x.vehicle # NoVehicle

GateVehicle(c) ==
    /\ pc[c] = "vehicle"
    /\ \/ VehicleInside(c) /\ Answer(c, "error")
       \/ ~VehicleInside(c) /\ Goto(c, "create") /\ UNCHANGED answers
    /\ Forget /\ UNCHANGED <<entries, crowded>>

\* Mutation: an entry whose key appeared meanwhile counts as created.
GateUpsert(c) ==
    LET e == AtGate(c) IN
    /\ pc[c] = "create"
    /\ entries' = IF \E x \in entries : x.key = e.key THEN entries ELSE entries \union
           {[key |-> e.key, m |-> e.m, vehicle |-> e.vehicle, out |-> FALSE]}
    /\ Answer(c, "ok")
    /\ Forget /\ UNCHANGED crowded

\* The transaction of the id and the entry; the key is unique.
GateCreate(c) ==
    LET e == AtGate(c) IN
    /\ pc[c] = "create"
    /\ \/ /\ \E x \in entries : x.key = e.key
          /\ Answer(c, "error")
          /\ UNCHANGED entries
       \/ /\ \A x \in entries : x.key # e.key
          /\ entries' = entries \union
                 {[key |-> e.key, m |-> e.m, vehicle |-> e.vehicle, out |-> FALSE]}
          /\ Answer(c, "ok")
    /\ Forget /\ UNCHANGED crowded

-----------------------------------------------------------------------------
(* checkOut *)

CheckOutRead(c) ==
    /\ Move(c, "start", IF \E x \in Inside : x.key = sent[c].key THEN "leave" ELSE "refused")
    /\ Forget /\ UNCHANGED gateVars

CheckOutWrite(c) ==
    /\ Move(c, "leave", "done")
    /\ entries' = {IF x.key = sent[c].key THEN [x EXCEPT !.out = TRUE] ELSE x : x \in entries}
    /\ Forget /\ UNCHANGED <<answers, crowded>>

GateRequest(c) ==
    \/ /\ Op(c) = "checkIn"
       /\ GateKey(c) \/ GateMember(c) \/ GateVehicle(c) \/ GateCreate(c)
    \/ Op(c) = "checkOut" /\ (CheckOutRead(c) \/ CheckOutWrite(c))

-----------------------------------------------------------------------------
(* Properties *)

\* visitorAnalytics: how many are inside, and how many vehicles.
VehiclesCurrentlyInside == Cardinality({e \in Inside : e.vehicle # NoVehicle})

GateTypeOK ==
    /\ \A e, f \in entries : e.key = f.key => e = f
    /\ \A c \in Come : \A i \in DOMAIN answers[c] :
           answers[c][i] \in {"ok", "replayed", "error"}
    /\ VehiclesCurrentlyInside <= Cardinality(Inside)

\* visitors.service.ts:14-15, 81-98: a member or a vehicle has one entry it has
\* not left, unless two check-ins of it were under way at the same time: late
\* batches, batches sent again and repeated check-outs do not add another.
OneActiveEntry ==
    \A e, f \in Inside :
        e # f => Who(e) \intersect Who(f) \subseteq crowded

\* visitors.service.ts:11-13, 71-73, 183: what a device was told is safe is in
\* the database, once: an entry answered "ok" was created by this very answer
\* or is answered "replayed" to every other batch that holds it.
SyncedOnce ==
    \A c \in GateCalls, d \in GateCalls :
        \A i \in DOMAIN answers[c], j \in DOMAIN answers[d] :
            LET e == sent[c].entries[i]  f == sent[d].entries[j] IN
            /\ answers[c][i] # "error" => \E x \in entries : x.key = e.key
            /\ e.key = f.key /\ answers[c][i] = "ok" /\ answers[d][j] = "ok"
                   => c = d /\ i = j
=============================================================================
