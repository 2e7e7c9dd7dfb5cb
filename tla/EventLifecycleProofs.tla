------------------------ MODULE EventLifecycleProofs ------------------------
(***************************************************************************)
(* Proofs about EventLifecycle and the RSVPs under it, for every set of    *)
(* members and calls, every capacity and every scenario. The steps of the  *)
(* RSVP calls are one group of cases, everything else in the life of the   *)
(* event, which leaves the rows alone, is another.                         *)
(***************************************************************************)
EXTENDS EventLifecycle, SumProofs

RsvpOps == {"rsvp", "cancelRsvp", "checkIn"}
Labels == {"absent", "start", "begin", "count", "write", "abort", "done", "refused",
           "failed", "dead", "cancel", "sum", "list", "promote", "admit",
           "schedule", "unqueue", "notify", "insert"}

RsvpNext(c) == \/ RsvpStep(c)
               \/ Op(c) = "rsvp" /\ RsvpAbort(c)
               \/ RsvpDie(c)

LifeNext(c) == \/ LifeStep(c)
               \/ LifeDie(c) /\ UNCHANGED <<lifeVars, lifeHistory>>

WorkerNext == Tick \/ CompleteRead \/ CompleteWrite

\* A step is one of a call on RSVPs, one of a call on the event, or one of
\* the clock and the worker.
LEMMA Steps ==
  ASSUME Next
  PROVE  \/ \E c \in Calls : RsvpNext(c) /\ UNCHANGED <<lifeVars, lifeHistory>>
         \/ \E c \in Calls : LifeNext(c)
         \/ WorkerNext
  BY DEF Next, CallStep, Fail, Running, RsvpNext, LifeNext, WorkerNext

-----------------------------------------------------------------------------
(* Types *)

RsvpTypes ==
    /\ rsvp \in [Members -> Statuses]
    /\ size \in [Members -> Nat \ {0}]
    /\ pos \in [Members -> Nat]
    /\ \A m \in Members : pos[m] > 0 => rsvp[m] \in {"WAITING_LIST", "CHECKED_IN"}
    /\ eventTx \in RsvpCalls \union {NoTx}
    /\ pc \in [Calls -> Labels]
    /\ was \in [Calls -> Statuses]
    /\ verdict \in [Calls -> Statuses \X Nat]
    /\ \A c \in Calls : verdict[c][2] > 0 => verdict[c][1] = "WAITING_LIST"
    /\ avail \in [Calls -> Int]
    /\ queue \in [Calls -> SUBSET [m : Members, n : Nat, pos : Nat]]
    /\ overlapped \in BOOLEAN
    /\ promoted \subseteq Members

LifeTypes ==
    /\ event \in DOMAIN LIFECYCLE_TRANSITIONS
    /\ job \in {"none", "delayed", "active", "completed"}
    /\ now \in 0 .. LastTick /\ endAt \in 0 .. LastTick /\ dueAt \in 0 .. LastTick
    /\ images \in Nat
    /\ cancelled \in BOOLEAN /\ publishing \in BOOLEAN /\ reopened \in BOOLEAN
    /\ told \subseteq Members /\ late \subseteq Members

\* The statuses of an event.
LEMMA EventStatuses ==
  DOMAIN LIFECYCLE_TRANSITIONS =
      {"DRAFT", "PUBLISHED", "RSVP_SALES_OPEN", "LIVE"} \union Finished
  BY DEF LIFECYCLE_TRANSITIONS

\* The seats of some members are a number of seats.
LEMMA SeatsType ==
  ASSUME RsvpTypes, NEW ms \in SUBSET Members
  PROVE  Seats(ms) \in Nat /\ IsFiniteSet(ms)
  <1>1. IsFiniteSet(ms) /\ \A m \in ms : size[m] \in Nat
    BY RsvpAssumption, FS_Subset DEF RsvpTypes
  <1>2. QED
    BY <1>1, SumType DEF Seats

LEMMA InitTypes == Init => RsvpTypes /\ LifeTypes
  <1> SUFFICES ASSUME Init PROVE RsvpTypes /\ LifeTypes
    OBVIOUS
  <1> USE DEF Init, RsvpInit
  <1>1. PICK w \in Scenarios :
            /\ event = w.event
            /\ rsvp = [m \in Members |-> w.rows[m].s]
            /\ size = [m \in Members |-> w.rows[m].n]
            /\ pos = [m \in Members |-> w.rows[m].pos]
            /\ pc = [c \in Calls |-> IF c \in w.calls THEN "start" ELSE "absent"]
    OBVIOUS
  <1>2. RsvpTypes
    <2>1. /\ rsvp \in [Members -> Statuses]
          /\ size \in [Members -> Nat \ {0}]
          /\ pos \in [Members -> Nat]
          /\ \A m \in Members : pos[m] > 0 => rsvp[m] \in {"WAITING_LIST", "CHECKED_IN"}
      BY <1>1, ScenarioAssumption
    <2>2. verdict = [c \in Calls |-> <<"none", 0>>] /\ was = [c \in Calls |-> "none"]
      OBVIOUS
    <2>3. /\ verdict \in [Calls -> Statuses \X Nat]
          /\ was \in [Calls -> Statuses]
          /\ \A c \in Calls : verdict[c][2] > 0 => verdict[c][1] = "WAITING_LIST"
      BY <2>2 DEF Statuses
    <2>4. avail \in [Calls -> Int] /\ queue \in [Calls -> SUBSET [m : Members, n : Nat, pos : Nat]]
      OBVIOUS
    <2>5. eventTx = NoTx /\ overlapped = FALSE /\ promoted = {}
      OBVIOUS
    <2>6. pc \in [Calls -> Labels]
      BY <1>1 DEF Labels
    <2>7. QED
      BY <2>1, <2>3, <2>4, <2>5, <2>6 DEF RsvpTypes
  <1>3. LifeTypes
    <2>1. event \in DOMAIN LIFECYCLE_TRANSITIONS
      BY <1>1, LifeAssumption
    <2>2. LastTick \in Nat \ {0}
      BY LifeAssumption
    <2>3. now \in 0 .. LastTick /\ endAt \in 0 .. LastTick /\ dueAt \in 0 .. LastTick
      BY <2>2
    <2>4. images \in Nat
      OBVIOUS
    <2>5. /\ cancelled \in BOOLEAN /\ publishing \in BOOLEAN /\ reopened \in BOOLEAN
          /\ job \in {"none", "delayed", "active", "completed"}
          /\ told \subseteq Members /\ late \subseteq Members
      OBVIOUS
    <2>6. QED
      BY <2>1, <2>3, <2>4, <2>5 DEF LifeTypes
  <1>4. QED
    BY <1>2, <1>3

\* What any step that is not of a call on RSVPs does to the RSVPs: nothing.
Elsewhere ==
    /\ UNCHANGED rsvpVars
    /\ pc' \in [Calls -> Labels]
    /\ \A c \in Calls : Op(c) \in RsvpOps \/ pc[c] = "dead" => pc'[c] = pc[c]

LEMMA LifeElsewhere ==
  ASSUME RsvpTypes, NEW c \in Calls, LifeNext(c)
  PROVE  Elsewhere
  <1> USE DEF Elsewhere, RsvpTypes, Labels, Move, Goto, RsvpOps
  <1>1. CASE Op(c) = "transition" /\ LifeStep(c)
    BY <1>1 DEF LifeStep, TransitionRead, TransitionWrite, TransitionSchedule
  <1>2. CASE Op(c) = "cancelEvent" /\ LifeStep(c)
    BY <1>2 DEF LifeStep, CancelEventRead, CancelEventWrite, CancelEventUnqueue,
                CancelEventNotify
  <1>3. CASE Op(c) = "gallery" /\ LifeStep(c)
    BY <1>3 DEF LifeStep, GalleryRead, GalleryInsert, GalleryWrite
  <1>4. CASE Op(c) = "update" /\ LifeStep(c)
    BY <1>4 DEF LifeStep, UpdateRead, UpdateWrite
  <1>5. CASE LifeDie(c)
    BY <1>5 DEF LifeDie
  <1>6. QED
    BY <1>1, <1>2, <1>3, <1>4, <1>5 DEF LifeNext, LifeStep

LEMMA WorkerElsewhere ==
  ASSUME RsvpTypes, WorkerNext
  PROVE  Elsewhere
  BY DEF Elsewhere, RsvpTypes, WorkerNext, Tick, CompleteRead, CompleteWrite

\* Every step of a call on RSVPs keeps the types of its rows.
LEMMA RsvpTypesStep ==
  ASSUME RsvpTypes, NEW c \in Calls, RsvpNext(c)
  PROVE  RsvpTypes'
  <1> USE DEF RsvpTypes, Labels, Statuses, Move, Goto, rowVars, localVars, historyVars,
              rsvpVars
  <1>1. CASE Op(c) = "rsvp" /\ RsvpStep(c)
    <2>0. By(c) \in Members /\ Input[c].n \in Nat \ {0} /\ c \in RsvpCalls
      BY <1>1, RsvpAssumption DEF RsvpCalls, CallsOf
    <2>1. CASE RsvpRead(c)
      BY <2>0, <2>1 DEF RsvpRead
    <2>2. CASE RsvpLock(c)
      BY <2>0, <2>2 DEF RsvpLock
    <2>3. CASE RsvpCount(c)
      <3>1. Cardinality(With("WAITING_LIST")) \in Nat
        <4>1. With("WAITING_LIST") \subseteq Members
          BY DEF With
        <4>2. QED
          BY <4>1, RsvpAssumption, FS_Subset, FS_CardinalityType
      <3> DEFINE full == Capacity > 0 /\ Confirmed + Input[c].n > Capacity
                 v == IF full THEN <<"WAITING_LIST", Cardinality(With("WAITING_LIST")) + 1>>
                              ELSE <<"CONFIRMED", 0>>
      <3>2. v \in Statuses \X Nat /\ (v[2] > 0 => v[1] = "WAITING_LIST")
        BY <3>1
      <3>3. /\ verdict' = [verdict EXCEPT ![c] = v]
            /\ \E l \in Labels : pc' = [pc EXCEPT ![c] = l]
            /\ UNCHANGED <<rowVars, eventTx, was, avail, queue, historyVars>>
        BY <2>3 DEF RsvpCount
      <3> HIDE DEF v
      <3>4. QED
        BY <3>2, <3>3
    <2>4. CASE RsvpWrite(c)
      BY <2>0, <2>4 DEF RsvpWrite, Unlock
    <2>5. QED
      BY <1>1, <2>1, <2>2, <2>3, <2>4 DEF RsvpStep
  <1>2. CASE Op(c) = "cancelRsvp" /\ RsvpStep(c)
    <2>0. By(c) \in Members
      BY <1>2, RsvpAssumption DEF CancelCalls, CallsOf
    <2>1. CASE CancelRead(c)
      BY <2>0, <2>1 DEF CancelRead
    <2>2. CASE CancelWrite(c)
      BY <2>0, <2>2 DEF CancelWrite
    <2>3. CASE PromoteSum(c)
      <3>1. Confirmed \in Nat
        BY SeatsType DEF Confirmed, With
      <3>2. Capacity - Confirmed \in Int
        BY <3>1, RsvpAssumption
      <3>3. QED
        BY <2>3, <3>2 DEF PromoteSum
    <2>4. CASE PromoteList(c)
      BY <2>4 DEF PromoteList, With
    <2>5. CASE PromoteSkip(c)
      BY <2>5 DEF PromoteSkip, Heads
    <2>6. CASE PromoteNext(c)
      <3>1. PICK w \in queue[c] :
                /\ rsvp' = [rsvp EXCEPT ![w.m] = "CONFIRMED"]
                /\ pos' = [pos EXCEPT ![w.m] = 0]
                /\ avail' = [avail EXCEPT ![c] = @ - w.n]
                /\ queue' = [queue EXCEPT ![c] = @ \ {w}]
                /\ promoted' = promoted \union {w.m}
        BY <2>6 DEF PromoteNext, Heads
      <3>2. w.m \in Members /\ w.n \in Nat
        BY <3>1
      <3>3. UNCHANGED <<size, eventTx, pc, was, verdict, overlapped>>
        BY <2>6 DEF PromoteNext
      <3>4. QED
        BY <3>1, <3>2, <3>3
    <2>7. CASE PromoteEnd(c)
      BY <2>7 DEF PromoteEnd
    <2>8. QED
      BY <1>2, <2>1, <2>2, <2>3, <2>4, <2>5, <2>6, <2>7 DEF RsvpStep
  <1>3. CASE Op(c) = "checkIn" /\ RsvpStep(c)
    <2>0. By(c) \in Members
      BY <1>3, RsvpAssumption DEF CallsOf
    <2>1. QED
      BY <1>3, <2>0 DEF RsvpStep, CheckInRead, CheckInWrite
  <1>4. CASE RsvpAbort(c)
    BY <1>4 DEF RsvpAbort, Unlock
  <1>5. CASE RsvpDie(c)
    BY <1>5 DEF RsvpDie
  <1>6. QED
    BY <1>1, <1>2, <1>3, <1>4, <1>5 DEF RsvpNext, RsvpStep

\* No step of a call on RSVPs touches the event.
LEMMA RsvpLeavesEvent ==
  ASSUME NEW c \in Calls, RsvpNext(c)
  PROVE  UNCHANGED event
  BY DEF RsvpNext, RsvpStep, RsvpRead, RsvpLock, RsvpCount, RsvpWrite, RsvpAbort, CancelRead,
         CancelWrite, PromoteSum, PromoteList, PromoteSkip, PromoteNext, PromoteEnd,
         CheckInRead, CheckInWrite, RsvpDie

\* Every other step keeps the types of the event.
LEMMA LifeTypesStep ==
  ASSUME RsvpTypes, LifeTypes, NEW c \in Calls, LifeNext(c)
  PROVE  LifeTypes'
  <1> USE EventStatuses DEF LifeTypes, lifeVars, clock, lifeHistory
  <1>1. CASE Op(c) = "transition" /\ LifeStep(c)
    <2>0. Input[c].to \in DOMAIN LIFECYCLE_TRANSITIONS
      BY <1>1, LifeAssumption DEF CallsOf
    <2>1. CASE TransitionRead(c)
      BY <2>1 DEF TransitionRead
    <2>2. CASE TransitionWrite(c)
      BY <2>0, <2>2 DEF TransitionWrite, SetEvent
    <2>3. CASE TransitionSchedule(c)
      <3>1. Max({now, endAt}) \in {now, endAt}
        <4>1. \E x \in {now, endAt} : \A y \in {now, endAt} : x >= y
          OBVIOUS
        <4>2. QED
          BY <4>1 DEF Max
      <3>2. Max({now, endAt}) \in 0 .. LastTick
        BY <3>1
      <3>3. QED
        BY <2>3, <3>2 DEF TransitionSchedule
    <2>4. QED
      BY <1>1, <2>1, <2>2, <2>3 DEF LifeStep
  <1>2. CASE Op(c) = "cancelEvent" /\ LifeStep(c)
    <2>1. CASE CancelEventRead(c)
      BY <2>1 DEF CancelEventRead
    <2>2. CASE CancelEventWrite(c)
      <3>1. \A r \in RsvpCalls : By(r) \in Members
        BY RsvpAssumption
      <3>2. QED
        BY <2>2, <3>1 DEF CancelEventWrite, SetEvent, Finished
    <2>3. CASE CancelEventUnqueue(c)
      BY <2>3 DEF CancelEventUnqueue
    <2>4. CASE CancelEventNotify(c)
      <3>1. With("CONFIRMED") \subseteq Members /\ With("WAITING_LIST") \subseteq Members
        BY DEF With
      <3>2. Listed \subseteq Members
        BY DEF Listed, RsvpTypes, CancelCalls, CallsOf
      <3>3. QED
        BY <2>4, <3>1, <3>2 DEF CancelEventNotify
    <2>5. QED
      BY <1>2, <2>1, <2>2, <2>3, <2>4 DEF LifeStep
  <1>3. CASE Op(c) = "gallery" /\ LifeStep(c)
    <2>0. Input[c].n \in Nat
      BY <1>3, LifeAssumption DEF CallsOf
    <2>1. QED
      BY <1>3, <2>0 DEF LifeStep, GalleryRead, GalleryInsert, GalleryWrite, SetEvent, Finished
  <1>4. CASE Op(c) = "update" /\ LifeStep(c)
    <2>0. Input[c].end \in 0 .. LastTick
      BY <1>4, LifeAssumption DEF CallsOf
    <2>1. QED
      BY <1>4, <2>0 DEF LifeStep, UpdateRead, UpdateWrite
  <1>5. CASE LifeDie(c) /\ UNCHANGED <<lifeVars, lifeHistory>>
    BY <1>5 DEF LifeDie
  <1>6. QED
    BY <1>1, <1>2, <1>3, <1>4, <1>5 DEF LifeNext, LifeStep

LEMMA WorkerTypesStep ==
  ASSUME LifeTypes, WorkerNext
  PROVE  LifeTypes'
  BY EventStatuses, LifeAssumption
     DEF LifeTypes, lifeVars, clock, lifeHistory, WorkerNext, Tick, CompleteRead,
         CompleteWrite, SetEvent, Finished

Types == RsvpTypes /\ LifeTypes

LEMMA TypesStep ==
  ASSUME Types, [Next]_vars
  PROVE  Types'
  <1>1. CASE UNCHANGED vars
    BY <1>1 DEF Types, RsvpTypes, LifeTypes, vars, rsvpVars, rowVars, localVars, historyVars,
                lifeVars, clock, lifeHistory
  <1>2. CASE Next
    <2>1. CASE \E c \in Calls : RsvpNext(c) /\ UNCHANGED <<lifeVars, lifeHistory>>
      <3>1. RsvpTypes'
        BY <2>1, RsvpTypesStep DEF Types
      <3>2. LifeTypes'
        BY <2>1, RsvpLeavesEvent DEF Types, LifeTypes, lifeVars, clock, lifeHistory
      <3>3. QED
        BY <3>1, <3>2 DEF Types
    <2>2. CASE (\E c \in Calls : LifeNext(c)) \/ WorkerNext
      <3>1. Elsewhere
        BY <2>2, LifeElsewhere, WorkerElsewhere DEF Types
      <3>2. RsvpTypes'
        BY <3>1 DEF Types, RsvpTypes, Elsewhere, rsvpVars, rowVars, localVars, historyVars
      <3>3. QED
        BY <2>2, <3>2, LifeTypesStep, WorkerTypesStep DEF Types
    <2>3. QED
      BY <1>2, <2>1, <2>2, Steps
  <1>3. QED
    BY <1>1, <1>2

LEMMA AlwaysTypes == Spec => []Types
  <1>1. Init => Types
    BY InitTypes DEF Types
  <1>2. Types /\ [Next]_vars => Types'
    BY TypesStep
  <1>3. QED
    BY <1>1, <1>2, PTL DEF Spec

\* Every variable keeps its type, whatever calls, failures and deaths there
\* are: a position on the waiting list is only left on a row that waits, or
\* that was checked in as it waited.
THEOREM TypeCorrect == Spec => []TypeOK
  <1>1. Types => TypeOK
    BY DEF Types, RsvpTypes, LifeTypes, TypeOK
  <1>2. QED
    BY <1>1, AlwaysTypes, PTL

-----------------------------------------------------------------------------
(* Sums of seats *)

\* A smaller group has no more seats.
LEMMA SeatsSubset ==
  ASSUME RsvpTypes, NEW ms \in SUBSET Members, NEW ns \in SUBSET ms
  PROVE  Seats(ns) <= Seats(ms)
  <1>1. IsFiniteSet(ms) /\ \A x \in ms : size[x] \in Nat
    BY SeatsType DEF RsvpTypes
  <1>2. QED
    BY <1>1, SumSubset DEF Seats

\* The seats of a group change only with the sizes of its parties.
LEMMA SeatsSame ==
  ASSUME RsvpTypes, RsvpTypes', NEW ms \in SUBSET Members,
         \A m \in ms : size'[m] = size[m]
  PROVE  SumFunctionOnSet(size', ms) = Seats(ms)
  <1>1. IsFiniteSet(ms) /\ \A x \in ms : size[x] \in Nat /\ size'[x] = size[x]
    BY SeatsType DEF RsvpTypes
  <1>2. QED
    BY <1>1, SumAgree DEF Seats

-----------------------------------------------------------------------------
(* RsvpsFit: with a capacity, who is past the lock has it, so nobody else  *)
(* confirms between its count and its write; the others only free seats.   *)

LockInv == Capacity > 0 =>
    \A r \in RsvpCalls : pc[r] \in {"count", "write", "abort"} => eventTx = r

CountInv == Capacity > 0 /\ promoted = {} =>
    \A r \in RsvpCalls : pc[r] = "write" /\ verdict[r][1] = "CONFIRMED"
                             => Confirmed + Input[r].n <= Capacity

FitInv == Types /\ LockInv /\ CountInv /\ RsvpsFit

LEMMA InitFit == Init => FitInv
  <1> SUFFICES ASSUME Init PROVE FitInv
    OBVIOUS
  <1>0. Types
    BY InitTypes DEF Types
  <1>1. PICK w \in Scenarios :
            /\ rsvp = [m \in Members |-> w.rows[m].s]
            /\ size = [m \in Members |-> w.rows[m].n]
            /\ pc = [c \in Calls |-> IF c \in w.calls THEN "start" ELSE "absent"]
    BY DEF Init, RsvpInit
  <1>2. With("CONFIRMED") = {m \in Members : w.rows[m].s \in {"CONFIRMED"}}
    BY <1>1 DEF With
  <1>3. Capacity > 0 => Confirmed <= Capacity
    BY <1>1, <1>2, ScenarioAssumption DEF Confirmed, Seats, Seated
  <1>4. \A r \in RsvpCalls : pc[r] \notin {"count", "write", "abort"}
    BY <1>1 DEF RsvpCalls, CallsOf
  <1>5. QED
    BY <1>0, <1>3, <1>4 DEF FitInv, LockInv, CountInv, RsvpsFit

\* A step that confirms nobody new and moves no open RSVP past its count.
LEMMA NoNewGuest ==
  ASSUME FitInv, RsvpTypes', LockInv',
         With("CONFIRMED")' \subseteq With("CONFIRMED"),
         size' = size, promoted \subseteq promoted',
         \A r \in RsvpCalls : pc'[r] = "write" => pc[r] = "write" /\ verdict'[r] = verdict[r]
  PROVE  CountInv' /\ RsvpsFit'
  <1>0. With("CONFIRMED") \subseteq Members /\ With("CONFIRMED")' \subseteq Members
    BY DEF With
  <1>1. Confirmed' = Seats(With("CONFIRMED")')
    <2>1. SumFunctionOnSet(size', With("CONFIRMED")') = Seats(With("CONFIRMED")')
      BY SeatsSame, <1>0 DEF FitInv, Types
    <2>2. QED
      BY <2>1 DEF Confirmed, Seats
  <1>2. Confirmed' <= Confirmed /\ Confirmed' \in Nat /\ Confirmed \in Nat
    BY <1>0, <1>1, SeatsSubset, SeatsType DEF FitInv, Types, Confirmed
  <1>3. \A r \in RsvpCalls : Input[r].n \in Nat
    BY RsvpAssumption
  <1>4. Capacity \in Nat
    BY RsvpAssumption
  <1>5. QED
    BY <1>2, <1>3, <1>4 DEF FitInv, CountInv, RsvpsFit

LEMMA FitStep ==
  ASSUME FitInv, [Next]_vars
  PROVE  FitInv'
  <1>0. Types /\ Types' /\ RsvpTypes /\ RsvpTypes'
    BY TypesStep DEF FitInv, Types
  <1> USE DEF Move, Goto, rowVars, localVars, historyVars, rsvpVars
  <1>1. CASE Elsewhere
    <2>1. \A r \in RsvpCalls : pc'[r] = pc[r]
      BY <1>1 DEF Elsewhere, RsvpOps, RsvpCalls, CallsOf
    <2>2. LockInv'
      BY <1>1, <2>1 DEF FitInv, LockInv, Elsewhere
    <2>3. QED
      BY <1>0, <1>1, <2>1, <2>2, NoNewGuest DEF FitInv, Elsewhere, With
  <1>2. ASSUME NEW c \in Calls, RsvpNext(c)
        PROVE  FitInv'
    <2>0. \A r \in RsvpCalls \union CancelCalls \union CallsOf("checkIn") :
              By(r) \in Members /\ r \in Calls
      BY RsvpAssumption DEF RsvpCalls, CancelCalls, CallsOf
    <2>1. CASE c \in RsvpCalls /\ RsvpRead(c)
      BY <1>0, <2>0, <2>1, NoNewGuest DEF RsvpRead, FitInv, LockInv, RsvpTypes, With
    <2>2. CASE c \in RsvpCalls /\ RsvpLock(c)
      <3>1. LockInv'
        BY <1>0, <2>0, <2>2, RsvpAssumption DEF RsvpLock, FitInv, LockInv, RsvpTypes
      <3>2. QED
        BY <1>0, <2>0, <2>2, <3>1, NoNewGuest DEF RsvpLock, FitInv, RsvpTypes, With
    <2>3. CASE c \in RsvpCalls /\ RsvpCount(c)
      <3>1. LockInv'
        BY <1>0, <2>0, <2>3 DEF RsvpCount, FitInv, LockInv, RsvpTypes
      <3>2. Confirmed' = Confirmed
        BY <2>3 DEF RsvpCount, Confirmed, Seats, With
      <3>3. Confirmed \in Nat /\ Input[c].n \in Nat /\ Capacity \in Nat
        BY <1>0, <2>3, RsvpAssumption, SeatsType DEF Confirmed, With
      <3>4. ASSUME Capacity > 0, promoted = {}, NEW r \in RsvpCalls,
                   pc'[r] = "write", verdict'[r][1] = "CONFIRMED"
            PROVE  Confirmed + Input[r].n <= Capacity
        <4>1. CASE r = c
          BY <1>0, <2>0, <2>3, <3>3, <3>4, <4>1 DEF RsvpCount, RsvpTypes
        <4>2. CASE r # c
          BY <1>0, <2>0, <2>3, <3>4, <4>2 DEF RsvpCount, RsvpTypes, FitInv, CountInv
        <4>3. QED
          BY <4>1, <4>2
      <3>5. promoted' = promoted
        BY <2>3 DEF RsvpCount
      <3>6. QED
        BY <1>0, <3>1, <3>2, <3>4, <3>5 DEF FitInv, CountInv, RsvpsFit
    <2>4. CASE c \in RsvpCalls /\ RsvpWrite(c)
      <3> DEFINE m == By(c)
                 others == With("CONFIRMED") \ {m}
      <3>0. /\ m \in Members /\ Input[c].n \in Nat \ {0} /\ Capacity \in Nat
            /\ others \subseteq Members
        BY <2>0, <2>4, RsvpAssumption DEF With
      <3>1. /\ rsvp' = [rsvp EXCEPT ![m] = verdict[c][1]]
            /\ size' = [size EXCEPT ![m] = Input[c].n]
            /\ pc[c] = "write" /\ pc' = [pc EXCEPT ![c] = "done"]
            /\ verdict' = verdict /\ promoted' = promoted /\ Unlock(c)
        BY <2>4 DEF RsvpWrite
      <3>2. LockInv'
        BY <1>0, <2>0, <2>4, <3>1 DEF FitInv, LockInv, RsvpTypes, Unlock
      <3>3. With("CONFIRMED")' = IF verdict[c][1] = "CONFIRMED" THEN others \union {m}
                                                               ELSE others
        BY <1>0, <3>0, <3>1 DEF With, RsvpTypes
      <3>4. SumFunctionOnSet(size', others) = Seats(others)
        BY <1>0, <3>0, <3>1, SeatsSame DEF RsvpTypes
      <3>5. Seats(others) <= Confirmed /\ Seats(others) \in Nat /\ Confirmed \in Nat
        BY <1>0, <3>0, SeatsSubset, SeatsType DEF Confirmed, With
      <3>6. \/ Confirmed' = Seats(others)
            \/ /\ Confirmed' = Input[c].n + Seats(others)
               /\ verdict[c][1] = "CONFIRMED"
        <4>1. CASE verdict[c][1] = "CONFIRMED"
          <5>1. With("CONFIRMED")' \ {m} = others /\ m \in With("CONFIRMED")'
            BY <3>3, <4>1
          <5>2. size'[m] = Input[c].n
            BY <1>0, <3>0, <3>1 DEF RsvpTypes
          <5>3. IsFiniteSet(With("CONFIRMED")') /\ \A x \in With("CONFIRMED")' : size'[x] \in Nat
            BY <1>0, RsvpAssumption, FS_Subset DEF RsvpTypes, With
          <5>4. SumFunctionOnSet(size', With("CONFIRMED")')
                    = Input[c].n + SumFunctionOnSet(size', others)
            BY <5>1, <5>2, <5>3, SumRemove
          <5>5. QED
            BY <3>4, <4>1, <5>4 DEF Confirmed, Seats
        <4>2. CASE verdict[c][1] # "CONFIRMED"
          BY <3>3, <3>4, <4>2 DEF Confirmed, Seats
        <4>3. QED
          BY <4>1, <4>2
      <3>7. Capacity > 0 /\ promoted = {} => Confirmed' <= Capacity
        BY <2>4, <3>0, <3>1, <3>5, <3>6 DEF FitInv, CountInv, RsvpsFit
      <3>8. Capacity > 0 => \A r \in RsvpCalls : pc'[r] # "write"
        BY <1>0, <2>0, <2>4, <3>1 DEF FitInv, LockInv, RsvpTypes
      <3>9. QED
        BY <1>0, <3>1, <3>2, <3>7, <3>8 DEF FitInv, CountInv, RsvpsFit
    <2>5. CASE c \in RsvpCalls /\ RsvpAbort(c)
      <3>1. LockInv'
        BY <1>0, <2>0, <2>5 DEF RsvpAbort, Unlock, FitInv, LockInv, RsvpTypes
      <3>2. QED
        BY <1>0, <2>0, <2>5, <3>1, NoNewGuest DEF RsvpAbort, FitInv, RsvpTypes, With
    <2>6. CASE PromoteNext(c) /\ c \in CancelCalls
      <3>1. promoted' # {}
        BY <2>6 DEF PromoteNext
      <3>2. UNCHANGED <<pc, eventTx>>
        BY <2>6 DEF PromoteNext
      <3>3. QED
        BY <1>0, <3>1, <3>2 DEF FitInv, LockInv, CountInv, RsvpsFit
    <2>7. CASE /\ c \notin RsvpCalls
               /\ \/ CancelRead(c) \/ CancelWrite(c) \/ PromoteSum(c) \/ PromoteList(c)
                  \/ PromoteSkip(c) \/ PromoteEnd(c) \/ CheckInRead(c) \/ CheckInWrite(c)
      <3>1. /\ \A r \in RsvpCalls : pc'[r] = pc[r]
            /\ UNCHANGED <<size, verdict, eventTx, promoted>>
        BY <1>0, <2>0, <2>7 DEF CancelRead, CancelWrite, PromoteSum, PromoteList, PromoteSkip,
               PromoteEnd, CheckInRead, CheckInWrite, RsvpTypes
      <3>2. With("CONFIRMED")' \subseteq With("CONFIRMED")
        BY <1>0, <2>7 DEF CancelRead, CancelWrite, PromoteSum, PromoteList, PromoteSkip,
               PromoteEnd, CheckInRead, CheckInWrite, RsvpTypes, With
      <3>3. LockInv'
        BY <3>1 DEF FitInv, LockInv
      <3>4. QED
        BY <1>0, <3>1, <3>2, <3>3, NoNewGuest DEF FitInv
    <2>8. CASE RsvpDie(c)
      <3>1. UNCHANGED rsvpVars /\ \A r \in RsvpCalls : pc'[r] = pc[r] \/ pc'[r] = "dead"
        BY <1>0, <2>0, <2>8 DEF RsvpDie, RsvpTypes
      <3>2. LockInv'
        BY <3>1 DEF FitInv, LockInv
      <3>3. QED
        BY <1>0, <3>1, <3>2, NoNewGuest DEF FitInv, With
    <2>9. QED
      BY <1>2, <2>1, <2>2, <2>3, <2>4, <2>5, <2>6, <2>7, <2>8
         DEF RsvpNext, RsvpStep, RsvpCalls, CancelCalls, CallsOf
  <1>3. CASE UNCHANGED vars
    BY <1>0, <1>3 DEF vars, FitInv, LockInv, CountInv, RsvpsFit, Confirmed, Seats, With
  <1>4. QED
    BY <1>0, <1>1, <1>2, <1>3, Steps, LifeElsewhere, WorkerElsewhere

\* The RSVPs alone never confirm more seats than the event has: holding the
\* event's row from the count to the commit is enough, however many RSVPs
\* arrive and whichever of them fail or die.
THEOREM NeverOverfull == Spec => []RsvpsFit
  <1>1. FitInv => RsvpsFit
    BY DEF FitInv
  <1>2. QED
    BY <1>1, InitFit, FitStep, PTL DEF Spec

-----------------------------------------------------------------------------
(* GuestsAreTold: after a cancellation the status keeps new RSVPs out, and *)
(* whoever may still come to hold one is in late already.                  *)

CancelEventCalls == CallsOf("cancelEvent")

\* Members a call is writing an RSVP for.
Writing == {By(r) : r \in {x \in RsvpCalls : pc[x] \notin Ended \union {"start"}}}

\* Members who hold an RSVP, or to whom a promotion is about to give one.
Holders == With("CONFIRMED") \union With("WAITING_LIST") \union Listed

ClosedInv == \A c \in CancelEventCalls :
    pc[c] \in {"unqueue", "notify", "done"} /\ ~reopened
        => event \in Finished /\ Writing \subseteq late

ToldInv == \A c \in CancelEventCalls :
    pc[c] = "done" /\ ~reopened => Holders \subseteq told \union late

GuestInv == Types /\ ClosedInv /\ ToldInv

LEMMA InitGuests == Init => GuestInv
  <1> SUFFICES ASSUME Init PROVE GuestInv
    OBVIOUS
  <1>1. \A c \in Calls : pc[c] \in {"start", "absent"}
    BY DEF Init, RsvpInit
  <1>2. QED
    BY <1>1, InitTypes DEF GuestInv, Types, ClosedInv, ToldInv, CancelEventCalls, CallsOf

\* What a step of a call on RSVPs may do to the holders: only a call that has
\* begun to write an RSVP adds one, and only an open event lets a call begin.
LEMMA HoldersStep ==
  ASSUME RsvpTypes, NEW c \in Calls, RsvpNext(c)
  PROVE  /\ Holders' \subseteq Holders \union Writing
         /\ event \in Finished => Writing' \subseteq Writing
         /\ \A x \in CancelEventCalls : pc'[x] = pc[x] \/ pc'[x] = "dead"
  <1> USE DEF Holders, Listed, With, Writing, RsvpTypes, Move, Goto, Ended,
              rowVars, localVars, historyVars, rsvpVars, Finished,
              RsvpCalls, CancelCalls, CancelEventCalls, CallsOf
  <1>1. CASE Op(c) = "rsvp" /\ RsvpStep(c)
    <2>0. By(c) \in Members
      BY <1>1, RsvpAssumption
    <2>1. CASE RsvpRead(c)
      BY <1>1, <2>0, <2>1 DEF RsvpRead
    <2>2. CASE RsvpLock(c)
      BY <1>1, <2>0, <2>2 DEF RsvpLock
    <2>3. CASE RsvpCount(c)
      BY <1>1, <2>0, <2>3 DEF RsvpCount
    <2>4. CASE RsvpWrite(c)
      BY <1>1, <2>0, <2>4 DEF RsvpWrite
    <2>5. QED
      BY <1>1, <2>1, <2>2, <2>3, <2>4 DEF RsvpStep
  <1>2. CASE Op(c) = "cancelRsvp" /\ RsvpStep(c)
    <2>0. By(c) \in Members
      BY <1>2, RsvpAssumption
    <2>1. CASE CancelRead(c)
      BY <1>2, <2>0, <2>1 DEF CancelRead
    <2>2. CASE CancelWrite(c)
      BY <1>2, <2>0, <2>2 DEF CancelWrite
    <2>3. CASE PromoteSum(c)
      BY <1>2, <2>3 DEF PromoteSum
    <2>4. CASE PromoteList(c)
      BY <1>2, <2>4 DEF PromoteList
    <2>5. CASE PromoteSkip(c)
      BY <1>2, <2>5 DEF PromoteSkip, Heads
    <2>6. CASE PromoteNext(c)
      BY <1>2, <2>6 DEF PromoteNext, Heads
    <2>7. CASE PromoteEnd(c)
      BY <1>2, <2>7 DEF PromoteEnd
    <2>8. QED
      BY <1>2, <2>1, <2>2, <2>3, <2>4, <2>5, <2>6, <2>7 DEF RsvpStep
  <1>3. CASE Op(c) = "checkIn" /\ RsvpStep(c)
    <2>0. By(c) \in Members
      BY <1>3, RsvpAssumption
    <2>1. QED
      BY <1>3, <2>0 DEF RsvpStep, CheckInRead, CheckInWrite
  <1>4. CASE Op(c) = "rsvp" /\ RsvpAbort(c)
    BY <1>4 DEF RsvpAbort
  <1>5. CASE RsvpDie(c)
    BY <1>5 DEF RsvpDie
  <1>6. QED
    BY <1>1, <1>2, <1>3, <1>4, <1>5 DEF RsvpNext, RsvpStep

\* Only a step to an earlier status takes a finished event back.
LEMMA StaysFinished ==
  ASSUME LifeTypes, NEW s, SetEvent(s), ~reopened'
  PROVE  ~reopened /\ (event \in Finished => event' \in Finished)
  BY DEF SetEvent, LifeTypes

LEMMA GuestStep ==
  ASSUME GuestInv, [Next]_vars
  PROVE  GuestInv'
  <1>0. Types /\ Types' /\ RsvpTypes /\ RsvpTypes' /\ LifeTypes
    BY TypesStep DEF GuestInv, Types
  <1>1. ASSUME NEW c \in Calls, RsvpNext(c), UNCHANGED <<lifeVars, lifeHistory>>
        PROVE  GuestInv'
    <2>1. UNCHANGED <<event, told, late, reopened>>
      BY <1>1, RsvpLeavesEvent DEF lifeHistory
    <2>2. QED
      BY <1>0, <1>1, <2>1, HoldersStep DEF GuestInv, ClosedInv, ToldInv
  <1>2. ASSUME Elsewhere, (\E c \in Calls : LifeNext(c)) \/ WorkerNext
        PROVE  GuestInv'
    <2>1. Writing' = Writing
      BY <1>2 DEF Elsewhere, Writing, RsvpOps, RsvpCalls, CallsOf
    <2>2. Holders' = Holders
      BY <1>2 DEF Elsewhere, Holders, With, Listed, RsvpOps, CancelCalls, CallsOf, rsvpVars,
                  rowVars, localVars
    <2> USE <1>0, <2>1, <2>2
        DEF GuestInv, ClosedInv, ToldInv, RsvpTypes, Move, Goto, lifeVars, lifeHistory, clock,
            CancelEventCalls, CallsOf
    <2>3. ASSUME NEW c \in Calls, LifeNext(c)
          PROVE  GuestInv'
      <3>1. CASE Op(c) = "transition" /\ LifeStep(c)
        <4>1. CASE TransitionWrite(c)
          BY <3>1, <4>1, StaysFinished DEF TransitionWrite
        <4>2. CASE TransitionRead(c) \/ TransitionSchedule(c)
          BY <3>1, <4>2 DEF TransitionRead, TransitionSchedule
        <4>3. QED
          BY <3>1, <4>1, <4>2 DEF LifeStep
      <3>2. CASE Op(c) = "cancelEvent" /\ LifeStep(c)
        <4>1. CASE CancelEventRead(c)
          BY <3>2, <4>1 DEF CancelEventRead
        <4>2. CASE CancelEventWrite(c)
          BY <3>2, <4>2, StaysFinished DEF CancelEventWrite, SetEvent, Finished, Writing
        <4>3. CASE CancelEventUnqueue(c)
          BY <3>2, <4>3 DEF CancelEventUnqueue
        <4>4. CASE CancelEventNotify(c)
          BY <3>2, <4>4 DEF CancelEventNotify, Holders
        <4>5. QED
          BY <3>2, <4>1, <4>2, <4>3, <4>4 DEF LifeStep
      <3>3. CASE Op(c) = "gallery" /\ LifeStep(c)
        <4>1. CASE GalleryWrite(c)
          BY <3>3, <4>1, StaysFinished DEF GalleryWrite
        <4>2. CASE GalleryRead(c) \/ GalleryInsert(c)
          BY <3>3, <4>2 DEF GalleryRead, GalleryInsert
        <4>3. QED
          BY <3>3, <4>1, <4>2 DEF LifeStep
      <3>4. CASE Op(c) = "update" /\ LifeStep(c)
        BY <3>4 DEF LifeStep, UpdateRead, UpdateWrite
      <3>5. CASE LifeDie(c) /\ UNCHANGED <<lifeVars, lifeHistory>>
        BY <3>5 DEF LifeDie
      <3>6. QED
        BY <2>3, <3>1, <3>2, <3>3, <3>4, <3>5 DEF LifeNext, LifeStep
    <2>4. ASSUME WorkerNext
          PROVE  GuestInv'
      <3>1. CASE CompleteWrite
        BY <3>1, StaysFinished DEF CompleteWrite
      <3>2. CASE Tick \/ CompleteRead
        BY <3>2 DEF Tick, CompleteRead
      <3>3. QED
        BY <2>4, <3>1, <3>2 DEF WorkerNext
    <2>5. QED
      BY <1>2, <2>3, <2>4
  <1>3. CASE UNCHANGED vars
    BY <1>0, <1>3 DEF vars, GuestInv, ClosedInv, ToldInv, Holders, With, Listed, Writing, rsvpVars,
         rowVars, localVars, lifeHistory
  <1>4. QED
    BY <1>0, <1>1, <1>2, <1>3, Steps, LifeElsewhere, WorkerElsewhere

\* Once a cancellation of the event has run to its end, whoever holds an RSVP
\* was told, or got it from a call that was open at the cancellation.
THEOREM EveryGuestTold == Spec => []GuestsAreTold
  <1>1. GuestInv => GuestsAreTold
    BY DEF GuestInv, ToldInv, Holders, GuestsAreTold, CancelEventCalls
  <1>2. QED
    BY <1>1, InitGuests, GuestStep, PTL DEF Spec
-----------------------------------------------------------------------------
(* NobodyWaitsForAFreeSeat: the seats that count as taken are those of the *)
(* confirmed and of the checked-in, a row checked in behind the back of a  *)
(* call that still holds it left aside.                                    *)

Undone == {"sum", "list", "promote"}
Promotions == {c \in CancelCalls : pc[c] \in Undone}

\* What the property excuses.
Excused == \/ overlapped \/ \E c \in Calls : pc[c] = "dead"
           \/ \E c \in CancelCalls : pc[c] = "done" /\ was[c] = "CHECKED_IN"

\* RSVPs that renew a cancelled row, and cancellations of a row that waits.
Renewals == {c \in RsvpCalls : Open(c) /\ was[c] = "CANCELLED"}
GivingUp == {c \in CancelCalls : pc[c] = "cancel" /\ was[c] = "WAITING_LIST"}

Aside == {By(c) : c \in Renewals \union GivingUp} \union Listed
Taken == With("CONFIRMED") \union (With("CHECKED_IN") \ Aside)

\* A call that renews a row, gives one up or promotes one finds it as it read
\* it, unless it was checked in meanwhile, and is the only one to hold it.
RowsKept ==
    /\ \A c \in Renewals : rsvp[By(c)] \in {"CANCELLED", "CHECKED_IN"} /\ By(c) \notin Listed
    /\ \A c, r \in Renewals : By(c) = By(r) => c = r
    /\ \A c \in GivingUp : rsvp[By(c)] \in {"WAITING_LIST", "CHECKED_IN"}
    /\ \A c \in Promotions : pc[c] = "promote" => \A w \in queue[c] :
           /\ rsvp[w.m] \in {"WAITING_LIST", "CHECKED_IN"} /\ w.n = size[w.m]
           /\ \A v \in queue[c] : v.m = w.m => v = w
    /\ \A c \in Freeing : was[c] \notin {"none", "CANCELLED"}

\* One cancellation at a time, and no transaction of an RSVP meanwhile.
OneAtATime ==
    /\ \A c, x \in Freeing : c = x
    /\ Freeing # {} => \A r \in RsvpCalls : ~InTransaction(r)

\* Who is about to be put on the waiting list does not fit.
WaitsRightly == \A r \in RsvpCalls :
    pc[r] = "write" /\ verdict[r][1] = "WAITING_LIST"
        => Seats(Taken) + Input[r].n > Capacity

\* Outside promotions, who waits does not fit.
WaitersDoNotFit == Promotions = {} =>
    \A m \in With("WAITING_LIST") : Seats(Taken) + size[m] > Capacity

\* A promotion has seats at most for what is free, and has passed over only
\* parties that are larger.
PromotionCovers == \A c \in Promotions :
    /\ pc[c] \in {"list", "promote"} => Seats(Taken) + avail[c] >= Capacity
    /\ pc[c] = "promote" => \A m \in With("WAITING_LIST") :
           m \in {w.m : w \in queue[c]} \/ size[m] > avail[c]

GapInv == ~Excused =>
    RowsKept /\ OneAtATime /\ WaitsRightly /\ WaitersDoNotFit /\ PromotionCovers

-----------------------------------------------------------------------------
(* How the parts of GapInv are kept *)

LEMMA ExcusedForGood ==
  ASSUME RsvpTypes, (\E c \in Calls : RsvpNext(c)) \/ Elsewhere, Excused
  PROVE  Excused'
  <1> USE DEF Excused, RsvpTypes, Move, Goto, rowVars, localVars, historyVars, rsvpVars,
              CancelCalls, CallsOf
  <1>1. CASE Elsewhere
    BY <1>1 DEF Elsewhere, RsvpOps
  <1>2. ASSUME NEW c \in Calls, RsvpNext(c) PROVE Excused'
    <2>1. CASE Op(c) = "rsvp" /\ RsvpStep(c)
      BY <2>1 DEF RsvpStep, RsvpRead, RsvpLock, RsvpCount, RsvpWrite
    <2>2. CASE Op(c) = "cancelRsvp" /\ RsvpStep(c)
      BY <2>2 DEF RsvpStep, CancelRead, CancelWrite, PromoteSum, PromoteList, PromoteSkip,
                  PromoteNext, PromoteEnd
    <2>3. CASE Op(c) = "checkIn" /\ RsvpStep(c)
      BY <2>3 DEF RsvpStep, CheckInRead, CheckInWrite
    <2>4. CASE Op(c) = "rsvp" /\ RsvpAbort(c)
      BY <2>4 DEF RsvpAbort
    <2>5. CASE RsvpDie(c)
      BY <2>5 DEF RsvpDie
    <2>6. QED
      BY <1>2, <2>1, <2>2, <2>3, <2>4, <2>5 DEF RsvpNext, RsvpStep
  <1>3. QED
    BY <1>1, <1>2

Parts == RowsKept /\ OneAtATime /\ WaitsRightly /\ WaitersDoNotFit /\ PromotionCovers

\* Nobody new waits, no promotion begins, goes on or ends, no seat is freed.
Steady ==
    /\ Taken \subseteq Taken'
    /\ With("WAITING_LIST")' \subseteq With("WAITING_LIST")
    /\ size' = size
    /\ Promotions' = Promotions
    /\ \A x \in Promotions : pc'[x] = pc[x] /\ avail'[x] = avail[x] /\ queue'[x] = queue[x]
    /\ \A r \in RsvpCalls : pc'[r] = "write" => pc[r] = "write" /\ verdict'[r] = verdict[r]

LEMMA TakenType ==
  ASSUME RsvpTypes
  PROVE  /\ Seats(Taken) \in Nat /\ Taken \subseteq Members
         /\ Capacity \in Nat
         /\ \A r \in RsvpCalls : Input[r].n \in Nat \ {0}
  <1>1. Taken \subseteq Members
    BY DEF Taken, With
  <1>2. QED
    BY <1>1, SeatsType, RsvpAssumption

\* More members with the same parties take more seats.
LEMMA TakenGrows ==
  ASSUME RsvpTypes, RsvpTypes', Taken \subseteq Taken', \A m \in Taken : size'[m] = size[m]
  PROVE  Seats(Taken) <= Seats(Taken)' /\ Seats(Taken)' \in Nat
  <1>1. Taken \subseteq Members /\ Taken' \subseteq Members
    BY DEF Taken, With
  <1>2. SumFunctionOnSet(size', Taken) = Seats(Taken)
    BY <1>1, SeatsSame
  <1>3. IsFiniteSet(Taken') /\ \A x \in Taken' : size'[x] \in Nat
    BY <1>1, RsvpAssumption, FS_Subset DEF RsvpTypes
  <1>4. SumFunctionOnSet(size', Taken) <= SumFunctionOnSet(size', Taken')
    BY <1>3, SumSubset
  <1>5. SumFunctionOnSet(size', Taken') \in Nat
    BY <1>3, SumType
  <1>6. QED
    BY <1>2, <1>4, <1>5 DEF Seats

\* A newcomer takes the seats of its party.
LEMMA TakenGains ==
  ASSUME RsvpTypes, RsvpTypes', Taken \subseteq Taken', \A m \in Taken : size'[m] = size[m],
         NEW m \in Members, m \in Taken', m \notin Taken, size'[m] = size[m]
  PROVE  Seats(Taken)' >= size[m] + Seats(Taken)
  <1>1. Taken \subseteq Members /\ Taken' \subseteq Members
    BY DEF Taken, With
  <1>2. SumFunctionOnSet(size', Taken) = Seats(Taken)
    BY <1>1, SeatsSame
  <1>3. IsFiniteSet(Taken') /\ \A x \in Taken' : size'[x] \in Nat
    BY <1>1, RsvpAssumption, FS_Subset DEF RsvpTypes
  <1>4. SumFunctionOnSet(size', Taken') = size'[m] + SumFunctionOnSet(size', Taken' \ {m})
    BY <1>3, SumRemove
  <1>5. Taken \subseteq Taken' \ {m} /\ IsFiniteSet(Taken' \ {m})
    BY <1>3, FS_Subset
  <1>6. SumFunctionOnSet(size', Taken) <= SumFunctionOnSet(size', Taken' \ {m})
    BY <1>3, <1>5, SumSubset
  <1>7. /\ SumFunctionOnSet(size', Taken' \ {m}) \in Nat
        /\ SumFunctionOnSet(size', Taken) \in Nat /\ size[m] \in Nat
    BY <1>2, <1>3, <1>5, SumType, TakenType DEF RsvpTypes
  <1>8. QED
    BY <1>2, <1>4, <1>6, <1>7 DEF Seats

LEMMA SteadyParts ==
  ASSUME RsvpTypes, RsvpTypes', Steady, WaitsRightly, WaitersDoNotFit, PromotionCovers
  PROVE  WaitsRightly' /\ WaitersDoNotFit' /\ PromotionCovers'
  <1>1. Seats(Taken) <= Seats(Taken)'
    BY TakenGrows DEF Steady
  <1>2. /\ Seats(Taken) \in Nat /\ Seats(Taken)' \in Nat /\ Capacity \in Nat
        /\ \A r \in RsvpCalls : Input[r].n \in Nat
    BY TakenType, TakenGrows DEF Steady
  <1>3. WaitsRightly'
    BY <1>1, <1>2 DEF WaitsRightly, Steady
  <1>4. WaitersDoNotFit'
    BY <1>1, <1>2 DEF WaitersDoNotFit, Steady, RsvpTypes, With
  <1>5. PromotionCovers'
    BY <1>1, <1>2 DEF PromotionCovers, Steady, RsvpTypes, Promotions, CancelCalls, CallsOf
  <1>6. QED
    BY <1>3, <1>4, <1>5

\* The rows in the hands of a promotion.
LEMMA ListedRows ==
  ASSUME RowsKept
  PROVE  \A x \in Listed : rsvp[x] \in {"WAITING_LIST", "CHECKED_IN"}
  <1> SUFFICES ASSUME NEW x \in Listed PROVE rsvp[x] \in {"WAITING_LIST", "CHECKED_IN"}
    OBVIOUS
  <1>1. PICK c \in CancelCalls : pc[c] = "promote" /\ \E w \in queue[c] : x = w.m
    BY DEF Listed
  <1>2. c \in Promotions
    BY <1>1 DEF Promotions, Undone
  <1>3. QED
    BY <1>1, <1>2 DEF RowsKept

\* The steps of rsvp before its count, and those that end it without a row.
LEMMA RsvpOutside ==
  ASSUME RsvpTypes, RsvpTypes', Parts, NEW c \in RsvpCalls, ~Excused',
         RsvpRead(c) \/ RsvpLock(c) \/ RsvpAbort(c)
  PROVE  Parts'
  <1>0. c \in Calls /\ c \notin CancelCalls /\ By(c) \in Members
    BY RsvpAssumption DEF RsvpCalls, CancelCalls, CallsOf
  <1> USE <1>0 DEF Parts, RsvpTypes, Move, Goto, rowVars, localVars, historyVars, rsvpVars
  <1>1. UNCHANGED <<rsvp, size, queue, avail, verdict>> /\ \A x \in Calls \ {c} : pc'[x] = pc[x]
    BY DEF RsvpRead, RsvpLock, RsvpAbort
  <1>2. \A x \in CancelCalls : pc'[x] = pc[x] /\ was'[x] = was[x] /\ x \in Calls
    BY DEF RsvpRead, RsvpLock, RsvpAbort, CancelCalls, CallsOf
  <1>3. /\ GivingUp' = GivingUp /\ Listed' = Listed /\ Promotions' = Promotions
        /\ Freeing' = Freeing
    BY <1>1, <1>2 DEF GivingUp, Listed, Promotions, Freeing
  <1>4. /\ Renewals' \subseteq Renewals \union {c}
        /\ c \in Renewals' => \/ c \in Renewals
                              \/ /\ rsvp[By(c)] = "CANCELLED"
                                 /\ \A r \in Renewals : By(r) = By(c) => r = c
    BY <1>1 DEF RsvpRead, RsvpLock, RsvpAbort, Renewals, Open, InTransaction, Excused, RsvpCalls,
                CallsOf
  <1>5. RowsKept'
    <2>1. \A r \in Renewals' : rsvp[By(r)] \in {"CANCELLED", "CHECKED_IN"} /\ By(r) \notin Listed
      BY <1>3, <1>4, ListedRows DEF RowsKept
    <2>2. \A r, x \in Renewals' : By(r) = By(x) => r = x
      BY <1>3, <1>4 DEF RowsKept
    <2>3. \A x \in Freeing : was'[x] = was[x]
      BY <1>2 DEF Freeing
    <2>4. \A x \in Promotions : pc'[x] = pc[x]
      BY <1>2 DEF Promotions
    <2>5. QED
      BY <1>1, <1>3, <2>1, <2>2, <2>3, <2>4 DEF RowsKept
  <1>6. OneAtATime'
    BY <1>1, <1>2, <1>3 DEF OneAtATime, InTransaction, RsvpRead, RsvpLock, RsvpAbort, Excused, 
                      RsvpCalls, CallsOf
  <1>7. Taken \subseteq Taken'
    BY <1>1, <1>3, <1>4 DEF Taken, Aside, With
  <1>8. \A r \in RsvpCalls : pc'[r] = "write" => pc[r] = "write" /\ verdict'[r] = verdict[r]
    BY <1>1 DEF RsvpRead, RsvpLock, RsvpAbort, RsvpCalls, CallsOf
  <1>9. Steady
    BY <1>1, <1>2, <1>3, <1>7, <1>8 DEF Steady, With, Promotions
  <1>10. QED
    BY <1>5, <1>6, <1>9, SteadyParts

\* The count: no promotion is open beside it, so only the row locks matter.
LEMMA RsvpCountParts ==
  ASSUME RsvpTypes, RsvpTypes', Parts, NEW c \in RsvpCalls, RsvpCount(c)
  PROVE  Parts'
  <1>0. c \in Calls /\ c \notin CancelCalls /\ By(c) \in Members
    BY RsvpAssumption DEF RsvpCalls, CancelCalls, CallsOf
  <1> USE <1>0 DEF Parts, RsvpTypes, Move, Goto, rowVars, localVars, historyVars, rsvpVars
  <1>1. /\ UNCHANGED <<rsvp, size, queue, avail, was>>
        /\ pc[c] = "count" /\ pc'[c] \in {"abort", "write"}
        /\ \A x \in Calls \ {c} : pc'[x] = pc[x] /\ verdict'[x] = verdict[x]
    BY DEF RsvpCount
  <1>2. \A x \in CancelCalls : pc'[x] = pc[x] /\ x \in Calls
    BY <1>1 DEF CancelCalls, CallsOf
  <1>3. /\ GivingUp' = GivingUp /\ Listed' = Listed /\ Promotions' = Promotions
        /\ Freeing' = Freeing /\ Renewals' \subseteq Renewals
    BY <1>1, <1>2 DEF GivingUp, Listed, Promotions, Freeing, Renewals, Open, InTransaction,
                      RsvpCalls, CallsOf
  <1>4. RowsKept'
    BY <1>1, <1>2, <1>3 DEF RowsKept, Promotions
  <1>5. OneAtATime'
    BY <1>1, <1>2, <1>3 DEF OneAtATime, InTransaction, RsvpCalls, CallsOf
  <1>6. Taken \subseteq Taken'
    BY <1>1, <1>3 DEF Taken, Aside, With
  <1>7. Seats(Taken) <= Seats(Taken)' /\ Seats(Taken)' \in Nat
    BY <1>1, <1>6, TakenGrows
  <1>8. /\ Seats(Taken) \in Nat /\ Capacity \in Nat /\ Taken \subseteq Members
        /\ \A r \in RsvpCalls : Input[r].n \in Nat
    BY TakenType
  <1>9. Confirmed <= Seats(Taken) /\ Confirmed \in Nat
    BY <1>8, SeatsSubset, SeatsType DEF Confirmed, Taken, With
  <1>10. WaitsRightly'
    <2> SUFFICES ASSUME NEW r \in RsvpCalls, pc'[r] = "write", verdict'[r][1] = "WAITING_LIST"
                 PROVE  Seats(Taken)' + Input[r].n > Capacity
      BY DEF WaitsRightly
    <2>1. CASE r = c
      BY <1>7, <1>8, <1>9, <2>1 DEF RsvpCount
    <2>2. CASE r # c
      BY <1>1, <1>7, <1>8, <2>2 DEF WaitsRightly, RsvpCalls, CallsOf
    <2>3. QED
      BY <2>1, <2>2
  <1>11. WaitersDoNotFit'
    BY <1>1, <1>3, <1>7, <1>8 DEF WaitersDoNotFit, With
  <1>12. PromotionCovers'
    BY <1>1, <1>2, <1>3, <1>7, <1>8 DEF PromotionCovers, With, Promotions
  <1>13. QED
    BY <1>4, <1>5, <1>10, <1>11, <1>12

\* The write: with a capacity the event's row is locked, so no other RSVP is
\* past its count.
LEMMA RsvpWriteParts ==
  ASSUME RsvpTypes, RsvpTypes', LockInv, Parts, NEW c \in RsvpCalls, RsvpWrite(c)
  PROVE  Parts'
  <1> DEFINE m == By(c)
  <1>0. /\ c \in Calls /\ c \notin CancelCalls /\ m \in Members
        /\ \A r \in RsvpCalls : r \in Calls /\ By(r) \in Members
        /\ \A r \in CancelCalls : r \in Calls /\ By(r) \in Members
    BY RsvpAssumption DEF RsvpCalls, CancelCalls, CallsOf
  <1> USE <1>0 DEF Parts, RsvpTypes, Move, Goto, rowVars, localVars, historyVars, rsvpVars
  <1>1. /\ UNCHANGED <<queue, avail, was, verdict>>
        /\ pc[c] = "write" /\ pc'[c] = "done"
        /\ \A x \in Calls \ {c} : pc'[x] = pc[x]
        /\ rsvp' = [rsvp EXCEPT ![m] = verdict[c][1]]
        /\ size' = [size EXCEPT ![m] = Input[c].n]
        /\ was[c] = "CANCELLED" \/ rsvp[m] = "none"
    BY DEF RsvpWrite
  <1>2. \A x \in CancelCalls : pc'[x] = pc[x]
    BY <1>1
  <1>3. /\ GivingUp' = GivingUp /\ Listed' = Listed /\ Promotions' = Promotions
        /\ Freeing' = Freeing /\ Renewals' = Renewals \ {c}
    BY <1>1, <1>2 DEF GivingUp, Listed, Promotions, Freeing, Renewals, Open, InTransaction
  <1>4. Freeing = {} /\ Promotions = {} /\ GivingUp = {}
    BY <1>1 DEF OneAtATime, InTransaction, Freeing, Promotions, GivingUp, Undone
  <1>5. \A r \in Renewals \ {c} : By(r) # m
    BY <1>1 DEF RowsKept, Renewals, Open, InTransaction
  <1>6. RowsKept'
    BY <1>1, <1>3, <1>4, <1>5 DEF RowsKept, Renewals
  <1>7. OneAtATime'
    BY <1>3, <1>4 DEF OneAtATime
  <1>8. m \notin Taken
    BY <1>1 DEF Taken, Aside, With, RowsKept, Renewals, Open, InTransaction
  <1>9. Taken \subseteq Taken' /\ \A x \in Taken : size'[x] = size[x]
    BY <1>1, <1>3, <1>4, <1>5, <1>8 DEF Taken, Aside, With
  <1>10. Seats(Taken) <= Seats(Taken)' /\ Seats(Taken)' \in Nat
    BY <1>9, TakenGrows
  <1>11. /\ Seats(Taken) \in Nat /\ Capacity \in Nat
         /\ \A r \in RsvpCalls : Input[r].n \in Nat \ {0}
    BY TakenType
  <1>12. WaitsRightly'
    BY <1>1, <1>10, <1>11 DEF WaitsRightly
  <1>13. WaitersDoNotFit'
    BY <1>1, <1>4, <1>10, <1>11 DEF WaitersDoNotFit, WaitsRightly, With
  <1>14. PromotionCovers'
    BY <1>3, <1>4 DEF PromotionCovers
  <1>15. QED
    BY <1>6, <1>7, <1>12, <1>13, <1>14

\* A check-in changes nothing: the guest's seats stay taken.
LEMMA CheckInParts ==
  ASSUME RsvpTypes, RsvpTypes', Parts, NEW c \in Calls, Op(c) = "checkIn",
         CheckInRead(c) \/ CheckInWrite(c)
  PROVE  Parts'
  <1> DEFINE m == By(c)
  <1>0. /\ c \notin CancelCalls /\ c \notin RsvpCalls /\ m \in Members
        /\ \A r \in RsvpCalls : r \in Calls /\ By(r) \in Members
        /\ \A r \in CancelCalls : r \in Calls /\ By(r) \in Members
    BY RsvpAssumption DEF RsvpCalls, CancelCalls, CallsOf
  <1> USE <1>0 DEF Parts, RsvpTypes, Move, Goto, rowVars, localVars, historyVars, rsvpVars
  <1>1. /\ UNCHANGED <<queue, avail, was, verdict, size>>
        /\ \A x \in RsvpCalls \union CancelCalls : pc'[x] = pc[x]
        /\ rsvp' = rsvp \/ rsvp' = [rsvp EXCEPT ![m] = "CHECKED_IN"]
    BY DEF CheckInRead, CheckInWrite
  <1>2. /\ GivingUp' = GivingUp /\ Listed' = Listed /\ Promotions' = Promotions
        /\ Freeing' = Freeing /\ Renewals' = Renewals
    BY <1>1 DEF GivingUp, Listed, Promotions, Freeing, Renewals, Open, InTransaction
  <1>3. RowsKept'
    <2>1. \A x \in Members : rsvp'[x] = rsvp[x] \/ rsvp'[x] = "CHECKED_IN"
      BY <1>1
    <2>2. \A x \in Calls : \A w \in queue[x] : w.m \in Members
      OBVIOUS
    <2>3. \A x \in Renewals' \union GivingUp' : By(x) \in Members
      BY <1>2 DEF Renewals, GivingUp
    <2>4. \A x \in Promotions' : pc'[x] = pc[x] /\ x \in Calls
      BY <1>1, <1>2 DEF Promotions
    <2>5. QED
      BY <1>1, <1>2, <2>1, <2>2, <2>3, <2>4 DEF RowsKept
  <1>4. OneAtATime'
    BY <1>1, <1>2 DEF OneAtATime, InTransaction
  <1>5. \A x \in Aside : rsvp[x] # "CONFIRMED"
    <2>1. \A x \in Renewals \union GivingUp : rsvp[By(x)] # "CONFIRMED"
      BY DEF RowsKept
    <2>2. \A x \in Listed : rsvp[x] # "CONFIRMED"
      BY ListedRows
    <2>3. QED
      BY <2>1, <2>2 DEF Aside
  <1>6. Aside' = Aside
    BY <1>2 DEF Aside
  <1>7. Taken \subseteq Taken'
    BY <1>1, <1>5, <1>6 DEF Taken, With
  <1>8. With("WAITING_LIST")' \subseteq With("WAITING_LIST")
    BY <1>1 DEF With
  <1>9. Steady
    BY <1>1, <1>2, <1>7, <1>8 DEF Steady, Promotions
  <1>10. QED
    BY <1>3, <1>4, <1>9, SteadyParts

LEMMA ElsewhereParts ==
  ASSUME RsvpTypes, RsvpTypes', Parts, Elsewhere
  PROVE  Parts'
  <1> USE DEF Parts, RsvpTypes, rowVars, localVars, historyVars, rsvpVars
  <1>1. /\ UNCHANGED <<queue, avail, was, verdict, size, rsvp>>
        /\ \A x \in RsvpCalls \union CancelCalls : pc'[x] = pc[x] /\ x \in Calls
    BY DEF Elsewhere, RsvpOps, RsvpCalls, CancelCalls, CallsOf
  <1>2. /\ GivingUp' = GivingUp /\ Listed' = Listed /\ Promotions' = Promotions
        /\ Freeing' = Freeing /\ Renewals' = Renewals
    BY <1>1 DEF GivingUp, Listed, Promotions, Freeing, Renewals, Open, InTransaction
  <1>3. RowsKept'
    BY <1>1, <1>2 DEF RowsKept, Promotions
  <1>4. OneAtATime'
    BY <1>1, <1>2 DEF OneAtATime, InTransaction
  <1>5. Taken = Taken' /\ With("WAITING_LIST")' = With("WAITING_LIST")
    BY <1>1, <1>2 DEF Taken, With, Aside
  <1>6. Steady
    BY <1>1, <1>2, <1>5 DEF Steady, Promotions
  <1>7. QED
    BY <1>3, <1>4, <1>6, SteadyParts

\* What the steps of a cancellation have in common: it is the only one, and no
\* RSVP is past its lock.
LEMMA Alone ==
  ASSUME RsvpTypes, Parts, NEW c \in CancelCalls, c \in Freeing
  PROVE  /\ c \in Calls /\ c \notin RsvpCalls /\ By(c) \in Members
         /\ Freeing = {c} /\ Promotions \subseteq {c} /\ GivingUp \subseteq {c}
         /\ \A r \in RsvpCalls : r \in Calls /\ pc[r] \notin {"count", "write"}
  BY RsvpAssumption DEF Parts, OneAtATime, InTransaction, Freeing, Promotions, GivingUp, Undone,
     CancelCalls, RsvpCalls, CallsOf

LEMMA CancelReadParts ==
  ASSUME RsvpTypes, RsvpTypes', Parts, NEW c \in CancelCalls, CancelRead(c), ~Excused'
  PROVE  Parts'
  <1> DEFINE m == By(c)
  <1>0. /\ c \in Calls /\ c \notin RsvpCalls /\ m \in Members
        /\ \A r \in RsvpCalls : r \in Calls
    BY RsvpAssumption DEF RsvpCalls, CancelCalls, CallsOf
  <1> USE <1>0 DEF Parts, RsvpTypes, Move, Goto, rowVars, localVars, historyVars, rsvpVars
  <1>1. /\ UNCHANGED <<rsvp, size, queue, avail, verdict>>
        /\ pc[c] = "start"
        /\ pc'[c] = IF rsvp[m] \in {"none", "CANCELLED"} THEN "refused" ELSE "cancel"
        /\ was'[c] = rsvp[m]
        /\ \A x \in Calls \ {c} : pc'[x] = pc[x] /\ was'[x] = was[x]
    BY DEF CancelRead
  <1>2. Freeing = {} /\ \A r \in RsvpCalls : ~InTransaction(r)
    <2>1. ~overlapped'
      BY DEF Excused
    <2>2. overlapped' = (overlapped \/ Freeing # {} \/ \E r \in RsvpCalls : InTransaction(r))
      BY DEF CancelRead
    <2>3. QED
      BY <2>1, <2>2
  <1>3. \A x \in CancelCalls : pc[x] \notin {"cancel", "sum", "list", "promote"} /\ x \in Calls
    BY <1>2 DEF Freeing, CancelCalls, CallsOf
  <1>4. /\ Promotions = {} /\ GivingUp = {} /\ Listed = {} /\ Promotions' = {} /\ Listed' = {}
        /\ Freeing' \subseteq {c} /\ Renewals' = Renewals
        /\ GivingUp' \subseteq {c}
    BY <1>1, <1>3 DEF Promotions, GivingUp, Listed, Undone, Freeing, Renewals, Open, InTransaction
  <1>5. /\ c \in GivingUp' => rsvp[m] = "WAITING_LIST"
        /\ c \in Freeing' => was'[c] \notin {"none", "CANCELLED"}
    BY <1>1 DEF GivingUp, Freeing
  <1>6. RowsKept'
    BY <1>1, <1>4, <1>5 DEF RowsKept
  <1>7. OneAtATime'
    BY <1>1, <1>2, <1>4 DEF OneAtATime, InTransaction
  <1>8. Taken \subseteq Taken'
    BY <1>1, <1>4, <1>5 DEF Taken, Aside, With
  <1>9. Steady
    BY <1>1, <1>4, <1>8 DEF Steady, With
  <1>10. QED
    BY <1>6, <1>7, <1>9, SteadyParts

LEMMA CancelWriteParts ==
  ASSUME RsvpTypes, RsvpTypes', Parts, NEW c \in CancelCalls, CancelWrite(c), ~Excused'
  PROVE  Parts'
  <1> DEFINE m == By(c)
  <1> USE DEF Parts, RsvpTypes, Move, Goto, rowVars, localVars, historyVars, rsvpVars
  <1>0. c \in Freeing
    BY DEF CancelWrite, Freeing
  <1> USE <1>0, Alone
  <1>1. /\ UNCHANGED <<size, queue, avail, verdict, was>>
        /\ pc[c] = "cancel"
        /\ pc'[c] = IF was[c] = "CONFIRMED" THEN "sum" ELSE "done"
        /\ \A x \in Calls \ {c} : pc'[x] = pc[x]
        /\ rsvp' = [rsvp EXCEPT ![m] = "CANCELLED"]
    BY DEF CancelWrite
  <1>2. was[c] \in {"CONFIRMED", "WAITING_LIST"}
    BY <1>1 DEF RowsKept, Excused, Statuses
  <1>3. \A x \in CancelCalls \ {c} : pc[x] \notin {"cancel", "sum", "list", "promote"} /\ x \in Calls
    BY DEF Freeing, CancelCalls, CallsOf
  <1>4. /\ Promotions = {} /\ Listed = {} /\ Listed' = {}
        /\ Freeing' \subseteq {c} /\ Renewals' = Renewals /\ GivingUp' = {}
        /\ Promotions' \subseteq {c}
    <2>1. Listed = {} /\ Listed' = {} /\ Promotions = {} /\ Promotions' \subseteq {c}
      BY <1>1, <1>3 DEF Promotions, Listed, Undone
    <2>2. Freeing' \subseteq {c} /\ GivingUp' = {}
      BY <1>1, <1>3 DEF GivingUp, Freeing
    <2>3. \A r \in RsvpCalls : pc'[r] = pc[r] /\ was'[r] = was[r]
      BY <1>1
    <2>4. Renewals' = Renewals
      BY <2>3 DEF Renewals, Open, InTransaction
    <2>5. QED
      BY <2>1, <2>2, <2>4
  <1>5. RowsKept'
    <2>1. \A r \in Renewals : By(r) \in Members
      BY RsvpAssumption DEF Renewals
    <2>2. \A r \in Renewals : rsvp'[By(r)] \in {"CANCELLED", "CHECKED_IN"}
      BY <1>1, <2>1 DEF RowsKept
    <2>3. \A x \in Promotions' : pc'[x] # "promote"
      BY <1>1, <1>4
    <2>4. QED
      BY <1>1, <1>2, <1>4, <2>2, <2>3 DEF RowsKept
  <1>6. OneAtATime'
    BY <1>1, <1>4 DEF OneAtATime, InTransaction
  <1>7. CASE was[c] = "CONFIRMED"
    <2>1. WaitsRightly'
      BY <1>1 DEF WaitsRightly
    <2>2. WaitersDoNotFit'
      BY <1>1, <1>7 DEF WaitersDoNotFit, Promotions, Undone
    <2>3. PromotionCovers'
      BY <1>1, <1>4, <1>7 DEF PromotionCovers
    <2>4. QED
      BY <1>5, <1>6, <2>1, <2>2, <2>3
  <1>8. CASE was[c] = "WAITING_LIST"
    <2>1. c \in GivingUp /\ m \in Aside
      BY <1>1, <1>8 DEF GivingUp, Aside
    <2>2. m \notin Taken
      BY <2>1 DEF Taken, With, RowsKept
    <2>3. Taken \subseteq Taken'
      BY <1>1, <1>4, <2>2 DEF Taken, Aside, With
    <2>4. Steady
      <3>1. Promotions' = {}
        BY <1>1, <1>4, <1>8 DEF Promotions, Undone
      <3>2. QED
        BY <1>1, <1>4, <2>3, <3>1 DEF Steady, With
    <2>5. QED
      BY <1>5, <1>6, <2>4, SteadyParts
  <1>9. QED
    BY <1>2, <1>7, <1>8

\* The sum counts the confirmed guests only: what it finds free is not less
\* than what is.
LEMMA PromoteSumParts ==
  ASSUME RsvpTypes, RsvpTypes', Parts, NEW c \in CancelCalls, PromoteSum(c)
  PROVE  Parts'
  <1> USE DEF Parts, RsvpTypes, Move, Goto, rowVars, localVars, historyVars, rsvpVars
  <1>0. c \in Freeing
    BY DEF PromoteSum, Freeing
  <1> USE <1>0, Alone
  <1>1. /\ UNCHANGED <<rsvp, size, queue, verdict, was>>
        /\ pc[c] = "sum"
        /\ pc'[c] = IF Capacity > Confirmed THEN "list" ELSE "done"
        /\ avail'[c] = Capacity - Confirmed
        /\ \A x \in Calls \ {c} : pc'[x] = pc[x]
    BY DEF PromoteSum
  <1>2. \A x \in CancelCalls \ {c} : pc[x] \notin {"cancel", "sum", "list", "promote"} /\ x \in Calls
    BY DEF Freeing, CancelCalls, CallsOf
  <1>3. /\ GivingUp = {} /\ GivingUp' = {} /\ Listed = {} /\ Listed' = {}
        /\ Freeing' \subseteq {c} /\ Renewals' = Renewals /\ Promotions' \subseteq {c}
    BY <1>1, <1>2 DEF Promotions, GivingUp, Listed, Undone, Freeing, Renewals, Open, InTransaction
  <1>4. RowsKept'
    BY <1>1, <1>3 DEF RowsKept
  <1>5. OneAtATime'
    BY <1>1, <1>3 DEF OneAtATime, InTransaction
  <1>6. WaitsRightly'
    BY <1>1 DEF WaitsRightly
  <1>7. Taken' = Taken /\ Seats(Taken)' = Seats(Taken)
    BY <1>1, <1>3 DEF Taken, Aside, With, Seats
  <1>8. Seats(Taken) \in Nat /\ Capacity \in Nat /\ Taken \subseteq Members
    BY TakenType
  <1>9. Confirmed <= Seats(Taken) /\ Confirmed \in Nat
    BY <1>8, SeatsSubset, SeatsType DEF Confirmed, Taken, With
  <1>10. WaitersDoNotFit'
    <2>1. CASE pc'[c] = "list"
      BY <2>1 DEF WaitersDoNotFit, Promotions, Undone
    <2>2. CASE pc'[c] # "list"
      <3>1. Capacity <= Seats(Taken)
        BY <1>1, <1>8, <1>9, <2>2
      <3>2. \A x \in Members : size'[x] = size[x] /\ size[x] \in Nat \ {0}
        BY <1>1
      <3>3. With("WAITING_LIST")' \subseteq Members
        BY DEF With
      <3>4. QED
        <4> SUFFICES ASSUME NEW x \in With("WAITING_LIST")'
                     PROVE  Seats(Taken)' + size'[x] > Capacity
          BY DEF WaitersDoNotFit
        <4>1. size'[x] \in Nat \ {0}
          BY ONLY <3>2, <3>3
        <4>2. QED
          BY ONLY <1>7, <1>8, <3>1, <4>1
    <2>3. QED
      BY <2>1, <2>2
  <1>11. PromotionCovers'
    BY <1>1, <1>3, <1>7, <1>8, <1>9 DEF PromotionCovers
  <1>12. QED
    BY <1>4, <1>5, <1>6, <1>10, <1>11

LEMMA PromoteListParts ==
  ASSUME RsvpTypes, RsvpTypes', Parts, NEW c \in CancelCalls, PromoteList(c)
  PROVE  Parts'
  <1> USE DEF Parts, RsvpTypes, Move, Goto, rowVars, localVars, historyVars, rsvpVars
  <1>0. c \in Freeing
    BY DEF PromoteList, Freeing
  <1> USE <1>0, Alone
  <1>1. /\ UNCHANGED <<rsvp, size, avail, verdict, was>>
        /\ pc[c] = "list" /\ pc'[c] = "promote"
        /\ queue'[c] = {[m |-> x, n |-> size[x], pos |-> pos[x]] : x \in With("WAITING_LIST")}
        /\ \A x \in Calls \ {c} : pc'[x] = pc[x]
    BY DEF PromoteList
  <1>2. \A x \in CancelCalls \ {c} : pc[x] \notin {"cancel", "sum", "list", "promote"} /\ x \in Calls
    BY DEF Freeing, CancelCalls, CallsOf
  <1>3. /\ GivingUp = {} /\ GivingUp' = {} /\ Listed = {}
        /\ Freeing' \subseteq {c} /\ Renewals' = Renewals /\ Promotions' = {c}
    BY <1>1, <1>2 DEF Promotions, GivingUp, Listed, Undone, Freeing, Renewals, Open, InTransaction
  <1>4. Listed' = With("WAITING_LIST")
    <2>1. {x \in CancelCalls : pc'[x] = "promote"} = {c}
      BY <1>1, <1>2
    <2>2. Listed' = {w.m : w \in queue'[c]}
      BY <2>1 DEF Listed
    <2>3. ASSUME NEW x \in With("WAITING_LIST")
          PROVE  \E w \in queue'[c] : w.m = x
      <3> DEFINE w == [m |-> x, n |-> size[x], pos |-> pos[x]]
      <3>1. w \in queue'[c]
        BY ONLY <1>1
      <3>2. w.m = x
        OBVIOUS
      <3>3. QED
        BY ONLY <3>1, <3>2
    <2>4. \A w \in queue'[c] : w.m \in With("WAITING_LIST")
      BY <1>1
    <2>5. QED
      BY <2>2, <2>3, <2>4
  <1>5. RowsKept'
    <2>1. \A r \in Renewals : By(r) \notin With("WAITING_LIST")
      BY DEF RowsKept, With
    <2>2. \A w \in queue'[c] : /\ rsvp[w.m] \in {"WAITING_LIST", "CHECKED_IN"} /\ w.n = size[w.m]
                               /\ \A v \in queue'[c] : v.m = w.m => v = w
      BY <1>1 DEF With
    <2>3. QED
      BY <1>1, <1>3, <1>4, <2>1, <2>2 DEF RowsKept
  <1>6. OneAtATime'
    BY <1>1, <1>3 DEF OneAtATime, InTransaction
  <1>7. WaitsRightly'
    BY <1>1 DEF WaitsRightly
  <1>8. Taken' = Taken /\ Seats(Taken)' = Seats(Taken)
    BY <1>1, <1>3, <1>4 DEF Taken, Aside, With, Seats
  <1>9. WaitersDoNotFit'
    BY <1>3 DEF WaitersDoNotFit
  <1>10. PromotionCovers'
    <2>1. Seats(Taken)' + avail'[c] >= Capacity
      BY <1>1, <1>8 DEF PromotionCovers, Promotions, Undone
    <2>2. With("WAITING_LIST")' = With("WAITING_LIST")
      BY <1>1 DEF With
    <2>3. ASSUME NEW x \in With("WAITING_LIST")
          PROVE  \E w \in queue'[c] : w.m = x
      <3> DEFINE w == [m |-> x, n |-> size[x], pos |-> pos[x]]
      <3>1. w \in queue'[c]
        BY ONLY <1>1
      <3>2. w.m = x
        OBVIOUS
      <3>3. QED
        BY ONLY <3>1, <3>2
    <2>4. QED
      BY <1>3, <2>1, <2>2, <2>3 DEF PromotionCovers
  <1>11. QED
    BY <1>5, <1>6, <1>7, <1>9, <1>10

\* A promotion goes through its list: the party it takes off the list is
\* either larger than what is left, or confirmed in its place.
LEMMA PromoteStepParts ==
  ASSUME RsvpTypes, RsvpTypes', Parts, NEW c \in CancelCalls, PromoteSkip(c) \/ PromoteNext(c)
  PROVE  Parts'
  <1> USE DEF Parts, RsvpTypes, Move, Goto, rowVars, localVars, historyVars, rsvpVars
  <1>0. c \in Freeing /\ pc[c] = "promote"
    BY DEF PromoteSkip, PromoteNext, Freeing
  <1> USE <1>0, Alone
  <1>1. PICK w \in queue[c] :
            /\ queue' = [queue EXCEPT ![c] = @ \ {w}]
            /\ \/ /\ w.n > avail[c] /\ UNCHANGED <<rsvp, avail>>
               \/ /\ w.n <= avail[c]
                  /\ rsvp' = [rsvp EXCEPT ![w.m] = "CONFIRMED"]
                  /\ avail' = [avail EXCEPT ![c] = @ - w.n]
    BY DEF PromoteSkip, PromoteNext, Heads
  <1>2. UNCHANGED <<size, pc, was, verdict>>
    BY DEF PromoteSkip, PromoteNext
  <1>3. \A x \in CancelCalls \ {c} : pc[x] \notin {"cancel", "sum", "list", "promote"} /\ x \in Calls
    BY DEF Freeing, CancelCalls, CallsOf
  <1>4. /\ GivingUp = {} /\ GivingUp' = {} /\ Freeing' = Freeing
        /\ Renewals' = Renewals /\ Promotions = {c} /\ Promotions' = {c}
    BY <1>2, <1>3 DEF Promotions, GivingUp, Undone, Freeing, Renewals, Open, InTransaction
  <1> DEFINE m == w.m
  <1>5. /\ m \in Members /\ w.n = size[m] /\ rsvp[m] \in {"WAITING_LIST", "CHECKED_IN"}
        /\ \A v \in queue[c] : v.m = m => v = w
    BY <1>4 DEF RowsKept
  <1>6. Listed = {v.m : v \in queue[c]} /\ Listed' = {v.m : v \in queue'[c]}
    BY <1>2, <1>3 DEF Listed
  <1>7. queue'[c] = queue[c] \ {w}
    BY <1>1
  <1>8. Listed' = Listed \ {m} /\ m \in Listed
    BY <1>5, <1>6, <1>7
  <1>9. \A x \in Members \ {m} : rsvp'[x] = rsvp[x]
    BY <1>1, <1>5
  <1>10. RowsKept'
    <2>1. \A r \in Renewals : By(r) \in Members /\ By(r) # m
      BY <1>8, RsvpAssumption DEF RowsKept, Renewals
    <2>2. \A r \in Renewals : rsvp'[By(r)] \in {"CANCELLED", "CHECKED_IN"} /\ By(r) \notin Listed'
      BY <1>8, <1>9, <2>1 DEF RowsKept
    <2>3. \A v \in queue'[c] : v.m \in Members \ {m} /\ v \in queue[c]
      BY <1>5, <1>7
    <2>4. \A v \in queue'[c] : /\ rsvp'[v.m] \in {"WAITING_LIST", "CHECKED_IN"} /\ v.n = size'[v.m]
                               /\ \A u \in queue'[c] : u.m = v.m => u = v
      BY <1>2, <1>4, <1>9, <2>3 DEF RowsKept
    <2>5. QED
      BY <1>2, <1>4, <2>2, <2>4 DEF RowsKept
  <1>11. OneAtATime'
    BY <1>2, <1>4 DEF OneAtATime, InTransaction
  <1>12. WaitsRightly'
    BY <1>2 DEF WaitsRightly
  <1>13. WaitersDoNotFit'
    BY <1>4 DEF WaitersDoNotFit
  <1>14. /\ Seats(Taken) \in Nat /\ Capacity \in Nat /\ Taken \subseteq Members
         /\ Seats(Taken) + avail[c] >= Capacity
    BY <1>4, TakenType DEF PromotionCovers
  <1>15. m \notin Taken /\ Aside' \subseteq Aside
    BY <1>4, <1>5, <1>8 DEF Taken, With, Aside
  <1>16. Seats(Taken)' + avail'[c] >= Capacity
    <2>1. Taken \subseteq Taken'
      BY <1>9, <1>15 DEF Taken, With
    <2>2. Seats(Taken) <= Seats(Taken)' /\ Seats(Taken)' \in Nat
      BY <1>2, <2>1, TakenGrows
    <2>3. CASE UNCHANGED avail
      BY <1>14, <2>2, <2>3
    <2>4. CASE /\ rsvp' = [rsvp EXCEPT ![m] = "CONFIRMED"]
               /\ avail' = [avail EXCEPT ![c] = @ - w.n]
      <3>1. m \in Taken'
        BY <1>5, <2>4 DEF Taken, With
      <3>2. \A x \in Members : size'[x] = size[x]
        BY <1>2
      <3>3. Seats(Taken)' >= size[m] + Seats(Taken)
        BY <1>5, <1>14, <1>15, <2>1, <3>1, <3>2, TakenGains
      <3>4. avail'[c] = avail[c] - size[m] /\ avail[c] \in Int /\ size[m] \in Nat
        BY <1>5, <2>4
      <3>5. QED
        BY <1>14, <2>2, <3>3, <3>4
    <2>5. QED
      BY <1>1, <2>3, <2>4
  <1>17. PromotionCovers'
    <2>1. \A x \in With("WAITING_LIST")' :
              x \in {v.m : v \in queue'[c]} \/ size'[x] > avail'[c]
      <3> SUFFICES ASSUME NEW x \in With("WAITING_LIST")'
                   PROVE  x \in {v.m : v \in queue'[c]} \/ size'[x] > avail'[c]
        OBVIOUS
      <3>1. x \in Members /\ rsvp'[x] = "WAITING_LIST"
        BY DEF With
      <3>2. CASE x = m
        <4>1. w.n > avail[c] /\ avail' = avail
          BY <1>1, <1>5, <3>1, <3>2
        <4>2. QED
          BY <1>2, <1>5, <3>2, <4>1
      <3>3. CASE x # m
        <4>1. x \in With("WAITING_LIST")
          BY <1>9, <3>1, <3>3 DEF With
        <4>2. x \in Listed \/ size[x] > avail[c]
          BY <1>4, <1>6, <4>1 DEF PromotionCovers
        <4>3. x \in Listed => x \in Listed'
          BY <1>8, <3>3
        <4>4. avail'[c] <= avail[c] /\ size[x] \in Nat /\ avail[c] \in Int /\ avail'[c] \in Int
          BY <1>1, <1>5, <3>1
        <4>5. QED
          BY <1>2, <1>6, <4>2, <4>3, <4>4
      <3>4. QED
        BY <3>2, <3>3
    <2>2. QED
      BY <1>4, <1>16, <2>1 DEF PromotionCovers
  <1>18. QED
    BY <1>10, <1>11, <1>12, <1>13, <1>17

\* A promotion that ends leaves nobody who would fit.
LEMMA PromoteEndParts ==
  ASSUME RsvpTypes, RsvpTypes', Parts, NEW c \in CancelCalls, PromoteEnd(c)
  PROVE  Parts'
  <1> USE DEF Parts, RsvpTypes, Move, Goto, rowVars, localVars, historyVars, rsvpVars
  <1>0. c \in Freeing
    BY DEF PromoteEnd, Freeing
  <1> USE <1>0, Alone
  <1>1. /\ UNCHANGED <<rsvp, size, queue, avail, verdict, was>>
        /\ pc[c] = "promote" /\ pc'[c] = "done"
        /\ queue[c] = {} \/ avail[c] <= 0
        /\ \A x \in Calls \ {c} : pc'[x] = pc[x]
    BY DEF PromoteEnd
  <1>2. \A x \in CancelCalls \ {c} : pc[x] \notin {"cancel", "sum", "list", "promote"} /\ x \in Calls
    BY DEF Freeing, CancelCalls, CallsOf
  <1>3. /\ GivingUp = {} /\ GivingUp' = {} /\ Listed' = {} /\ Freeing' = {}
        /\ Renewals' = Renewals /\ Promotions = {c} /\ Promotions' = {}
    BY <1>1, <1>2 DEF Promotions, GivingUp, Listed, Undone, Freeing, Renewals, Open, InTransaction
  <1>4. RowsKept' /\ OneAtATime'
    BY <1>1, <1>3 DEF RowsKept, OneAtATime
  <1>5. WaitsRightly'
    BY <1>1 DEF WaitsRightly
  <1>6. Taken \subseteq Taken'
    BY <1>1, <1>3 DEF Taken, Aside, With
  <1>7. Seats(Taken) <= Seats(Taken)' /\ Seats(Taken)' \in Nat
    BY <1>1, <1>6, TakenGrows
  <1>8. /\ Seats(Taken) \in Nat /\ Capacity \in Nat
        /\ Seats(Taken) + avail[c] >= Capacity
    BY <1>1, <1>3, TakenType DEF PromotionCovers
  <1>9. WaitersDoNotFit'
    <2> SUFFICES ASSUME NEW x \in With("WAITING_LIST")'
                 PROVE  Seats(Taken)' + size'[x] > Capacity
      BY DEF WaitersDoNotFit
    <2>1. x \in With("WAITING_LIST") /\ x \in Members
      BY <1>1 DEF With
    <2>2. x \in {w.m : w \in queue[c]} \/ size[x] > avail[c]
      BY <1>1, <1>3, <2>1 DEF PromotionCovers
    <2>3. size[x] \in Nat \ {0} /\ avail[c] \in Int
      BY <2>1
    <2>4. avail[c] <= 0 \/ size[x] > avail[c]
      BY <1>1, <2>2
    <2>5. size'[x] = size[x]
      BY <1>1
    <2>6. Seats(Taken) + size[x] > Capacity
      BY ONLY <1>8, <2>3, <2>4
    <2>7. QED
      BY ONLY <1>7, <1>8, <2>3, <2>5, <2>6
  <1>10. PromotionCovers'
    BY <1>3 DEF PromotionCovers
  <1>11. QED
    BY <1>4, <1>5, <1>9, <1>10

-----------------------------------------------------------------------------

SeatsInv == FitInv /\ GapInv

LEMMA InitGap == Init => SeatsInv
  <1> SUFFICES ASSUME Init PROVE SeatsInv
    OBVIOUS
  <1>0. FitInv /\ RsvpTypes
    BY InitFit DEF FitInv, Types
  <1>1. PICK w \in Scenarios :
            /\ rsvp = [m \in Members |-> w.rows[m].s]
            /\ size = [m \in Members |-> w.rows[m].n]
            /\ pc = [c \in Calls |-> IF c \in w.calls THEN "start" ELSE "absent"]
    BY DEF Init, RsvpInit
  <1>2. /\ Renewals = {} /\ GivingUp = {} /\ Listed = {} /\ Promotions = {} /\ Freeing = {}
        /\ \A r \in RsvpCalls : pc[r] # "write"
    BY <1>1 DEF Renewals, GivingUp, Listed, Promotions, Freeing, Undone, Open, InTransaction,
                RsvpCalls, CancelCalls, CallsOf
  <1>3. Taken = {m \in Members : w.rows[m].s \in {"CONFIRMED", "CHECKED_IN"}}
    BY <1>1, <1>2 DEF Taken, Aside, With
  <1>4. Seats(Taken) = Seated(w, {"CONFIRMED", "CHECKED_IN"})
    BY <1>1, <1>3 DEF Seats, Seated
  <1>5. WaitersDoNotFit
    BY <1>1, <1>4, ScenarioAssumption DEF WaitersDoNotFit, With
  <1>6. RowsKept /\ OneAtATime /\ WaitsRightly /\ PromotionCovers
    BY <1>2 DEF RowsKept, OneAtATime, WaitsRightly, PromotionCovers
  <1>7. QED
    BY <1>0, <1>5, <1>6 DEF SeatsInv, GapInv

LEMMA GapStep ==
  ASSUME SeatsInv, [Next]_vars
  PROVE  SeatsInv'
  <1>0. FitInv' /\ RsvpTypes /\ RsvpTypes' /\ LockInv
    BY FitStep DEF SeatsInv, FitInv, Types
  <1>1. ASSUME NEW c \in Calls, RsvpNext(c)
        PROVE  GapInv'
    <2> SUFFICES ASSUME ~Excused' PROVE Parts'
      BY DEF GapInv, Parts
    <2>0. Parts
      BY <1>0, <1>1, ExcusedForGood DEF SeatsInv, GapInv, Parts
    <2>1. CASE c \in RsvpCalls /\ (RsvpRead(c) \/ RsvpLock(c) \/ RsvpAbort(c))
      BY <1>0, <2>0, <2>1, RsvpOutside
    <2>2. CASE c \in RsvpCalls /\ RsvpCount(c)
      BY <1>0, <2>0, <2>2, RsvpCountParts
    <2>3. CASE c \in RsvpCalls /\ RsvpWrite(c)
      BY <1>0, <2>0, <2>3, RsvpWriteParts
    <2>4. CASE c \in CancelCalls /\ CancelRead(c)
      BY <1>0, <2>0, <2>4, CancelReadParts
    <2>5. CASE c \in CancelCalls /\ CancelWrite(c)
      BY <1>0, <2>0, <2>5, CancelWriteParts
    <2>6. CASE c \in CancelCalls /\ PromoteSum(c)
      BY <1>0, <2>0, <2>6, PromoteSumParts
    <2>7. CASE c \in CancelCalls /\ PromoteList(c)
      BY <1>0, <2>0, <2>7, PromoteListParts
    <2>8. CASE c \in CancelCalls /\ (PromoteSkip(c) \/ PromoteNext(c))
      BY <1>0, <2>0, <2>8, PromoteStepParts
    <2>9. CASE c \in CancelCalls /\ PromoteEnd(c)
      BY <1>0, <2>0, <2>9, PromoteEndParts
    <2>10. CASE Op(c) = "checkIn" /\ (CheckInRead(c) \/ CheckInWrite(c))
      BY <1>0, <1>1, <2>0, <2>10, CheckInParts
    <2>11. CASE RsvpDie(c)
      <3>1. pc'[c] = "dead"
        BY <1>0, <1>1, <2>11 DEF RsvpDie, RsvpTypes, Goto
      <3>2. QED
        BY <1>1, <3>1 DEF Excused
    <2>12. QED
      BY <1>1, <2>1, <2>2, <2>3, <2>4, <2>5, <2>6, <2>7, <2>8, <2>9, <2>10, <2>11
         DEF RsvpNext, RsvpStep, RsvpCalls, CancelCalls, CallsOf
  <1>2. CASE Elsewhere
    BY <1>0, <1>2, ExcusedForGood, ElsewhereParts DEF SeatsInv, GapInv, Parts
  <1>3. CASE UNCHANGED vars
    <2>1. Elsewhere
      BY <1>0, <1>3 DEF vars, Elsewhere, RsvpTypes
    <2>2. QED
      BY <1>2, <2>1
  <1>4. QED
    BY <1>0, <1>1, <1>2, <1>3, Steps, LifeElsewhere, WorkerElsewhere DEF SeatsInv

\* When no RSVP or cancellation is open and none died, nobody waits who would
\* fit, whatever parties came and went before: unless calls overlapped in one
\* of the ways the property names, a promotion leaves the list as it should.
THEOREM NobodyWaitsInVain == Spec => []NobodyWaitsForAFreeSeat
  <1>1. SeatsInv => NobodyWaitsForAFreeSeat
    <2> SUFFICES ASSUME SeatsInv, Quiet, ~Excused,
                        NEW m \in With("WAITING_LIST")
                 PROVE  Confirmed + Seats(With("CHECKED_IN")) + size[m] > Capacity
      BY DEF NobodyWaitsForAFreeSeat, Excused
    <2>0. RsvpTypes
      BY DEF SeatsInv, FitInv, Types
    <2>1. Promotions = {}
      BY DEF Quiet, Promotions, Undone, Ended, CancelCalls, CallsOf
    <2>2. Seats(Taken) + size[m] > Capacity
      BY <2>1 DEF SeatsInv, GapInv, WaitersDoNotFit
    <2> DEFINE in == With("CHECKED_IN") \ Aside
    <2>3. /\ With("CONFIRMED") \subseteq Members /\ With("CHECKED_IN") \subseteq Members
          /\ With("CONFIRMED") \intersect in = {}
          /\ in \subseteq With("CHECKED_IN") /\ Taken = With("CONFIRMED") \union in
          /\ m \in Members
      BY DEF With, Taken
    <2>4. /\ Seats(in) \in Nat /\ Seats(With("CHECKED_IN")) \in Nat /\ Confirmed \in Nat
          /\ IsFiniteSet(in) /\ IsFiniteSet(With("CONFIRMED"))
      BY <2>0, <2>3, SeatsType DEF Confirmed
    <2>5. Seats(in) <= Seats(With("CHECKED_IN"))
      BY <2>0, <2>3, SeatsSubset
    <2>6. \A x \in With("CONFIRMED") \union in : size[x] \in Nat
      BY <2>0, <2>3 DEF RsvpTypes
    <2> HIDE DEF in
    <2>7. Seats(Taken) = Confirmed + Seats(in)
      BY <2>3, <2>4, <2>6, SumUnion DEF Seats, Confirmed
    <2>8. size[m] \in Nat /\ Capacity \in Nat
      BY <2>0, <2>3, RsvpAssumption DEF RsvpTypes
    <2>9. QED
      BY <2>2, <2>4, <2>5, <2>7, <2>8
  <1>2. QED
    BY <1>1, InitGap, GapStep, PTL DEF Spec
=============================================================================
