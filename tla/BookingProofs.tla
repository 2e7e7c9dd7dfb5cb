---------------------------- MODULE BookingProofs ----------------------------
(***************************************************************************)
(* Proofs about Booking, for every set of items, bookings, calls and       *)
(* workloads: the payment of what is confirmed, and what the calendar      *)
(* check guarantees although nothing is locked between check and insert.   *)
(***************************************************************************)
EXTENDS Booking, SumProofs

BookingStatuses == Occupying \union {"none", "REJECTED", "EXPIRED", "CHECKED_OUT"}

Labels == {"absent", "start", "rooms", "create", "read", "write", "enqueue", "occupy",
           "unqueue", "receipt", "clean", "done", "refused", "replayed", "failed", "dead"}

Types ==
    /\ TypeOK
    /\ pc \in [Requests -> Labels]
    /\ seen \in [Calls -> [rooms : SUBSET Rooms, last : Int]]
    /\ \A c \in CallsOf("decide") : pc[c] = "enqueue" => c \in Approvals

\* Who is under verification has sent a proof, and a verification that passed
\* its check is about such a booking.
ProofInv ==
    /\ \A b \in Bookings : status[b] = "PAYMENT_VERIFICATION" => b \in proved
    /\ \A c \in CallsOf("verify") : pc[c] = "write" => Of(c) \in proved

-----------------------------------------------------------------------------
(* What the requests are about *)

LEMMA Kinds ==
  /\ \A b \in Bookings : b \in Requests /\ b \notin Calls
  /\ \A c \in Calls : c \in Requests /\ Of(c) \in Bookings
  BY BookingAssumption DEF Requests

\* A step is one of a submission, of a call by its op, of the clock or of the worker.
LEMMA Steps ==
  ASSUME Next
  PROVE  \/ \E b \in Bookings : SubmitStep(b)
         \/ \E c \in Calls : DecideStep(c)
         \/ \E c \in Calls : ProofStep(c)
         \/ \E c \in Calls : VerifyStep(c)
         \/ \E c \in Calls : DeskStep(c)
         \/ \E r \in Requests : Die(r)
         \/ \E c \in Approvals : Lapse(c)
         \/ \E b \in Bookings : ExpireRead(b) \/ ExpireWrite(b)
  BY DEF Next, CallStep, Running

-----------------------------------------------------------------------------
(* Types *)

LEMMA InitTypes == Init => Types
  <1> SUFFICES ASSUME Init PROVE Types
    OBVIOUS
  <1> USE DEF Init
  <1>1. /\ status \in [Bookings -> BookingStatuses] /\ last \in [Bookings -> Days]
        /\ alloc \in [Bookings -> SUBSET Rooms]
    BY BookingAssumption DEF BookingStatuses
  <1>2. /\ window \in [Bookings -> Approvals \union {NoCall}]
        /\ jobBy \in [Bookings -> Approvals \union {NoCall}]
        /\ job \in [Bookings -> {"none", "delayed", "active", "completed"}]
        /\ lapsed \subseteq Approvals
    OBVIOUS
  <1>3. room \in [Rooms -> RoomStatuses] /\ closed \in [Items -> SUBSET Days]
    BY DEF RoomStatuses
  <1>4. receipts \subseteq Bookings /\ astray \union rushed \union proved \subseteq Bookings
    OBVIOUS
  <1>5. TypeOK
    BY <1>1, <1>2, <1>3, <1>4 DEF TypeOK, BookingStatuses
  <1>6. PICK w \in Workloads : pc = [r \in Requests |-> IF r \in w THEN "start" ELSE "absent"]
    OBVIOUS
  <1>7. pc \in [Requests -> Labels] /\ \A c \in CallsOf("decide") : pc[c] # "enqueue"
    BY <1>6, Kinds DEF Labels, CallsOf
  <1>8. seen \in [Calls -> [rooms : SUBSET Rooms, last : Int]]
    OBVIOUS
  <1>9. QED
    BY <1>5, <1>7, <1>8 DEF Types

\* A status written by id is one of a booking, and a booking is astray at most.
LEMMA SetStatusType ==
  ASSUME status \in [Bookings -> BookingStatuses], astray \subseteq Bookings,
         NEW b \in Bookings, NEW s \in BookingStatuses, SetStatus(b, s)
  PROVE  status' \in [Bookings -> BookingStatuses] /\ astray' \subseteq Bookings
  BY DEF SetStatus

LEMMA TypesStep ==
  ASSUME Types, [Next]_vars
  PROVE  Types'
  <1> USE Kinds DEF Types, TypeOK, Labels, Move, Goto, rowVars, queueVars, CallsOf
  <1>0. \A b \in Bookings, s \in BookingStatuses :
            SetStatus(b, s) => /\ status' \in [Bookings -> BookingStatuses]
                               /\ astray' \subseteq Bookings
    BY SetStatusType DEF BookingStatuses
  <1>1. ASSUME NEW b \in Bookings, SubmitStep(b) PROVE Types'
    <2>1. CASE SubmitCalendar(b)
      BY <2>1 DEF SubmitCalendar
    <2>2. CASE SubmitRooms(b)
      BY <2>2 DEF SubmitRooms
    <2>3. CASE SubmitCreate(b)
      BY <1>0, <2>3 DEF SubmitCreate, BookingStatuses, Occupying
    <2>4. QED
      BY <1>1, <2>1, <2>2, <2>3 DEF SubmitStep
  <1>2. ASSUME NEW c \in Calls, NEW ok, Read(c, ok) PROVE Types'
    <2>1. /\ UNCHANGED <<rowVars, queueVars, room, closed, receipts, astray, rushed, proved>>
          /\ \E l \in {"write", "refused"} : pc' = [pc EXCEPT ![c] = l]
          /\ seen' = [seen EXCEPT ![c] = [rooms |-> alloc[Of(c)], last |-> last[Of(c)]]]
      BY <1>2 DEF Read, Remember
    <2>2. [rooms |-> alloc[Of(c)], last |-> last[Of(c)]] \in [rooms : SUBSET Rooms, last : Int]
      BY BookingAssumption
    <2>3. QED
      BY <2>1, <2>2
  <1>3. ASSUME NEW c \in Calls, IssueReceipt(c) PROVE Types'
    BY <1>3 DEF IssueReceipt
  <1>4. ASSUME NEW c \in Calls, DecideStep(c) PROVE Types'
    <2>1. CASE DecideNo(c)
      BY <1>0, <2>1 DEF DecideNo, BookingStatuses
    <2>2. CASE DecideApprove(c)
      <3>1. c \in Approvals /\ Input[c].rooms \in SUBSET Rooms
        BY <1>4, <2>2, InputAssumption DEF DecideStep, DecideApprove, Approvals
      <3>2. /\ status' \in [Bookings -> BookingStatuses] /\ astray' \subseteq Bookings
        BY <1>0, <2>2 DEF DecideApprove, BookingStatuses, Occupying
      <3>3. QED
        BY <2>2, <3>1, <3>2 DEF DecideApprove, BookingStatuses
    <2>3. CASE DecideEnqueue(c)
      <3>1. c \in Approvals
        BY <1>4, <2>3 DEF DecideStep, DecideEnqueue
      <3>2. QED
        BY <2>3, <3>1 DEF DecideEnqueue
    <2>4. QED
      BY <1>2, <1>3, <1>4, <2>1, <2>2, <2>3 DEF DecideStep, DecideRead
  <1>5. ASSUME NEW c \in Calls, ProofStep(c) PROVE Types'
    <2>1. CASE ProofWrite(c)
      BY <1>0, <1>5, <2>1 DEF ProofWrite, BookingStatuses, Occupying
    <2>2. CASE ProofLookup(c) \/ ProofRead(c)
      BY <2>2 DEF ProofLookup, ProofRead
    <2>3. QED
      BY <1>5, <2>1, <2>2 DEF ProofStep
  <1>6. ASSUME NEW c \in Calls, VerifyStep(c) PROVE Types'
    <2>1. CASE VerifyReject(c)
      BY <1>0, <1>6, <2>1 DEF VerifyReject, BookingStatuses, Occupying
    <2>2. CASE VerifyApprove(c)
      BY <1>0, <1>6, <2>2 DEF VerifyApprove, BookingStatuses, Occupying
    <2>3. CASE VerifyOccupy(c)
      BY <1>6, <2>3 DEF VerifyOccupy, SetRooms, RoomStatuses
    <2>4. CASE VerifyUnqueue(c)
      BY <1>6, <2>4 DEF VerifyUnqueue
    <2>5. QED
      BY <1>2, <1>3, <1>6, <2>1, <2>2, <2>3, <2>4 DEF VerifyStep, VerifyRead
  <1>7. ASSUME NEW c \in Calls, DeskStep(c) PROVE Types'
    <2> USE InputAssumption
    <2>1. CASE Op(c) = "checkIn" /\ CheckInWrite(c)
      <3> DEFINE rs == IF Input[c].rooms # {} THEN Input[c].rooms ELSE seen[c].rooms
      <3>1. rs \in SUBSET Rooms
        BY <2>1
      <3>2. /\ status' \in [Bookings -> BookingStatuses] /\ astray' \subseteq Bookings
        BY <1>0, <2>1 DEF CheckInWrite, BookingStatuses, Occupying
      <3>3. /\ alloc' = IF rs = {} THEN alloc ELSE [alloc EXCEPT ![Of(c)] = rs]
            /\ seen' = [seen EXCEPT ![c].rooms = rs]
            /\ pc' = [pc EXCEPT ![c] = "occupy"]
            /\ UNCHANGED <<last, key, window, queueVars, room, closed, receipts, rushed, proved>>
        BY <2>1 DEF CheckInWrite
      <3> HIDE DEF rs
      <3>4. QED
        BY <2>1, <3>1, <3>2, <3>3 DEF BookingStatuses
    <2>2. CASE Op(c) = "checkIn" /\ CheckInOccupy(c)
      BY <2>2 DEF CheckInOccupy, SetRoom, SetRooms, RoomStatuses
    <2>3. CASE Op(c) = "checkOut" /\ CheckOutWrite(c)
      BY <1>0, <2>3 DEF CheckOutWrite, BookingStatuses
    <2>4. CASE Op(c) = "checkOut" /\ CheckOutClean(c)
      BY <2>4 DEF CheckOutClean, SetRooms, RoomStatuses
    <2>5. CASE Op(c) = "transfer" /\ TransferWrite(c)
      BY <2>5 DEF TransferWrite
    <2>6. CASE Op(c) = "transfer" /\ (TransferClean(c) \/ TransferOccupy(c))
      BY <2>6 DEF TransferClean, TransferOccupy, SetRoom, SetRooms, RoomStatuses
    <2>7. CASE Op(c) = "extend" /\ ExtendWrite(c)
      BY <2>7 DEF ExtendWrite
    <2>8. CASE Op(c) = "housekeeping" /\ Housekeeping(c)
      BY <2>8 DEF Housekeeping, SetRooms
    <2>9. CASE Op(c) \in {"close", "reopen"} /\ CloseDay(c)
      <3>1. Input[c].item \in Items /\ Input[c].day \in Days
        BY <2>9
      <3>2. QED
        BY <2>9, <3>1 DEF CloseDay
    <2>10. QED
      BY <1>2, <1>7, <2>1, <2>2, <2>3, <2>4, <2>5, <2>6, <2>7, <2>8, <2>9 DEF DeskStep, DeskRead
  <1>8. ASSUME NEW r \in Requests, Die(r) PROVE Types'
    BY <1>8 DEF Die
  <1>9. ASSUME NEW c \in Approvals, Lapse(c) PROVE Types'
    BY <1>9 DEF Lapse
  <1>10. ASSUME NEW b \in Bookings, ExpireRead(b) \/ ExpireWrite(b) PROVE Types'
    BY <1>0, <1>10 DEF ExpireRead, ExpireWrite, BookingStatuses
  <1>11. CASE UNCHANGED vars
    BY <1>11 DEF vars
  <1>12. QED
    BY <1>1, <1>4, <1>5, <1>6, <1>7, <1>8, <1>9, <1>10, <1>11, Steps

\* Every variable keeps its type, whatever calls, jobs and deaths there are.
THEOREM TypeCorrect == Spec => []TypeOK
  <1>1. Types => TypeOK
    BY DEF Types
  <1>2. QED
    BY <1>1, InitTypes, TypesStep, PTL DEF Spec

-----------------------------------------------------------------------------
(* No confirmation without a proof of payment *)

\* What is enough of a step: who is newly under verification, confirmed, or
\* about to be verified, has its proof.
LEMMA PaidFrame ==
  ASSUME Types, ProofInv, ConfirmedIsProved, proved \subseteq proved',
         \A b \in Bookings : status'[b] = "PAYMENT_VERIFICATION" =>
             status[b] = "PAYMENT_VERIFICATION" \/ b \in proved',
         \A b \in Bookings : status'[b] = "CONFIRMED" /\ ItemOf[b] \in Paid =>
             status[b] = "CONFIRMED" \/ b \in proved',
         \A c \in CallsOf("verify") : pc'[c] = "write" => pc[c] = "write" \/ Of(c) \in proved'
  PROVE  ProofInv' /\ ConfirmedIsProved'
  BY DEF ProofInv, ConfirmedIsProved, CallsOf

LEMMA PaidStep ==
  ASSUME Types, ProofInv, ConfirmedIsProved, [Next]_vars
  PROVE  ProofInv' /\ ConfirmedIsProved'
  <1> USE Kinds DEF Types, TypeOK, Move, Goto, rowVars, queueVars, CallsOf
  <1>1. \A b \in Bookings : \A s : SetStatus(b, s) =>
            status' = [status EXCEPT ![b] = s]
    BY DEF SetStatus
  <1>2. ASSUME NEW b \in Bookings, SubmitStep(b) PROVE ProofInv' /\ ConfirmedIsProved'
    <2>1. CASE SubmitCalendar(b)
      BY <2>1, PaidFrame DEF SubmitCalendar
    <2>2. CASE SubmitRooms(b)
      BY <2>2, PaidFrame DEF SubmitRooms
    <2>3. CASE SubmitCreate(b)
      BY <1>1, <2>3, PaidFrame DEF SubmitCreate
    <2>4. QED
      BY <1>2, <2>1, <2>2, <2>3 DEF SubmitStep
  <1>3. ASSUME NEW c \in Calls, NEW ok, Read(c, ok),
               Op(c) # "verify" \/ ~ok \/ Of(c) \in proved
        PROVE  ProofInv' /\ ConfirmedIsProved'
    BY <1>3, PaidFrame DEF Read
  <1>4. ASSUME NEW c \in Calls, IssueReceipt(c) PROVE ProofInv' /\ ConfirmedIsProved'
    BY <1>4, PaidFrame DEF IssueReceipt
  <1>5. ASSUME NEW c \in Calls, DecideStep(c) PROVE ProofInv' /\ ConfirmedIsProved'
    <2>1. CASE DecideNo(c)
      BY <1>1, <2>1, PaidFrame DEF DecideNo
    <2>2. CASE DecideApprove(c)
      BY <1>1, <2>2, PaidFrame DEF DecideApprove
    <2>3. CASE DecideEnqueue(c)
      BY <2>3, PaidFrame DEF DecideEnqueue
    <2>4. QED
      BY <1>3, <1>4, <1>5, <2>1, <2>2, <2>3 DEF DecideStep, DecideRead
  <1>6. ASSUME NEW c \in Calls, ProofStep(c) PROVE ProofInv' /\ ConfirmedIsProved'
    <2>1. CASE ProofWrite(c)
      BY <1>1, <1>6, <2>1, PaidFrame DEF ProofWrite
    <2>2. CASE ProofLookup(c) \/ ProofRead(c)
      BY <1>6, <2>2, PaidFrame DEF ProofLookup, ProofRead, ProofStep
    <2>3. QED
      BY <1>6, <2>1, <2>2 DEF ProofStep
  <1>7. ASSUME NEW c \in Calls, VerifyStep(c) PROVE ProofInv' /\ ConfirmedIsProved'
    <2>1. CASE VerifyReject(c)
      BY <1>1, <2>1, PaidFrame DEF VerifyReject
    <2>2. CASE VerifyApprove(c)
      <3>1. Of(c) \in proved
        BY <1>7, <2>2 DEF VerifyStep, VerifyApprove, ProofInv
      <3>2. QED
        BY <1>1, <2>2, <3>1, PaidFrame DEF VerifyApprove
    <2>3. CASE VerifyOccupy(c) \/ VerifyUnqueue(c)
      BY <2>3, PaidFrame DEF VerifyOccupy, VerifyUnqueue
    <2>4. CASE VerifyRead(c)
      BY <1>3, <2>4 DEF VerifyRead, ProofInv
    <2>5. QED
      BY <1>4, <1>7, <2>1, <2>2, <2>3, <2>4 DEF VerifyStep
  <1>8. ASSUME NEW c \in Calls, DeskStep(c) PROVE ProofInv' /\ ConfirmedIsProved'
    <2>1. CASE CheckInWrite(c)
      BY <1>1, <2>1, PaidFrame DEF CheckInWrite
    <2>2. CASE CheckOutWrite(c)
      BY <1>1, <2>2, PaidFrame DEF CheckOutWrite
    <2>3. CASE CheckInOccupy(c) \/ CheckOutClean(c)
      BY <2>3, PaidFrame DEF CheckInOccupy, CheckOutClean
    <2>4. CASE TransferWrite(c) \/ TransferClean(c) \/ TransferOccupy(c)
      BY <2>4, PaidFrame DEF TransferWrite, TransferClean, TransferOccupy
    <2>5. CASE ExtendWrite(c) \/ Housekeeping(c) \/ CloseDay(c)
      BY <2>5, PaidFrame DEF ExtendWrite, Housekeeping, CloseDay
    <2>6. CASE DeskRead(c)
      BY <1>3, <2>6 DEF DeskRead
    <2>7. QED
      BY <1>8, <2>1, <2>2, <2>3, <2>4, <2>5, <2>6 DEF DeskStep
  <1>9. ASSUME NEW r \in Requests, Die(r) PROVE ProofInv' /\ ConfirmedIsProved'
    BY <1>9, PaidFrame DEF Die
  <1>10. ASSUME NEW c \in Approvals, Lapse(c) PROVE ProofInv' /\ ConfirmedIsProved'
    BY <1>10, PaidFrame DEF Lapse
  <1>11. ASSUME NEW b \in Bookings, ExpireRead(b) \/ ExpireWrite(b)
         PROVE  ProofInv' /\ ConfirmedIsProved'
    BY <1>1, <1>11, PaidFrame DEF ExpireRead, ExpireWrite
  <1>12. CASE UNCHANGED vars
    BY <1>12, PaidFrame DEF vars
  <1>13. QED
    BY <1>2, <1>5, <1>6, <1>7, <1>8, <1>9, <1>10, <1>11, <1>12, Steps

\* A paid booking is confirmed only after its member sent a proof.
THEOREM PaidBeforeConfirmed == Spec => []ConfirmedIsProved
  <1>1. Init => ProofInv /\ ConfirmedIsProved
    <2> SUFFICES ASSUME Init PROVE ProofInv /\ ConfirmedIsProved
      OBVIOUS
    <2>1. \A b \in Bookings : status[b] = "none"
      BY DEF Init
    <2>2. PICK w \in Workloads : pc = [r \in Requests |-> IF r \in w THEN "start" ELSE "absent"]
      BY DEF Init
    <2>3. \A c \in CallsOf("verify") : pc[c] # "write"
      BY <2>2, Kinds DEF CallsOf
    <2>4. QED
      BY <2>1, <2>3 DEF ProofInv, ConfirmedIsProved
  <1>2. QED
    BY <1>1, InitTypes, TypesStep, PaidStep, PTL DEF Spec

-----------------------------------------------------------------------------
(* A day of a plain item goes over its maximum only in a race *)

Plain(i) == /\ RoomsOf[i] = {} /\ MaxBookings[i] > 0
            /\ \A b \in Bookings : ItemOf[b] = i => QtyOf[b] = 1

\* Bookings that hold the day and neither raced nor left the lifecycle.
Orderly(i, d) == Holding(i, d) \ (rushed \union astray)

Submitting(b) == pc[b] \in {"rooms", "create"}

\* The stay is the one that was checked, unless it was extended.
StayInv == \A b \in Bookings : last[b] = LastDay[b] \/ b \in rushed

\* Who submits alone knows that its days have room for one more.
RoomLeft ==
    \A b \in Bookings : Submitting(b) /\ b \notin rushed =>
        /\ \A o \in Bookings : Submitting(o) /\ ItemOf[o] = ItemOf[b] => o = b
        /\ Plain(ItemOf[b]) => \A d \in FirstDay[b] .. LastDay[b] :
               Cardinality(Orderly(ItemOf[b], d)) < MaxBookings[ItemOf[b]]

OrderlyFits ==
    \A i \in Items, d \in Int :
        Plain(i) => Cardinality(Orderly(i, d)) <= MaxBookings[i]

RaceInv == StayInv /\ RoomLeft /\ OrderlyFits

\* For a plain item the calendar compares the number of bookings that hold the
\* day with the maximum.
LEMMA PlainDay ==
  ASSUME Types, NEW i \in Items, NEW d, Plain(i)
  PROVE  /\ Capacity(i) = MaxBookings[i]
         /\ Held(i, d) = Cardinality(Holding(i, d))
         /\ IsFiniteSet(Holding(i, d)) /\ IsFiniteSet(Orderly(i, d))
         /\ Cardinality(Orderly(i, d)) <= Cardinality(Holding(i, d))
         /\ Cardinality(Orderly(i, d)) \in Nat /\ Cardinality(Holding(i, d)) \in Nat
  <1>1. Capacity(i) = MaxBookings[i]
    BY DEF Capacity, Free, Plain
  <1>2. /\ IsFiniteSet(Holding(i, d)) /\ IsFiniteSet(Orderly(i, d))
        /\ Orderly(i, d) \subseteq Holding(i, d)
    BY BookingAssumption, FS_Subset DEF Holding, Orderly
  <1>3. \A b \in Holding(i, d) : QtyOf[b] = 1
    BY DEF Holding, Plain
  <1>4. Held(i, d) = Cardinality(Holding(i, d))
    BY <1>2, <1>3, SumOfOnes DEF Held
  <1>5. QED
    BY <1>1, <1>2, <1>4, FS_Subset, FS_CardinalityType

\* What a step that neither checks nor inserts a booking does to the calendar.
Calm ==
    /\ astray \subseteq astray' /\ rushed \subseteq rushed'
    /\ \A b \in Bookings : /\ \/ status'[b] \in Occupying => status[b] \in Occupying
                              \/ b \in astray'
                           /\ last'[b] = last[b] \/ b \in rushed'
                           /\ Submitting(b)' => Submitting(b)

\* A status written by id keeps a booking out of the calendar, or leaves the
\* lifecycle, unless it is the insert.
LEMMA CalmStatus ==
  ASSUME Types, NEW b \in Bookings, NEW s \in BookingStatuses \ {"PENDING_APPROVAL"},
         SetStatus(b, s)
  PROVE  /\ astray \subseteq astray'
         /\ \A o \in Bookings : \/ status'[o] \in Occupying => status[o] \in Occupying
                                 \/ o \in astray'
  <1>1. status' = [status EXCEPT ![b] = s] /\ astray \subseteq astray'
    BY DEF SetStatus
  <1>2. status[b] = s \/ <<status[b], s>> \in Lifecycle \/ b \in astray'
    BY DEF SetStatus
  <1>3. <<status[b], s>> \in Lifecycle /\ s \in Occupying => status[b] \in Occupying
    BY DEF Lifecycle, Occupying
  <1>4. QED
    BY <1>1, <1>2, <1>3 DEF Types, TypeOK

LEMMA CalmStep ==
  ASSUME Types, [Next]_vars
  PROVE  \/ \E b \in Bookings : SubmitCalendar(b) \/ SubmitCreate(b)
         \/ Calm
  <1> USE Kinds DEF Types, TypeOK, Move, Goto, rowVars, queueVars, CallsOf, Calm, Submitting
  <1>0. \A b \in Bookings, s \in BookingStatuses \ {"PENDING_APPROVAL"} : SetStatus(b, s) =>
            /\ astray \subseteq astray'
            /\ \A o \in Bookings : \/ status'[o] \in Occupying => status[o] \in Occupying
                                    \/ o \in astray'
    BY CalmStatus
  <1> USE DEF BookingStatuses, Occupying
  <1>1. ASSUME NEW b \in Bookings, SubmitRooms(b) PROVE Calm
    BY <1>1 DEF SubmitRooms
  <1>2. ASSUME NEW c \in Calls, NEW ok, Read(c, ok) PROVE Calm
    BY <1>2 DEF Read
  <1>3. ASSUME NEW c \in Calls, IssueReceipt(c) PROVE Calm
    BY <1>3 DEF IssueReceipt
  <1>4. ASSUME NEW c \in Calls, DecideStep(c) PROVE Calm
    <2>1. CASE DecideNo(c)
      BY <1>0, <2>1 DEF DecideNo
    <2>2. CASE DecideApprove(c)
      BY <1>0, <2>2 DEF DecideApprove
    <2>3. CASE DecideEnqueue(c)
      BY <2>3 DEF DecideEnqueue
    <2>4. QED
      BY <1>2, <1>3, <1>4, <2>1, <2>2, <2>3 DEF DecideStep, DecideRead
  <1>5. ASSUME NEW c \in Calls, ProofStep(c) PROVE Calm
    <2>1. CASE ProofWrite(c)
      BY <1>0, <2>1 DEF ProofWrite
    <2>2. CASE ProofLookup(c) \/ ProofRead(c)
      BY <2>2 DEF ProofLookup, ProofRead
    <2>3. QED
      BY <1>5, <2>1, <2>2 DEF ProofStep
  <1>6. ASSUME NEW c \in Calls, VerifyStep(c) PROVE Calm
    <2>1. CASE VerifyReject(c)
      BY <1>0, <2>1 DEF VerifyReject
    <2>2. CASE VerifyApprove(c)
      BY <1>0, <2>2 DEF VerifyApprove
    <2>3. CASE VerifyOccupy(c) \/ VerifyUnqueue(c)
      BY <2>3 DEF VerifyOccupy, VerifyUnqueue
    <2>4. QED
      BY <1>2, <1>3, <1>6, <2>1, <2>2, <2>3 DEF VerifyStep, VerifyRead
  <1>7. ASSUME NEW c \in Calls, DeskStep(c) PROVE Calm
    <2>1. CASE CheckInWrite(c)
      BY <1>0, <2>1 DEF CheckInWrite
    <2>2. CASE CheckOutWrite(c)
      BY <1>0, <2>2 DEF CheckOutWrite
    <2>3. CASE CheckInOccupy(c) \/ CheckOutClean(c)
      BY <2>3 DEF CheckInOccupy, CheckOutClean
    <2>4. CASE TransferWrite(c) \/ TransferClean(c) \/ TransferOccupy(c)
      BY <2>4 DEF TransferWrite, TransferClean, TransferOccupy
    <2>5. CASE Housekeeping(c) \/ CloseDay(c)
      BY <2>5 DEF Housekeeping, CloseDay
    <2>6. CASE ExtendWrite(c)
      BY <2>6 DEF ExtendWrite
    <2>7. QED
      BY <1>2, <1>7, <2>1, <2>2, <2>3, <2>4, <2>5, <2>6 DEF DeskStep, DeskRead
  <1>8. ASSUME NEW r \in Requests, Die(r) PROVE Calm
    BY <1>8 DEF Die
  <1>9. ASSUME NEW c \in Approvals, Lapse(c) PROVE Calm
    BY <1>9 DEF Lapse
  <1>10. ASSUME NEW b \in Bookings, ExpireRead(b) \/ ExpireWrite(b) PROVE Calm
    BY <1>0, <1>10 DEF ExpireRead, ExpireWrite
  <1>11. CASE UNCHANGED vars
    BY <1>11 DEF vars
  <1> HIDE DEF Calm
  <1>12. QED
    BY <1>1, <1>4, <1>5, <1>6, <1>7, <1>8, <1>9, <1>10, <1>11, Steps DEF SubmitStep

\* Fewer orderly bookings hold a day, or the same.
LEMMA FewerOrderly ==
  ASSUME Types, NEW i \in Items, NEW d \in Int, Plain(i), Orderly(i, d)' \subseteq Orderly(i, d)
  PROVE  Cardinality(Orderly(i, d)') <= Cardinality(Orderly(i, d))
  BY PlainDay, FS_Subset

LEMMA CalmKeepsOrder ==
  ASSUME Types, RaceInv, Calm
  PROVE  RaceInv'
  <1>1. \A i \in Items, d \in Int : Orderly(i, d)' \subseteq Orderly(i, d)
    BY DEF Calm, Orderly, Holding
  <1>2. \A i \in Items, d \in Int : Plain(i) =>
            /\ Cardinality(Orderly(i, d)') <= Cardinality(Orderly(i, d))
            /\ Cardinality(Orderly(i, d)') \in Nat /\ Cardinality(Orderly(i, d)) \in Nat
            /\ MaxBookings[i] \in Nat
    BY <1>1, FewerOrderly, PlainDay, FS_Subset, FS_CardinalityType, BookingAssumption
  <1>3. StayInv'
    BY DEF RaceInv, StayInv, Calm
  <1>4. OrderlyFits'
    BY <1>2 DEF RaceInv, OrderlyFits, Plain
  <1>5. ASSUME NEW b \in Bookings, Submitting(b)', b \notin rushed'
        PROVE  /\ \A o \in Bookings : Submitting(o)' /\ ItemOf[o] = ItemOf[b] => o = b
               /\ Plain(ItemOf[b]) => \A d \in FirstDay[b] .. LastDay[b] :
                     Cardinality(Orderly(ItemOf[b], d)') < MaxBookings[ItemOf[b]]
    <2>1. Submitting(b) /\ b \notin rushed /\ ItemOf[b] \in Items
      BY <1>5, BookingAssumption DEF Calm
    <2>2. FirstDay[b] .. LastDay[b] \subseteq Int
      BY BookingAssumption
    <2>3. QED
      BY <1>2, <2>1, <2>2 DEF RaceInv, RoomLeft, Calm
  <1>6. RoomLeft'
    BY <1>5 DEF RoomLeft, Plain
  <1>7. QED
    BY <1>3, <1>4, <1>6 DEF RaceInv

\* A submission that finds its days open, alone, leaves room for itself.
LEMMA CalendarKeepsOrder ==
  ASSUME Types, RaceInv, NEW b \in Bookings, SubmitCalendar(b)
  PROVE  RaceInv'
  <1> USE Kinds DEF Types, TypeOK, Move, Goto, rowVars, Submitting
  <1>1. /\ UNCHANGED <<status, last, astray>> /\ rushed \subseteq rushed'
        /\ \A o \in Bookings \ {b} : pc'[o] = pc[o]
    BY DEF SubmitCalendar
  <1>2. \A i \in Items, d \in Int : Orderly(i, d)' \subseteq Orderly(i, d)
    BY <1>1 DEF Orderly, Holding
  <1>3. \A i \in Items, d \in Int : Plain(i) =>
            /\ Cardinality(Orderly(i, d)') <= Cardinality(Orderly(i, d))
            /\ Cardinality(Orderly(i, d)') \in Nat /\ Cardinality(Orderly(i, d)) \in Nat
            /\ MaxBookings[i] \in Nat
    BY <1>2, FewerOrderly, PlainDay, FS_Subset, FS_CardinalityType, BookingAssumption
  <1>4. StayInv' /\ OrderlyFits'
    BY <1>1, <1>3 DEF RaceInv, StayInv, OrderlyFits, Plain
  <1>5. \A o \in Bookings : ItemOf[o] \in Items /\ FirstDay[o] .. LastDay[o] \subseteq Int
    BY BookingAssumption
  <1>6. Submitting(b)' =>
            /\ \A d \in FirstDay[b] .. LastDay[b] : Open(ItemOf[b], d)
            /\ \A o \in Bookings \ {b} : ItemOf[o] = ItemOf[b] /\ Submitting(o) =>
                   {o, b} \subseteq rushed'
    BY DEF SubmitCalendar
  <1>7. ASSUME NEW o \in Bookings, Submitting(o)', o \notin rushed'
        PROVE  /\ \A p \in Bookings : Submitting(p)' /\ ItemOf[p] = ItemOf[o] => p = o
               /\ Plain(ItemOf[o]) => \A d \in FirstDay[o] .. LastDay[o] :
                     Cardinality(Orderly(ItemOf[o], d)') < MaxBookings[ItemOf[o]]
    <2>1. CASE o = b
      <3>1. \A d \in FirstDay[b] .. LastDay[b] :
               Plain(ItemOf[b]) => Cardinality(Orderly(ItemOf[b], d)) < MaxBookings[ItemOf[b]]
        BY <1>3, <1>5, <1>6, <1>7, <2>1, PlainDay DEF Open
      <3>2. QED
        BY <1>1, <1>3, <1>5, <1>6, <1>7, <2>1, <3>1
    <2>2. CASE o # b
      <3>1. Submitting(o) /\ o \notin rushed
        BY <1>1, <1>7, <2>2
      <3>2. ~(Submitting(b)' /\ ItemOf[b] = ItemOf[o])
        BY <1>6, <1>7, <2>2, <3>1
      <3>3. QED
        BY <1>1, <1>3, <1>5, <3>1, <3>2 DEF RaceInv, RoomLeft
    <2>3. QED
      BY <2>1, <2>2
  <1>8. RoomLeft'
    BY <1>7 DEF RoomLeft, Plain
  <1>9. QED
    BY <1>4, <1>8 DEF RaceInv

\* The insert adds one booking to the days that had room for it.
LEMMA InsertKeepsOrder ==
  ASSUME Types, RaceInv, NEW b \in Bookings, SubmitCreate(b)
  PROVE  RaceInv'
  <1> USE Kinds DEF Types, TypeOK, Move, Goto
  <1>1. /\ UNCHANGED <<last, rushed>> /\ astray \subseteq astray'
        /\ \A o \in Bookings \ {b} : status'[o] = status[o] /\ pc'[o] = pc[o]
        /\ Submitting(b) /\ ~Submitting(b)'
    BY DEF SubmitCreate, SetStatus, Submitting
  <1>2. \A i \in Items, d \in Int : i # ItemOf[b] => Orderly(i, d)' \subseteq Orderly(i, d)
    BY <1>1 DEF Orderly, Holding
  <1>3. \A i \in Items, d \in Int :
            \/ Orderly(i, d)' \subseteq Orderly(i, d)
            \/ /\ i = ItemOf[b] /\ b \notin rushed /\ d \in FirstDay[b] .. LastDay[b]
               /\ Orderly(i, d)' \subseteq Orderly(i, d) \union {b}
    <2> SUFFICES ASSUME NEW i \in Items, NEW d \in Int,
                        ~(Orderly(i, d)' \subseteq Orderly(i, d))
                 PROVE  /\ i = ItemOf[b] /\ b \notin rushed /\ d \in FirstDay[b] .. LastDay[b]
                        /\ Orderly(i, d)' \subseteq Orderly(i, d) \union {b}
      OBVIOUS
    <2>1. Orderly(i, d)' \subseteq Orderly(i, d) \union {b} /\ b \in Orderly(i, d)'
      BY <1>1 DEF Orderly, Holding
    <2>2. i = ItemOf[b] /\ b \notin rushed /\ FirstDay[b] <= d /\ d <= last[b]
      BY <1>1, <2>1 DEF Orderly, Holding
    <2>3. d <= LastDay[b]
      BY <2>2 DEF RaceInv, StayInv
    <2>4. FirstDay[b] \in Int /\ LastDay[b] \in Int
      BY BookingAssumption
    <2>5. QED
      BY <2>1, <2>2, <2>3, <2>4
  <1>4. ASSUME NEW i \in Items, NEW d \in Int, Plain(i)
        PROVE  /\ Cardinality(Orderly(i, d)') <= MaxBookings[i]
               /\ i # ItemOf[b] => Cardinality(Orderly(i, d)') <= Cardinality(Orderly(i, d))
    <2>1. /\ MaxBookings[i] \in Nat /\ Cardinality(Orderly(i, d)) \in Nat
          /\ IsFiniteSet(Orderly(i, d)) /\ Cardinality(Orderly(i, d)) <= MaxBookings[i]
      BY <1>4, PlainDay, BookingAssumption DEF RaceInv, OrderlyFits
    <2>2. CASE Orderly(i, d)' \subseteq Orderly(i, d)
      <3>1. /\ Cardinality(Orderly(i, d)') <= Cardinality(Orderly(i, d))
            /\ Cardinality(Orderly(i, d)') \in Nat
        BY <2>1, <2>2, FS_Subset, FS_CardinalityType
      <3>2. QED
        BY <2>1, <3>1
    <2>3. CASE ~(Orderly(i, d)' \subseteq Orderly(i, d))
      <3>1. /\ i = ItemOf[b] /\ b \notin rushed /\ d \in FirstDay[b] .. LastDay[b]
            /\ Orderly(i, d)' \subseteq Orderly(i, d) \union {b}
        BY <1>3, <2>3
      <3>2. Cardinality(Orderly(i, d)) < MaxBookings[i]
        BY <1>1, <1>4, <3>1 DEF RaceInv, RoomLeft
      <3>3. /\ IsFiniteSet(Orderly(i, d) \union {b})
            /\ Cardinality(Orderly(i, d) \union {b}) <= Cardinality(Orderly(i, d)) + 1
            /\ Cardinality(Orderly(i, d) \union {b}) \in Nat
        BY <2>1, OneMore
      <3>4. /\ Cardinality(Orderly(i, d)') <= Cardinality(Orderly(i, d) \union {b})
            /\ Cardinality(Orderly(i, d)') \in Nat
        BY <3>1, <3>3, FS_Subset, FS_CardinalityType
      <3>5. QED
        BY <2>1, <3>1, <3>2, <3>3, <3>4
    <2>4. QED
      BY <2>2, <2>3
  <1>5. OrderlyFits'
    BY <1>4 DEF OrderlyFits, Plain
  <1>6. ASSUME NEW o \in Bookings, Submitting(o)', o \notin rushed'
        PROVE  /\ \A p \in Bookings : Submitting(p)' /\ ItemOf[p] = ItemOf[o] => p = o
               /\ Plain(ItemOf[o]) => \A d \in FirstDay[o] .. LastDay[o] :
                     Cardinality(Orderly(ItemOf[o], d)') < MaxBookings[ItemOf[o]]
    <2>1. o # b /\ Submitting(o) /\ o \notin rushed
      BY <1>1, <1>6 DEF Submitting
    <2>2. ItemOf[o] # ItemOf[b]
      BY <1>1, <2>1 DEF RaceInv, RoomLeft
    <2>3. \A p \in Bookings : Submitting(p)' => Submitting(p)
      BY <1>1 DEF Submitting
    <2>4. ItemOf[o] \in Items /\ FirstDay[o] .. LastDay[o] \subseteq Int
      BY BookingAssumption
    <2>5. ASSUME Plain(ItemOf[o]), NEW d \in FirstDay[o] .. LastDay[o]
          PROVE  Cardinality(Orderly(ItemOf[o], d)') < MaxBookings[ItemOf[o]]
      <3>1. Cardinality(Orderly(ItemOf[o], d)) < MaxBookings[ItemOf[o]]
        BY <2>1, <2>5 DEF RaceInv, RoomLeft
      <3>2. Orderly(ItemOf[o], d)' \subseteq Orderly(ItemOf[o], d)
        BY <1>2, <2>2, <2>4
      <3>3. /\ Cardinality(Orderly(ItemOf[o], d)') <= Cardinality(Orderly(ItemOf[o], d))
            /\ Cardinality(Orderly(ItemOf[o], d)') \in Nat
            /\ Cardinality(Orderly(ItemOf[o], d)) \in Nat /\ MaxBookings[ItemOf[o]] \in Nat
        BY <2>4, <2>5, <3>2, PlainDay, FS_Subset, FS_CardinalityType, BookingAssumption
      <3>4. QED
        BY <3>1, <3>3
    <2>6. QED
      BY <2>1, <2>3, <2>5 DEF RaceInv, RoomLeft
  <1>7. RoomLeft'
    BY <1>6 DEF RoomLeft, Plain
  <1>8. StayInv'
    BY <1>1 DEF RaceInv, StayInv
  <1>9. QED
    BY <1>5, <1>7, <1>8 DEF RaceInv

LEMMA InitRace == Init => RaceInv
  <1> SUFFICES ASSUME Init PROVE RaceInv
    OBVIOUS
  <1>1. PICK w \in Workloads : pc = [r \in Requests |-> IF r \in w THEN "start" ELSE "absent"]
    BY DEF Init
  <1>2. \A b \in Bookings : ~Submitting(b)
    BY <1>1, Kinds DEF Submitting
  <1>3. \A i \in Items, d \in Int : Orderly(i, d) = {}
    BY DEF Init, Orderly, Holding, Occupying
  <1>4. \A i \in Items : MaxBookings[i] \in Nat
    BY BookingAssumption
  <1>5. StayInv
    BY DEF StayInv, Init
  <1>6. RoomLeft
    BY <1>2 DEF RoomLeft
  <1>7. OrderlyFits
    BY <1>3, <1>4, FS_EmptySet DEF OrderlyFits
  <1>8. QED
    BY <1>5, <1>6, <1>7 DEF RaceInv

\* A day of a plain item goes over its maximum only if one of its bookings was
\* submitted while another submission was open, was extended, or left the
\* lifecycle: between check and insert the database promises nothing more.
THEOREM OverbookedInARaceOnly == Spec => []OverbookedOnlyByRace
  <1>1. Types /\ RaceInv /\ [Next]_vars => RaceInv'
    BY CalmStep, CalmKeepsOrder, CalendarKeepsOrder, InsertKeepsOrder
  <1>2. Types /\ RaceInv => OverbookedOnlyByRace
    <2> SUFFICES ASSUME Types, RaceInv, NEW i \in Items, NEW d \in Days, Plain(i),
                        Held(i, d) > MaxBookings[i],
                        Holding(i, d) \intersect (rushed \union astray) = {}
                 PROVE  FALSE
      BY DEF OverbookedOnlyByRace, Plain
    <2>1. Orderly(i, d) = Holding(i, d)
      BY DEF Orderly
    <2>2. d \in Int /\ MaxBookings[i] \in Nat
      BY BookingAssumption
    <2>3. QED
      BY <2>1, <2>2, PlainDay DEF RaceInv, OrderlyFits
  <1>3. QED
    BY <1>1, <1>2, InitTypes, InitRace, TypesStep, PTL DEF Spec
=============================================================================
