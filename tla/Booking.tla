------------------------------- MODULE Booking -------------------------------
(***************************************************************************)
(* Bookings of rooms and halls, src/src/modules/bookings: submission,      *)
(* decision, offline payment with a proof, the payment window and its      *)
(* delayed job, receipts, and the front desk. Every handler reads the      *)
(* booking, checks the status it read, and writes the row by id in a later *)
(* statement of its own; nothing is locked. Every action is one statement  *)
(* of one call, of the worker (the booking-payment-window queue) or of the *)
(* clock.                                                                  *)
(*                                                                         *)
(* A booking is identified with the submitBooking call that creates it.    *)
(***************************************************************************)
EXTENDS Integers, FiniteSets, Functions

CONSTANTS Items, Rooms, Days,
          Bookings,
          ItemOf, FirstDay, LastDay, QtyOf,  \* inputs of submitBooking
          RoomsOf,       \* rooms and halls of the same name as an item
          Paid,          \* items of type PAID
          MaxBookings,   \* capacityMaxBookings of an item, 0 when not set
          NoLimit,       \* the capacity without rooms or a maximum (999)
          Calls,         \* the other calls
          Input,         \* Input[c]: the op of call c, the booking b it is
                         \* about, and its other inputs
          Workloads,     \* the sets of requests that may arrive together
          MaxDeaths,     \* bound: how many calls may die half-way
          NoKey, NoCall

Requests == Bookings \union Calls
Op(c) == Input[c].op
Of(c) == Input[c].b
CallsOf(op) == {c \in Calls : Op(c) = op}
Approvals == {c \in CallsOf("decide") : Input[c].decision = "APPROVE"}

RoomStatuses == {"AVAILABLE", "OCCUPIED", "DIRTY", "UNDER_CLEANING", "READY", "MAINTENANCE",
                 "UNAVAILABLE"}

ASSUME BookingAssumption ==
    /\ ItemOf \in [Bookings -> Items]
    /\ DOMAIN Input = Calls /\ \A c \in Calls : Of(c) \in Bookings
    /\ FirstDay \in [Bookings -> Days] /\ LastDay \in [Bookings -> Days]
    /\ QtyOf \in [Bookings -> Nat \ {0}]
    /\ RoomsOf \in [Items -> SUBSET Rooms]
    /\ Paid \subseteq Items
    /\ MaxBookings \in [Items -> Nat] /\ NoLimit \in Nat /\ MaxDeaths \in Nat
    /\ Days \subseteq Int /\ IsFiniteSet(Bookings) /\ IsFiniteSet(Rooms)
    /\ Workloads \subseteq SUBSET Requests
    /\ NoCall \notin Calls
    /\ Bookings \intersect Calls = {}

\* The inputs of the calls have the types the request schemas give them.
ASSUME InputAssumption ==
    /\ \A c \in Calls : Op(c) \in {"decide", "checkIn", "transfer", "housekeeping"} =>
                           Input[c].rooms \subseteq Rooms
    /\ \A c \in CallsOf("housekeeping") : Input[c].to \in RoomStatuses
    /\ \A c \in CallsOf("close") \union CallsOf("reopen") :
           Input[c].item \in Items /\ Input[c].day \in Days

Occupying == {"SUBMITTED", "PENDING_APPROVAL", "APPROVED", "PAYMENT_PENDING",
              "PAYMENT_VERIFICATION", "CONFIRMED", "CHECKED_IN"}
AwaitingPayment == {"PAYMENT_PENDING", "PAYMENT_VERIFICATION"}

VARIABLES
    status,     \* status[b], "none" before b exists
    last,       \* last[b]: dateTo
    alloc,      \* alloc[b]: allocatedRoomId, which may list several rooms
    key,        \* key[b]: idempotencyKey
    window,     \* window[b]: the approval whose paymentWindowExpiresAt b has
    lapsed,     \* approvals whose payment window is over
    job,        \* job[b]: state of the job booking-expiry-b
    jobBy,      \* jobBy[b]: the approval that enqueued it
    room,       \* room[r]: status of r
    closed,     \* closed[i]: days blacked out or internally reserved
    receipts,   \* bookings with a receipt
    pc,         \* pc[r]: the next step of request r
    seen,       \* seen[c]: what c read of its booking
    astray,     \* history: bookings that left the lifecycle (see Lifecycle)
    rushed,     \* history: bookings submitted while another submit was open,
                \* or extended
    proved      \* history: bookings with a proof of payment

rowVars == <<status, last, alloc, key, window>>
queueVars == <<lapsed, job, jobBy>>
vars == <<rowVars, queueVars, room, closed, receipts, pc, seen,
          astray, rushed, proved>>

Init ==
    /\ status = [b \in Bookings |-> "none"]
    /\ last = LastDay
    /\ alloc = [b \in Bookings |-> {}]
    /\ key = [b \in Bookings |-> NoKey]
    /\ window = [b \in Bookings |-> NoCall]
    /\ lapsed = {}
    /\ job = [b \in Bookings |-> "none"]
    /\ jobBy = [b \in Bookings |-> NoCall]
    /\ room = [r \in Rooms |-> "AVAILABLE"]
    /\ closed = [i \in Items |-> {}]
    /\ receipts = {}
    /\ \E w \in Workloads :
           pc = [r \in Requests |-> IF r \in w THEN "start" ELSE "absent"]
    /\ seen = [c \in Calls |-> [rooms |-> {}, last |-> 0]]
    /\ astray = {} /\ rushed = {} /\ proved = {}

Goto(r, label) == pc' = [pc EXCEPT ![r] = label]
Move(r, from, to) == pc[r] = from /\ Goto(r, to)

\* The steps the handlers mean a booking to take.
Lifecycle ==
    {<<"none", "PENDING_APPROVAL">>, <<"PENDING_APPROVAL", "REJECTED">>,
     <<"PENDING_APPROVAL", "PAYMENT_PENDING">>,
     <<"PENDING_APPROVAL", "CONFIRMED">>,
     <<"PAYMENT_PENDING", "PAYMENT_VERIFICATION">>,
     <<"PAYMENT_VERIFICATION", "PAYMENT_PENDING">>,
     <<"PAYMENT_VERIFICATION", "CONFIRMED">>,
     <<"PAYMENT_PENDING", "EXPIRED">>, <<"PAYMENT_VERIFICATION", "EXPIRED">>,
     <<"CONFIRMED", "CHECKED_IN">>, <<"CHECKED_IN", "CHECKED_OUT">>}

\* The row is written by id, whatever its status has become.
SetStatus(b, s) ==
    /\ status' = [status EXCEPT ![b] = s]
    /\ astray' = IF status[b] = s \/ <<status[b], s>> \in Lifecycle
                 THEN astray ELSE astray \union {b}

SetRooms(rs, s) == room' = [r \in Rooms |-> IF r \in rs THEN s ELSE room[r]]

\* roomOrHall.update by one id: a list of ids matches no room.
SetRoom(rs, s) == SetRooms(IF Cardinality(rs) = 1 THEN rs ELSE {}, s)

Remember(c) == seen' = [seen EXCEPT ![c] = [rooms |-> alloc[Of(c)], last |-> last[Of(c)]]]

\* A call reads its booking: it goes on if the status passes, else is refused.
Read(c, ok) ==
    /\ status[Of(c)] # "none"
    /\ Move(c, "start", IF ok THEN "write" ELSE "refused")
    /\ Remember(c)
    /\ UNCHANGED <<rowVars, queueVars, room, closed, receipts, astray, rushed, proved>>

-----------------------------------------------------------------------------
(* getAvailabilityCalendar, submitBooking *)

Free(i) == {r \in RoomsOf[i] : room[r] = "AVAILABLE"}

Capacity(i) == IF Free(i) # {} THEN Cardinality(Free(i))
               ELSE IF MaxBookings[i] > 0 THEN MaxBookings[i] ELSE NoLimit

Holding(i, d) == {b \in Bookings : /\ ItemOf[b] = i
                                   /\ status[b] \in Occupying
                                   /\ FirstDay[b] <= d /\ d <= last[b]}

Held(i, d) == SumFunctionOnSet(QtyOf, Holding(i, d))

\* Mutation: a confirmed booking no longer counts.
OpenUnlessConfirmed(i, d) ==
    /\ d \notin closed[i]
    /\ SumFunctionOnSet(QtyOf, {b \in Holding(i, d) : status[b] # "CONFIRMED"}) < Capacity(i)

\* The day is AVAILABLE in the calendar.
Open(i, d) == d \notin closed[i] /\ Held(i, d) < Capacity(i)

SubmitCalendar(b) ==
    LET others == {o \in Bookings \ {b} : /\ ItemOf[o] = ItemOf[b]
                                          /\ pc[o] \in {"rooms", "create"}}
    IN
    /\ \/ /\ \A d \in FirstDay[b] .. LastDay[b] : Open(ItemOf[b], d)
          /\ Move(b, "start", "rooms")
          /\ rushed' = IF others = {} THEN rushed ELSE rushed \union others \union {b}
       \/ /\ \E d \in FirstDay[b] .. LastDay[b] : ~Open(ItemOf[b], d)
          /\ Move(b, "start", "refused")
          /\ UNCHANGED rushed
    /\ UNCHANGED <<rowVars, queueVars, room, closed, receipts, seen, astray, proved>>

\* The quantity is compared with the free rooms, or with the item's maximum:
\* with the whole capacity, not with what is left of it.
SubmitRooms(b) ==
    LET i == ItemOf[b]
        tooMany == \/ Free(i) # {} /\ QtyOf[b] > Cardinality(Free(i))
                   \/ MaxBookings[i] > 0 /\ QtyOf[b] > MaxBookings[i]
    IN
    /\ Move(b, "rooms", IF tooMany THEN "refused" ELSE "create")
    /\ UNCHANGED <<rowVars, queueVars, room, closed, receipts, seen,
                   astray, rushed, proved>>

SubmitCreate(b) ==
    /\ Move(b, "create", "done")
    /\ SetStatus(b, "PENDING_APPROVAL")
    /\ UNCHANGED <<last, alloc, key, window, queueVars, room, closed, receipts,
                   seen, rushed, proved>>

\* addBlackoutDate, addInternalReservation; removeInternalReservation.
CloseDay(c) ==
    /\ Move(c, "start", "done")
    /\ closed' = [closed EXCEPT ![Input[c].item] =
                      IF Op(c) = "close" THEN @ \union {Input[c].day} ELSE @ \ {Input[c].day}]
    /\ UNCHANGED <<rowVars, queueVars, room, receipts, seen, astray, rushed, proved>>

-----------------------------------------------------------------------------
(* decideBooking *)

DecideRead(c) == Read(c, status[Of(c)] = "PENDING_APPROVAL")

\* REJECT, and REQUEST_INFO (which writes the history only).
DecideNo(c) ==
    /\ Move(c, "write", "done")
    /\ \/ Input[c].decision = "REJECT" /\ SetStatus(Of(c), "REJECTED")
       \/ Input[c].decision = "REQUEST_INFO" /\ UNCHANGED <<status, astray>>
    /\ UNCHANGED <<last, alloc, key, window, queueVars, room, closed, receipts,
                   seen, rushed, proved>>

\* APPROVE: a PAID item opens the payment window, a FREE one is confirmed.
DecideApprove(c) ==
    LET paid == ItemOf[Of(c)] \in Paid IN
    /\ Input[c].decision = "APPROVE"
    /\ Move(c, "write", IF paid THEN "enqueue" ELSE "receipt")
    /\ SetStatus(Of(c), IF paid THEN "PAYMENT_PENDING" ELSE "CONFIRMED")
    /\ window' = IF paid THEN [window EXCEPT ![Of(c)] = c] ELSE window
    /\ alloc' = IF Input[c].rooms = {} THEN alloc ELSE [alloc EXCEPT ![Of(c)] = Input[c].rooms]
    /\ UNCHANGED <<last, key, queueVars, room, closed, receipts, seen, rushed, proved>>

\* A job of that id, waiting or completed, makes the queue ignore the new one.
DecideEnqueue(c) ==
    /\ Move(c, "enqueue", "done")
    /\ \/ /\ job[Of(c)] = "none"
          /\ job' = [job EXCEPT ![Of(c)] = "delayed"]
          /\ jobBy' = [jobBy EXCEPT ![Of(c)] = c]
       \/ job[Of(c)] # "none" /\ UNCHANGED <<job, jobBy>>
    /\ UNCHANGED <<rowVars, lapsed, room, closed, receipts, seen, astray, rushed, proved>>

-----------------------------------------------------------------------------
(* submitPaymentProof *)

ProofLookup(c) ==
    /\ status[Of(c)] # "none"
    /\ Move(c, "start", IF \E b \in Bookings : key[b] = Input[c].key
                        THEN "replayed" ELSE "read")
    /\ UNCHANGED <<rowVars, queueVars, room, closed, receipts, seen,
                   astray, rushed, proved>>

ProofRead(c) ==
    /\ Move(c, "read", IF /\ status[Of(c)] = "PAYMENT_PENDING"
                          /\ window[Of(c)] \notin lapsed
                       THEN "write" ELSE "refused")
    /\ UNCHANGED <<rowVars, queueVars, room, closed, receipts, seen,
                   astray, rushed, proved>>

\* idempotencyKey is unique.
ProofWrite(c) ==
    /\ \/ /\ \E b \in Bookings \ {Of(c)} : key[b] = Input[c].key
          /\ Move(c, "write", "failed")
          /\ UNCHANGED <<status, key, astray, proved>>
       \/ /\ \A b \in Bookings \ {Of(c)} : key[b] # Input[c].key
          /\ Move(c, "write", "done")
          /\ SetStatus(Of(c), "PAYMENT_VERIFICATION")
          /\ key' = [key EXCEPT ![Of(c)] = Input[c].key]
          /\ proved' = proved \union {Of(c)}
    /\ UNCHANGED <<last, alloc, window, queueVars, room, closed, receipts, seen, rushed>>

-----------------------------------------------------------------------------
(* verifyPayment *)

\* Mutation: the payment is accepted before any proof came.
VerifyReadPending(c) == Read(c, status[Of(c)] \in AwaitingPayment)

VerifyRead(c) == Read(c, status[Of(c)] = "PAYMENT_VERIFICATION")

\* REJECT returns to PAYMENT_PENDING, whether or not the window is still open.
VerifyReject(c) ==
    /\ Input[c].decision = "REJECT"
    /\ Move(c, "write", "done")
    /\ SetStatus(Of(c), "PAYMENT_PENDING")
    /\ key' = [key EXCEPT ![Of(c)] = NoKey]
    /\ UNCHANGED <<last, alloc, window, queueVars, room, closed, receipts, seen,
                   rushed, proved>>

VerifyApprove(c) ==
    /\ Input[c].decision = "APPROVE"
    /\ Move(c, "write", "occupy")
    /\ SetStatus(Of(c), "CONFIRMED")
    /\ UNCHANGED <<last, alloc, key, window, queueVars, room, closed, receipts,
                   seen, rushed, proved>>

VerifyOccupy(c) ==
    /\ Move(c, "occupy", "unqueue")
    /\ SetRooms(seen[c].rooms, "OCCUPIED")
    /\ UNCHANGED <<rowVars, queueVars, closed, receipts, seen, astray, rushed, proved>>

\* job.remove() fails on a job a worker is running.
VerifyUnqueue(c) ==
    /\ Move(c, "unqueue", "receipt")
    /\ job' = [job EXCEPT ![Of(c)] = IF @ = "active" THEN @ ELSE "none"]
    /\ UNCHANGED <<rowVars, lapsed, jobBy, room, closed, receipts, seen,
                   astray, rushed, proved>>

\* Mutation: a receipt only for a booking still CONFIRMED.
IssueReceiptIfConfirmed(c) ==
    /\ Move(c, "receipt", IF Of(c) \in receipts THEN "failed" ELSE "done")
    /\ receipts' = IF status[Of(c)] = "CONFIRMED" THEN receipts \union {Of(c)} ELSE receipts
    /\ UNCHANGED <<rowVars, queueVars, room, closed, seen, astray, rushed, proved>>

\* issueBookingReceipt: bookingId is unique among receipts.
IssueReceipt(c) ==
    /\ Move(c, "receipt", IF Of(c) \in receipts THEN "failed" ELSE "done")
    /\ receipts' = receipts \union {Of(c)}
    /\ UNCHANGED <<rowVars, queueVars, room, closed, seen, astray, rushed, proved>>

-----------------------------------------------------------------------------
(* The clock, and expireBookingPaymentWindow in the worker *)

Lapse(c) ==
    /\ c \notin lapsed
    /\ ItemOf[Of(c)] \in Paid
    /\ pc[c] \in {"enqueue", "done", "dead"}
    /\ lapsed' = lapsed \union {c}
    /\ UNCHANGED <<rowVars, job, jobBy, room, closed, receipts, pc, seen,
                   astray, rushed, proved>>

\* Mutation: a booking under verification is left alone.
ExpireReadPendingOnly(b) ==
    /\ job[b] = "delayed" /\ jobBy[b] \in lapsed
    /\ job' = [job EXCEPT ![b] = IF status[b] = "PAYMENT_PENDING"
                                 THEN "active" ELSE "completed"]
    /\ UNCHANGED <<rowVars, lapsed, jobBy, room, closed, receipts, pc, seen,
                   astray, rushed, proved>>

ExpireRead(b) ==
    /\ job[b] = "delayed" /\ jobBy[b] \in lapsed
    /\ job' = [job EXCEPT ![b] = IF status[b] \in AwaitingPayment
                                 THEN "active" ELSE "completed"]
    /\ UNCHANGED <<rowVars, lapsed, jobBy, room, closed, receipts, pc, seen,
                   astray, rushed, proved>>

\* Mutation: the job cancels, with a status no other handler knows.
ExpireWriteCancelled(b) ==
    /\ job[b] = "active"
    /\ job' = [job EXCEPT ![b] = "completed"]
    /\ SetStatus(b, "CANCELLED")
    /\ UNCHANGED <<last, alloc, key, window, lapsed, jobBy, room, closed, receipts,
                   pc, seen, rushed, proved>>

ExpireWrite(b) ==
    /\ job[b] = "active"
    /\ job' = [job EXCEPT ![b] = "completed"]
    /\ SetStatus(b, "EXPIRED")
    /\ UNCHANGED <<last, alloc, key, window, lapsed, jobBy, room, closed, receipts,
                   pc, seen, rushed, proved>>

-----------------------------------------------------------------------------
(* The front desk, which checks no status: checkInBooking, checkOutBooking, *)
(* transferRoom, extendStay; and housekeeping                               *)

DeskRead(c) ==
    Op(c) \in {"checkIn", "checkOut", "transfer", "extend"} /\ Read(c, TRUE)

\* The room of the call, or else the one the booking was read with.
CheckInWrite(c) ==
    /\ Move(c, "write", "occupy")
    /\ SetStatus(Of(c), "CHECKED_IN")
    /\ LET rs == IF Input[c].rooms # {} THEN Input[c].rooms ELSE seen[c].rooms IN
       /\ alloc' = IF rs = {} THEN alloc ELSE [alloc EXCEPT ![Of(c)] = rs]
       /\ seen' = [seen EXCEPT ![c].rooms = rs]
    /\ UNCHANGED <<last, key, window, queueVars, room, closed, receipts, rushed, proved>>

CheckInOccupy(c) ==
    /\ Move(c, "occupy", "done")
    /\ SetRoom(seen[c].rooms, "OCCUPIED")
    /\ UNCHANGED <<rowVars, queueVars, closed, receipts, seen, astray, rushed, proved>>

CheckOutWrite(c) ==
    /\ Move(c, "write", "clean")
    /\ SetStatus(Of(c), "CHECKED_OUT")
    /\ UNCHANGED <<last, alloc, key, window, queueVars, room, closed, receipts,
                   seen, rushed, proved>>

CheckOutClean(c) ==
    /\ Move(c, "clean", "done")
    /\ SetRooms(seen[c].rooms, "DIRTY")
    /\ UNCHANGED <<rowVars, queueVars, closed, receipts, seen, astray, rushed, proved>>

TransferWrite(c) ==
    /\ Move(c, "write", "clean")
    /\ alloc' = [alloc EXCEPT ![Of(c)] = Input[c].rooms]
    /\ UNCHANGED <<status, last, key, window, queueVars, room, closed, receipts,
                   seen, astray, rushed, proved>>

TransferClean(c) ==
    /\ Move(c, "clean", "occupy")
    /\ SetRoom(seen[c].rooms, "DIRTY")
    /\ UNCHANGED <<rowVars, queueVars, closed, receipts, seen, astray, rushed, proved>>

TransferOccupy(c) ==
    /\ Move(c, "occupy", "done")
    /\ SetRoom(Input[c].rooms, "OCCUPIED")
    /\ UNCHANGED <<rowVars, queueVars, closed, receipts, seen, astray, rushed, proved>>

\* No calendar is consulted. The bound: the last day modelled.
ExtendWrite(c) ==
    /\ seen[c].last + Input[c].days \in Days
    /\ Move(c, "write", "done")
    /\ last' = [last EXCEPT ![Of(c)] = seen[c].last + Input[c].days]
    /\ rushed' = rushed \union {Of(c)}
    /\ UNCHANGED <<status, alloc, key, window, queueVars, room, closed, receipts,
                   seen, astray, proved>>

\* updateHousekeepingStatus, updateRoomStatus
Housekeeping(c) ==
    /\ Move(c, "start", "done")
    /\ SetRooms(Input[c].rooms, Input[c].to)
    /\ UNCHANGED <<rowVars, queueVars, closed, receipts, seen, astray, rushed, proved>>

-----------------------------------------------------------------------------

\* The API process dies between two statements of a call.
Die(c) ==
    /\ pc[c] \in {"rooms", "create", "read", "write", "enqueue", "occupy",
                  "unqueue", "receipt", "clean"}
    /\ Cardinality({r \in Requests : pc[r] = "dead"}) < MaxDeaths
    /\ Goto(c, "dead")
    /\ UNCHANGED <<rowVars, queueVars, room, closed, receipts, seen,
                   astray, rushed, proved>>

SubmitStep(b) == SubmitCalendar(b) \/ SubmitRooms(b) \/ SubmitCreate(b)

DecideStep(c) == /\ Op(c) = "decide"
                 /\ \/ DecideRead(c) \/ DecideNo(c) \/ DecideApprove(c)
                    \/ DecideEnqueue(c) \/ IssueReceipt(c)

ProofStep(c) == /\ Op(c) = "proof"
                /\ ProofLookup(c) \/ ProofRead(c) \/ ProofWrite(c)

VerifyStep(c) == /\ Op(c) = "verify"
                 /\ \/ VerifyRead(c) \/ VerifyReject(c) \/ VerifyApprove(c)
                    \/ VerifyOccupy(c) \/ VerifyUnqueue(c) \/ IssueReceipt(c)

DeskStep(c) ==
    \/ DeskRead(c)
    \/ Op(c) = "checkIn" /\ (CheckInWrite(c) \/ CheckInOccupy(c))
    \/ Op(c) = "checkOut" /\ (CheckOutWrite(c) \/ CheckOutClean(c))
    \/ Op(c) = "transfer" /\ (TransferWrite(c) \/ TransferClean(c) \/ TransferOccupy(c))
    \/ Op(c) = "extend" /\ ExtendWrite(c)
    \/ Op(c) = "housekeeping" /\ Housekeeping(c)
    \/ Op(c) \in {"close", "reopen"} /\ CloseDay(c)

Ended == {"absent", "done", "refused", "replayed", "failed", "dead"}
Running(requests) == {r \in requests : pc[r] \notin Ended}

CallStep == \/ \E b \in Running(Bookings) : SubmitStep(b)
            \/ \E c \in Running(Calls) : \/ DecideStep(c) \/ ProofStep(c)
                                         \/ VerifyStep(c) \/ DeskStep(c)

Next == \/ CallStep
        \/ \E r \in Running(Requests) : Die(r)
        \/ \E c \in Approvals : Lapse(c)
        \/ \E b \in Bookings : ExpireRead(b) \/ ExpireWrite(b)

Spec == Init /\ [][Next]_vars

\* The server serves its calls, the clock goes on and the worker takes the
\* jobs that are due. Every step is taken at most a few times, so it is enough
\* that one of each kind is taken while one is possible.
Fairness ==
    /\ WF_vars(CallStep)
    /\ WF_vars(\E c \in Approvals : Lapse(c))
    /\ WF_vars(\E b \in Bookings : ExpireRead(b) \/ ExpireWrite(b))

FairSpec == Spec /\ Fairness

-----------------------------------------------------------------------------
(* Properties *)

\* Every variable has its type.
TypeOK ==
    /\ status \in [Bookings -> Occupying \union
                      {"none", "REJECTED", "EXPIRED", "CHECKED_OUT"}]
    /\ last \in [Bookings -> Days]
    /\ alloc \in [Bookings -> SUBSET Rooms]
    /\ window \in [Bookings -> Approvals \union {NoCall}]
    /\ lapsed \subseteq Approvals
    /\ job \in [Bookings -> {"none", "delayed", "active", "completed"}]
    /\ jobBy \in [Bookings -> Approvals \union {NoCall}]
    /\ room \in [Rooms -> RoomStatuses]
    /\ closed \in [Items -> SUBSET Days]
    /\ receipts \subseteq Bookings
    /\ astray \union rushed \union proved \subseteq Bookings

\* bookings.service.ts:396: a PAID booking is CONFIRMED only after its member
\* sent a proof of payment, whatever decisions, verifications and expiry raced.
ConfirmedIsProved ==
    \A b \in Bookings :
        status[b] = "CONFIRMED" /\ ItemOf[b] \in Paid => b \in proved

\* bookings.service.ts:226-242: what the availability check does guarantee,
\* for an item with a plain maximum and bookings of one unit: a day goes over
\* the maximum only if one of its bookings was submitted while another submit
\* was between check and insert, was extended, or left the lifecycle.
OverbookedOnlyByRace ==
    \A i \in Items, d \in Days :
        /\ RoomsOf[i] = {} /\ MaxBookings[i] > 0
        /\ \A b \in Bookings : ItemOf[b] = i => QtyOf[b] = 1
        /\ Held(i, d) > MaxBookings[i]
        => Holding(i, d) \intersect (rushed \union astray) # {}

\* The approver of b's window died before it enqueued the job.
Unattended(b) == \E c \in Approvals : Of(c) = b /\ pc[c] = "dead"

\* bookings.service.ts:444: a booking does not wait for payment for ever. Its
\* window ends in a confirmation or in the job, however often the proof is
\* rejected and sent again, unless the approver died before it enqueued the
\* job or a stale write left the lifecycle.
PaymentWindowEnds ==
    \A b \in Bookings :
        status[b] \in AwaitingPayment
            ~> status[b] \notin AwaitingPayment \/ b \in astray \/ Unattended(b)

\* bookings.service.ts:355, 433: whoever confirms a booking, it gets its
\* receipt, also when the job expires it in between or two verifications
\* race, unless a call died.
ConfirmedGetsReceipt ==
    \A b \in Bookings :
        status[b] = "CONFIRMED"
            ~> b \in receipts \/ \E r \in Requests : pc[r] = "dead"

\* bookings.service.ts:226, "Slot conflict check: ... + capacity": a day on
\* which every room of an item is taken is not open. The code counts AVAILABLE
\* rooms, and once none is left falls back to the maximum, or to 999.
FullHouseIsClosed ==
    \A i \in Items, d \in Days :
        RoomsOf[i] # {} /\ Held(i, d) >= Cardinality(RoomsOf[i]) => ~Open(i, d)

\* bookings.service.ts:366, "idempotency key prevents double submission": a
\* submission whose key the booking already carries changes nothing. Two calls
\* may both look the key up first; the later write reopens a settled booking.
RepeatedProofHarmless ==
    [][\A c \in CallsOf("proof") :
          pc[c] = "write" /\ pc'[c] = "done" /\ key[Of(c)] = Input[c].key
              => status'[Of(c)] = status[Of(c)]]_vars
=============================================================================
