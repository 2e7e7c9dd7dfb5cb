-------------------------------- MODULE Rsvp --------------------------------
(***************************************************************************)
(* RSVPs to one free event, src/src/modules/events/events.service.ts: a    *)
(* member RSVPs under a lock on the event's row, is confirmed or put on    *)
(* the waiting list; a cancellation promotes from the list without the     *)
(* lock. Every action is one statement of one call, except that what a     *)
(* transaction does between two statements nobody else can see is one      *)
(* step. The event's own life is in EventLifecycle.                        *)
(***************************************************************************)
EXTENDS Integers, FiniteSets, FiniteSetsExt, Functions

CONSTANTS Members,
          Calls,         \* every call, those of EventLifecycle included
          Input,         \* Input[c]: the op of call c, and its inputs
          Scenarios,     \* rows to begin with, and calls that may arrive
          Capacity,      \* rsvpCapacity, 0 when not set
          WaitingList,   \* waitingListEnabled
          NoTx

Op(c) == Input[c].op
CallsOf(op) == {c \in Calls : Op(c) = op}
By(c) == Input[c].m
RsvpCalls == CallsOf("rsvp")
CancelCalls == CallsOf("cancelRsvp")

Statuses == {"none", "CONFIRMED", "WAITING_LIST", "CANCELLED", "CHECKED_IN"}

ASSUME RsvpAssumption ==
    /\ Capacity \in Nat /\ WaitingList \in BOOLEAN
    /\ DOMAIN Input = Calls /\ IsFiniteSet(Members)
    /\ \A c \in RsvpCalls \union CancelCalls \union CallsOf("checkIn") : By(c) \in Members
    /\ \A c \in RsvpCalls : Input[c].n \in Nat \ {0}
    /\ NoTx \notin Calls

\* The seats of the rows a scenario starts with, by status.
Seated(w, ss) == SumFunctionOnSet([m \in Members |-> w.rows[m].n],
                                  {m \in Members : w.rows[m].s \in ss})

\* A scenario starts with rows the code could have left: only a row on the
\* waiting list has a position, the confirmed guests fit, and whoever waits
\* found the event full.
ASSUME ScenarioAssumption ==
    \A w \in Scenarios :
        /\ w.calls \subseteq Calls
        /\ \A m \in Members :
               /\ w.rows[m].s \in Statuses
               /\ w.rows[m].n \in Nat \ {0}
               /\ w.rows[m].pos \in Nat
               /\ w.rows[m].pos > 0 => w.rows[m].s = "WAITING_LIST"
               /\ w.rows[m].s = "WAITING_LIST" =>
                      Seated(w, {"CONFIRMED", "CHECKED_IN"}) + w.rows[m].n > Capacity
        /\ Capacity > 0 => Seated(w, {"CONFIRMED"}) <= Capacity

VARIABLES
    event,      \* status of the event
    rsvp,       \* rsvp[m]: status of m's row, "none" before there is one
    size,       \* size[m]: attendeeCount
    pos,        \* pos[m]: waitingListPosition, 0 for null
    eventTx,    \* the call whose transaction locks the event's row
    pc,         \* pc[c]: the next step of call c
    was,        \* was[c]: the status of its row as c read it
    verdict,    \* verdict[c]: status and position c is about to write
    avail,      \* avail[c]: "available" of promoteFromWaitingList
    queue,      \* queue[c]: the waiting rows it still has to go through
    arrival,    \* history: arrival[m], the order in which rows began to wait
    promoted,   \* history: members promoted
    overlapped  \* history: a transaction of rsvp was open while a cancellation
                \* or promotion ran, or two calls of rsvp were on one CANCELLED row

rowVars == <<rsvp, size, pos>>
localVars == <<was, verdict, avail, queue>>
historyVars == <<arrival, promoted, overlapped>>
rsvpVars == <<rowVars, eventTx, localVars, historyVars>>

RsvpInit ==
    \E w \in Scenarios :
        /\ event = w.event
        /\ rsvp = [m \in Members |-> w.rows[m].s]
        /\ size = [m \in Members |-> w.rows[m].n]
        /\ pos = [m \in Members |-> w.rows[m].pos]
        /\ arrival = pos
        /\ eventTx = NoTx
        /\ pc = [c \in Calls |-> IF c \in w.calls THEN "start" ELSE "absent"]
        /\ was = [c \in Calls |-> "none"]
        /\ verdict = [c \in Calls |-> <<"none", 0>>]
        /\ avail = [c \in Calls |-> 0]
        /\ queue = [c \in Calls |-> {}]
        /\ promoted = {} /\ overlapped = FALSE

Goto(c, label) == pc' = [pc EXCEPT ![c] = label]
Move(c, from, to) == pc[c] = from /\ Goto(c, to)

With(s) == {m \in Members : rsvp[m] = s}
Seats(ms) == SumFunctionOnSet(size, ms)
Confirmed == Seats(With("CONFIRMED"))

InTransaction(c) == pc[c] \in {"count", "write"}
Open(c) == pc[c] = "begin" \/ InTransaction(c)
Freeing == {c \in CancelCalls : pc[c] \in {"cancel", "sum", "list", "promote"}}

-----------------------------------------------------------------------------
(* rsvp *)

RsvpRead(c) ==
    LET s == rsvp[By(c)] IN
    /\ Move(c, "start", IF /\ event \in {"PUBLISHED", "RSVP_SALES_OPEN"}
                           /\ s \in {"none", "CANCELLED"}
                        THEN "begin" ELSE "refused")
    /\ was' = [was EXCEPT ![c] = s]
    /\ overlapped' = (overlapped \/ (/\ s = "CANCELLED"
                                     /\ \E r \in RsvpCalls \ {c} : By(r) = By(c) /\ Open(r)))
    /\ UNCHANGED <<event, rowVars, eventTx, verdict, avail, queue, arrival, promoted>>

\* Mutation: the transaction does not lock the event's row.
RsvpLockForgotten(c) ==
    /\ Move(c, "begin", "count")
    /\ UNCHANGED <<event, rsvpVars>>

\* With a capacity, the transaction locks the event's row.
RsvpLock(c) ==
    /\ Move(c, "begin", "count")
    /\ \/ Capacity = 0 /\ UNCHANGED eventTx
       \/ Capacity > 0 /\ eventTx = NoTx /\ eventTx' = c
    /\ overlapped' = (overlapped \/ Freeing # {})
    /\ UNCHANGED <<event, rowVars, localVars, arrival, promoted>>

\* Only CONFIRMED rows count. The position is one more than the list is long.
RsvpCount(c) ==
    LET full == Capacity > 0 /\ Confirmed + Input[c].n > Capacity IN
    /\ Move(c, "count", IF full /\ ~WaitingList THEN "abort" ELSE "write")
    /\ verdict' = [verdict EXCEPT ![c] =
           IF full THEN <<"WAITING_LIST", Cardinality(With("WAITING_LIST")) + 1>>
                   ELSE <<"CONFIRMED", 0>>]
    /\ UNCHANGED <<event, rowVars, eventTx, was, avail, queue, historyVars>>

Unlock(c) == eventTx' = IF eventTx = c THEN NoTx ELSE eventTx

NextArrival == Max({arrival[m] : m \in Members}) + 1

\* The row is created, or the CANCELLED one updated, and the transaction
\* commits. (eventId, memberId) is unique: a second create fails.
RsvpWrite(c) ==
    LET m == By(c) IN
    /\ was[c] = "CANCELLED" \/ rsvp[m] = "none"
    /\ Move(c, "write", "done")
    /\ rsvp' = [rsvp EXCEPT ![m] = verdict[c][1]]
    /\ pos' = [pos EXCEPT ![m] = verdict[c][2]]
    /\ size' = [size EXCEPT ![m] = Input[c].n]
    /\ arrival' = [arrival EXCEPT ![m] =
                       IF verdict[c][2] = 0 THEN 0 ELSE NextArrival]
    /\ Unlock(c)
    /\ UNCHANGED <<event, localVars, promoted, overlapped>>

\* The event is full, the row exists, or any other error: rolled back.
RsvpAbort(c) ==
    /\ pc[c] \in {"count", "write", "abort"}
    /\ Goto(c, "failed")
    /\ Unlock(c)
    /\ UNCHANGED <<event, rowVars, localVars, historyVars>>

-----------------------------------------------------------------------------
(* cancelRsvp, promoteFromWaitingList *)

CancelRead(c) ==
    LET s == rsvp[By(c)] IN
    /\ Move(c, "start", IF s \in {"none", "CANCELLED"} THEN "refused" ELSE "cancel")
    /\ was' = [was EXCEPT ![c] = s]
    /\ overlapped' = (overlapped \/ Freeing # {} \/ \E r \in RsvpCalls : InTransaction(r))
    /\ UNCHANGED <<event, rowVars, eventTx, verdict, avail, queue, arrival, promoted>>

\* Mutation: only the status is written, the position stays.
CancelWriteStatusOnly(c) ==
    LET m == By(c) IN
    /\ Move(c, "cancel", IF was[c] = "CONFIRMED" THEN "sum" ELSE "done")
    /\ rsvp' = [rsvp EXCEPT ![m] = "CANCELLED"]
    /\ arrival' = [arrival EXCEPT ![m] = 0]
    /\ UNCHANGED <<event, size, pos, eventTx, localVars, promoted, overlapped>>

\* Mutation: nobody is promoted in the place of the guest.
CancelWriteOnly(c) ==
    LET m == By(c) IN
    /\ Move(c, "cancel", "done")
    /\ rsvp' = [rsvp EXCEPT ![m] = "CANCELLED"]
    /\ pos' = [pos EXCEPT ![m] = 0]
    /\ arrival' = [arrival EXCEPT ![m] = 0]
    /\ UNCHANGED <<event, size, eventTx, localVars, promoted, overlapped>>

\* The row is written by id; a slot is free if it was read CONFIRMED.
CancelWrite(c) ==
    LET m == By(c) IN
    /\ Move(c, "cancel", IF was[c] = "CONFIRMED" THEN "sum" ELSE "done")
    /\ rsvp' = [rsvp EXCEPT ![m] = "CANCELLED"]
    /\ pos' = [pos EXCEPT ![m] = 0]
    /\ arrival' = [arrival EXCEPT ![m] = 0]
    /\ UNCHANGED <<event, size, eventTx, localVars, promoted, overlapped>>

PromoteSum(c) ==
    /\ Move(c, "sum", IF Capacity > Confirmed THEN "list" ELSE "done")
    /\ avail' = [avail EXCEPT ![c] = Capacity - Confirmed]
    /\ UNCHANGED <<event, rowVars, eventTx, was, verdict, queue, historyVars>>

PromoteList(c) ==
    /\ Move(c, "list", "promote")
    /\ queue' = [queue EXCEPT ![c] = {[m |-> m, n |-> size[m], pos |-> pos[m]] :
                                          m \in With("WAITING_LIST")}]
    /\ UNCHANGED <<event, rowVars, eventTx, was, verdict, avail, historyVars>>

\* The rows that may come next: orderBy leaves ties to the database.
Heads(c) == {w \in queue[c] : \A v \in queue[c] : w.pos <= v.pos}

\* A party that does not fit is skipped.
PromoteSkip(c) ==
    /\ pc[c] = "promote" /\ avail[c] > 0
    /\ \E w \in Heads(c) : /\ w.n > avail[c]
                           /\ queue' = [queue EXCEPT ![c] = @ \ {w}]
    /\ UNCHANGED <<event, rowVars, eventTx, pc, was, verdict, avail, historyVars>>

\* The row is CONFIRMED by id, whatever its status is by now.
PromoteNext(c) ==
    /\ pc[c] = "promote" /\ avail[c] > 0
    /\ \E w \in Heads(c) :
           /\ w.n <= avail[c]
           /\ rsvp' = [rsvp EXCEPT ![w.m] = "CONFIRMED"]
           /\ pos' = [pos EXCEPT ![w.m] = 0]
           /\ arrival' = [arrival EXCEPT ![w.m] = 0]
           /\ avail' = [avail EXCEPT ![c] = @ - w.n]
           /\ queue' = [queue EXCEPT ![c] = @ \ {w}]
           /\ promoted' = promoted \union {w.m}
    /\ UNCHANGED <<event, size, eventTx, pc, was, verdict, overlapped>>

PromoteEnd(c) ==
    /\ queue[c] = {} \/ avail[c] <= 0
    /\ Move(c, "promote", "done")
    /\ UNCHANGED <<event, rsvpVars>>

-----------------------------------------------------------------------------
(* checkInRsvp, checkInRsvpManual *)

CheckInRead(c) ==
    /\ rsvp[By(c)] # "none"
    /\ Move(c, "start", IF rsvp[By(c)] = "CONFIRMED" THEN "admit" ELSE "refused")
    /\ UNCHANGED <<event, rsvpVars>>

CheckInWrite(c) ==
    /\ Move(c, "admit", "done")
    /\ rsvp' = [rsvp EXCEPT ![By(c)] = "CHECKED_IN"]
    /\ UNCHANGED <<event, size, pos, eventTx, localVars, historyVars>>

-----------------------------------------------------------------------------

Ended == {"absent", "done", "refused", "failed", "dead"}

RsvpStep(c) ==
    \/ /\ Op(c) = "rsvp"
       /\ RsvpRead(c) \/ RsvpLock(c) \/ RsvpCount(c) \/ RsvpWrite(c)
    \/ /\ Op(c) = "cancelRsvp"
       /\ \/ CancelRead(c) \/ CancelWrite(c) \/ PromoteSum(c) \/ PromoteList(c)
          \/ PromoteSkip(c) \/ PromoteNext(c) \/ PromoteEnd(c)
    \/ /\ Op(c) = "checkIn"
       /\ CheckInRead(c) \/ CheckInWrite(c)

\* The API process dies in the middle of a call; a transaction that is open
\* is rolled back (RsvpAbort).
RsvpDie(c) ==
    /\ pc[c] \in {"begin", "cancel", "sum", "list", "promote", "admit"}
    /\ Goto(c, "dead")
    /\ UNCHANGED <<event, rsvpVars>>
=============================================================================
