----------------------------- MODULE Ticketing -----------------------------
(***************************************************************************)
(* Paid tickets, src/src/modules/tickets/tickets.service.ts, over the      *)
(* seating engine: purchase, gate scans and manual refunds. A purchase is  *)
(* the idempotency lookup followed by one transaction; a scan is a read    *)
(* followed by a write by id.                                              *)
(***************************************************************************)
EXTENDS Seating

CONSTANTS SeatsOf,      \* the attendees of a purchase: a seat or NoSeat each
          NoSeat,
          CategoryOf,   \* the ticket category of a purchase
          RefOf,        \* its paymentRef
          Capacity,     \* capacity of a category
          Scans,        \* calls of scanTicket
          Refunds,      \* calls of markRefunded
          TicketOf      \* the ticket a scan or refund names

Items(p) == 1 .. Len(SeatsOf[p])
TicketsOf == [p \in Purchases |-> {p} \X Items(p)]
Tickets == UNION {TicketsOf[p] : p \in Purchases}
SeatOfTicket == [t \in Tickets |-> SeatsOf[t[1]][t[2]]]
Categories == {CategoryOf[p] : p \in Purchases}

ASSUME TicketingAssumption ==
    /\ SeatsOf \in [Purchases -> Seq(Seats \union {NoSeat})]
    /\ \A p \in Purchases : SeatsOf[p] # <<>>
    /\ NoSeat \notin Seats
    /\ Capacity \in [Categories -> Nat]
    /\ Scans \union Refunds \subseteq Requests
    /\ (Scans \union Refunds) \intersect (SeatingCalls \union Purchases) = {}
    /\ Scans \intersect Refunds = {}
    /\ TicketOf \in [Scans \union Refunds -> Tickets]

VARIABLES
    ticket,    \* ticket[t]: committed status of t, "none" before its purchase
    item,      \* item[p]: the attendee purchase p is at
    catTx,     \* catTx[c]: the purchase that locked the category row
    seqTx,     \* the purchase that locked the TICKET row of id_sequences
    refunded,  \* history: tickets refunded once
    entries    \* history: entries[t], how many scans let t in

ticketVars == <<ticket, item, catTx, seqTx, refunded, entries>>
vars == <<seatVars, pc, ticketVars>>

Init == /\ SeatingInit
        /\ ticket = [t \in Tickets |-> "none"]
        /\ item = [p \in Purchases |-> 1]
        /\ catTx = [c \in Categories |-> NoTx]
        /\ seqTx = NoTx
        /\ refunded = {}
        /\ entries = [t \in Tickets |-> 0]

Issued == {t \in Tickets : ticket[t] # "none"}

\* The tickets that count against the capacity of category c.
Live(c) == {t \in Tickets : /\ CategoryOf[t[1]] = c
                           /\ ticket[t] \in {"generated", "checked_in"}}

\* What a purchase leaves alone while its transaction is open.
KeepTickets == UNCHANGED <<ticket, refunded, entries>>

-----------------------------------------------------------------------------
(* purchaseTickets *)

\* The idempotency lookup, then the checks that read the category, the event
\* and the attendees; these may refuse the order whatever the state here.
PurchaseLookup(p) ==
    /\ \/ /\ \E t \in Issued : SessionOf[t[1]] = SessionOf[p]
          /\ Move(p, "start", "replayed")
       \/ /\ \A t \in Issued : SessionOf[t[1]] # SessionOf[p]
          /\ Move(p, "start", "begin") \/ Move(p, "start", "refused")
    /\ UNCHANGED <<seatVars, ticketVars>>

\* Mutation: the count is taken without locking the category row.
PurchaseCountUnlocked(p) ==
    LET c == CategoryOf[p] IN
    /\ Move(p, "begin",
            IF Cardinality(Live(c)) + Len(SeatsOf[p]) > Capacity[c]
            THEN "abort" ELSE "payment")
    /\ UNCHANGED <<seatVars, ticketVars>>

\* The transaction begins: it locks the category row, waiting for whoever
\* has it, and counts. (Nothing it counts can change between the two but by a
\* refund or a scan, which might as well come after.)
PurchaseCount(p) ==
    LET c == CategoryOf[p] IN
    /\ catTx[c] = NoTx
    /\ catTx' = [catTx EXCEPT ![c] = p]
    /\ Move(p, "begin",
            IF Cardinality(Live(c)) + Len(SeatsOf[p]) > Capacity[c]
            THEN "abort" ELSE "payment")
    /\ UNCHANGED <<seatVars, item, seqTx>> /\ KeepTickets

\* No ticket of another booking group carries this payment reference.
PurchasePayment(p) ==
    /\ Move(p, "payment",
            IF \E t \in Issued : /\ RefOf[t[1]] = RefOf[p]
                                 /\ SessionOf[t[1]] # SessionOf[p]
            THEN "abort" ELSE "number")
    /\ UNCHANGED <<seatVars, ticketVars>>

\* nextPublicId('TICKET', tx): the row of the sequence is locked from the
\* first attendee to the end of the transaction.
PurchaseNumber(p) ==
    /\ pc[p] = "number"
    /\ seqTx \in {NoTx, p}
    /\ seqTx' = p
    /\ Goto(p, "confirm")
    /\ UNCHANGED <<seatVars, item, catTx>> /\ KeepTickets

\* After an attendee: the next one, or the end of the loop.
NextItem(p) ==
    /\ item' = [item EXCEPT ![p] = @ + 1]
    /\ Goto(p, IF item[p] = Len(SeatsOf[p]) THEN "commit" ELSE "number")

\* An attendee without a seat: only the ticket is created.
IssueUnseated(p) ==
    /\ pc[p] = "confirm"
    /\ SeatsOf[p][item[p]] = NoSeat
    /\ NextItem(p)
    /\ UNCHANGED <<seatVars, catTx, seqTx>> /\ KeepTickets

ConfirmRead(p) ==
    LET s == SeatsOf[p][item[p]] IN
    /\ pc[p] = "confirm"
    /\ s # NoSeat
    /\ Goto(p, IF MayConfirm(p, s) THEN "book" ELSE "abort")
    /\ UNCHANGED <<seatVars, ticketVars>>

\* Mutation: confirmSeatBooking writes through the global client, not tx.
IssueSeatedOutside(p) ==
    LET s == SeatsOf[p][item[p]] IN
    /\ pc[p] = "book"
    /\ seat' = [seat EXCEPT ![s] = Booked]
    /\ redis' = [redis EXCEPT ![s] = NoToken]
    /\ NextItem(p)
    /\ UNCHANGED <<rowTx, elapsed, jobs, catTx, seqTx>> /\ KeepTickets

\* The seat is written, its key deleted, and the ticket created, unless a
\* ticket with that seatId exists (refunded ones included).
IssueSeated(p) ==
    LET s == SeatsOf[p][item[p]] IN
    /\ pc[p] = "book"
    /\ ConfirmWrite(p, s)
    /\ \/ /\ \E t \in Issued : SeatOfTicket[t] = s
          /\ Goto(p, "abort")
          /\ UNCHANGED item
       \/ /\ \A t \in Issued : SeatOfTicket[t] # s
          /\ NextItem(p)
    /\ UNCHANGED <<catTx, seqTx>> /\ KeepTickets

ReleaseLocks(p) ==
    /\ catTx' = [catTx EXCEPT ![CategoryOf[p]] = NoTx]
    /\ seqTx' = IF seqTx = p THEN NoTx ELSE seqTx

Commit(p) ==
    /\ Move(p, "commit", "sold")
    /\ CommitSeats(p)
    /\ ticket' = [t \in Tickets |-> IF t[1] = p THEN "generated" ELSE ticket[t]]
    /\ ReleaseLocks(p)
    /\ UNCHANGED <<item, refunded, entries>>

\* An error, or the death of the process, rolls the transaction back.
Abort(p) ==
    /\ pc[p] \in {"payment", "number", "confirm", "book", "commit", "abort"}
    /\ Goto(p, "refused")
    /\ RollbackSeats(p)
    /\ ReleaseLocks(p)
    /\ UNCHANGED item /\ KeepTickets

-----------------------------------------------------------------------------
(* scanTicket, markRefunded *)

\* Inside the scan window the status decides (outside it, as for an unknown
\* ticket, the scan is refused before).
ScanRead(c) ==
    LET t == TicketOf[c] IN
    /\ \/ ticket[t] = "generated" /\ Move(c, "start", "admit")
       \/ ticket[t] = "checked_in" /\ Move(c, "start", "duplicate")
       \/ Move(c, "start", "refused")
    /\ UNCHANGED <<seatVars, ticketVars>>

\* Mutation: the scan is recorded, the status is not.
ScanWriteNoStatus(c) ==
    /\ Move(c, "admit", "admitted")
    /\ entries' = [entries EXCEPT ![TicketOf[c]] = @ + 1]
    /\ UNCHANGED <<seatVars, ticket, item, catTx, seqTx, refunded>>

ScanWrite(c) ==
    LET t == TicketOf[c] IN
    /\ Move(c, "admit", "admitted")
    /\ ticket' = [ticket EXCEPT ![t] = "checked_in"]
    /\ entries' = [entries EXCEPT ![t] = @ + 1]
    /\ UNCHANGED <<seatVars, item, catTx, seqTx, refunded>>

Refund(r) ==
    LET t == TicketOf[r] IN
    /\ Move(r, "start", IF t \in Issued THEN "done" ELSE "refused")
    /\ \/ /\ t \in Issued
          /\ ticket' = [ticket EXCEPT ![t] = "refunded"]
          /\ refunded' = refunded \union {t}
       \/ /\ t \notin Issued
          /\ UNCHANGED <<ticket, refunded>>
    /\ UNCHANGED <<seatVars, item, catTx, seqTx, entries>>

-----------------------------------------------------------------------------

PurchaseStep(p) ==
    \/ PurchaseLookup(p) \/ PurchaseCount(p) \/ PurchasePayment(p)
    \/ PurchaseNumber(p) \/ IssueUnseated(p) \/ ConfirmRead(p)
    \/ IssueSeated(p) \/ Commit(p)

Next ==
    \/ SeatingNext /\ UNCHANGED ticketVars
    \/ \E p \in Purchases : PurchaseStep(p) \/ Abort(p)
    \/ \E c \in Scans : ScanRead(c) \/ ScanWrite(c)
    \/ \E r \in Refunds : Refund(r)

Spec == Init /\ [][Next]_vars

\* A check of p has failed, and its transaction is rolled back.
Fail(p) == pc[p] = "abort" /\ Abort(p)

\* The clock and the worker's queue go on, and the database serves the
\* purchases that began. Every request runs once, so it is enough that some
\* step of the kind is taken while one is possible.
Fairness ==
    /\ WF_vars(\E l \in LockCalls : Elapse(l) /\ UNCHANGED ticketVars)
    /\ WF_vars(\E l \in LockCalls : ReleaseJob(l) /\ UNCHANGED ticketVars)
    /\ WF_vars(\E p \in Purchases : PurchaseStep(p) \/ Fail(p))

FairSpec == Spec /\ Fairness

-----------------------------------------------------------------------------
(* Properties *)

SeatingLabels == {"absent", "start", "set", "write", "enqueue", "del", "done",
                  "refused", "dead"}
TicketLabels == {"begin", "payment", "number", "confirm", "book", "commit",
                 "abort", "sold", "replayed", "admit", "admitted", "duplicate"}

\* Every variable has its type.
TypeOK ==
    /\ seat \in [Seats -> {Available, Booked, Admin} \union LockCalls]
    /\ rowTx \in [Seats -> Purchases \union {NoTx}]
    /\ redis \in [Seats -> LockCalls \union {NoToken}]
    /\ elapsed \subseteq LockCalls /\ jobs \subseteq LockCalls
    /\ pc \in [Requests -> SeatingLabels \union TicketLabels]
    /\ ticket \in [Tickets -> {"none", "generated", "checked_in", "refunded"}]
    /\ item \in [Purchases -> Nat \ {0}]
    /\ catTx \in [Categories -> Purchases \union {NoTx}]
    /\ seqTx \in Purchases \union {NoTx}
    /\ refunded \subseteq Tickets
    /\ entries \in [Tickets -> Nat]

\* Purchases sell as a box office does: groups whole, seats once, categories
\* within capacity (a ticket that was refunded no longer counts), a payment
\* reference for one group of a category.
Office == INSTANCE BoxOffice WITH
    GroupOf <- SessionOf,
    OrderOf <- [t \in Tickets |-> t[1]],
    sold <- Issued

BoxOfficeSpec == Office!Spec

\* seating.service.ts:131-146: a row is BOOKED only together with the commit
\* of a ticket for it; a purchase that fails, however late, leaves none.
BookedSeatHasTicket ==
    \A s \in Seats : seat[s] = Booked => \E t \in Issued : SeatOfTicket[t] = s

\* tickets.service.ts:203: a scan that begins once the ticket was used or
\* refunded does not get past its check, whatever raced before.
LateScanRefused ==
    [][\A c \in Scans :
          pc[c] = "start" /\ pc'[c] = "admit"
              => entries[TicketOf[c]] = 0 /\ TicketOf[c] \notin refunded]_vars

\* seating.service.ts:83-84: a row locked by a call that got to enqueue its
\* release job does not stay locked by it, whatever happened to its key.
LockIsReleased ==
    \A l \in LockCalls : l \in jobs ~> seat[SeatOf[l]] # l

\* seating.service.ts:76 refuses to release a booked seat, and line 89 to lock
\* it: a seat once booked stays so. lockSeat's write by id breaks it.
SoldSeatStaysBooked ==
    [][\A s \in Seats : seat[s] = Booked => seat'[s] = Booked]_vars
=============================================================================
