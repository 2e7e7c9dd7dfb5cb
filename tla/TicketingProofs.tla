--------------------------- MODULE TicketingProofs ---------------------------
(***************************************************************************)
(* Proofs about Ticketing, and the seating engine under it, for every set  *)
(* of seats, requests and orders. The inductive invariant ties three       *)
(* things together: the attendee a purchase is at, the seat rows its open  *)
(* transaction has written, and the tickets its commit will create. With   *)
(* what an open transaction knows of its category it implements BoxOffice. *)
(***************************************************************************)
EXTENDS Ticketing, FiniteSetTheorems, TLAPS

InLoop == {"absent", "start", "begin", "payment", "number", "confirm", "book"}

\* Until its loop ends, a purchase is at one of its attendees.
ItemInv == \A p \in Purchases : pc[p] \in InLoop => item[p] \in Items(p)

\* A purchase writes only seats its attendees asked for.
RowInv == \A s \in Seats, p \in Purchases :
              rowTx[s] = p => \E i \in Items(p) : SeatsOf[p][i] = s

\* Tickets appear with the commit that ends their purchase.
SoldInv == \A t \in Tickets : t \in Issued => pc[t[1]] = "sold"

\* A ticket not yet used or refunded has let nobody in.
FreshInv == \A t \in Tickets : ticket[t] \in {"none", "generated"} =>
                entries[t] = 0 /\ t \notin refunded

\* A scan past its check is about a ticket that exists.
AdmitInv == \A c \in Scans : pc[c] = "admit" => TicketOf[c] \in Issued

IInv == /\ TypeOK /\ ItemInv /\ RowInv /\ BookedSeatHasTicket
        /\ SoldInv /\ FreshInv /\ AdmitInv

-----------------------------------------------------------------------------
(* Facts about tickets, seats and requests *)

LEMMA TicketFacts ==
  /\ \A p \in Purchases : \A i \in Items(p) : <<p, i>> \in Tickets
  /\ \A t \in Tickets : /\ t[1] \in Purchases /\ t[2] \in Items(t[1])
                        /\ t = <<t[1], t[2]>>
  /\ \A t \in Tickets : SeatOfTicket[t] = SeatsOf[t[1]][t[2]]
  BY DEF Tickets, TicketsOf, SeatOfTicket

LEMMA OrderFacts ==
  ASSUME NEW p \in Purchases
  PROVE  /\ Len(SeatsOf[p]) \in Nat \ {0}
         /\ \A i \in Items(p) : SeatsOf[p][i] \in Seats \union {NoSeat}
  BY TicketingAssumption DEF Items

\* The requests of one kind have no steps of another.
LEMMA Kinds ==
  /\ \A r \in SeatingCalls : r \notin Purchases /\ r \notin Scans /\ r \in Requests
  /\ \A p \in Purchases : p \notin Scans /\ p \notin Refunds /\ p \in Requests
  /\ \A c \in Scans : c \notin Refunds /\ c \in Requests
  /\ \A r \in Refunds : r \in Requests
  BY SeatingAssumption, TicketingAssumption

LEMMA Values ==
  /\ Available # Booked /\ Admin # Booked
  /\ \A l \in LockCalls : l # Booked
  /\ \A p \in Purchases : p # NoTx
  BY SeatingAssumption

-----------------------------------------------------------------------------

LEMMA InitIInv == Init => IInv
  <1> SUFFICES ASSUME Init PROVE IInv
    OBVIOUS
  <1> USE DEF Init, SeatingInit
  <1>1. PICK w \in Workloads :
            pc = [r \in Requests |-> IF r \in w THEN "start" ELSE "absent"]
    OBVIOUS
  <1>2. TypeOK
    BY <1>1 DEF TypeOK, SeatingLabels, TicketLabels
  <1>3. ItemInv
    BY OrderFacts DEF ItemInv, Items
  <1>4. RowInv
    BY Values DEF RowInv
  <1>5. BookedSeatHasTicket
    BY Values DEF BookedSeatHasTicket
  <1>6. SoldInv /\ FreshInv
    BY DEF SoldInv, FreshInv, Issued
  <1>7. AdmitInv
    BY <1>1, Kinds DEF AdmitInv
  <1>8. QED
    BY <1>2, <1>3, <1>4, <1>5, <1>6, <1>7 DEF IInv

-----------------------------------------------------------------------------
(* What a step of the seating engine may do: it never books a seat, never  *)
(* touches the rows of an open transaction, and moves only its own request *)

SeatingType ==
    /\ seat \in [Seats -> {Available, Booked, Admin} \union LockCalls]
    /\ rowTx \in [Seats -> Purchases \union {NoTx}]
    /\ redis \in [Seats -> LockCalls \union {NoToken}]
    /\ elapsed \subseteq LockCalls /\ jobs \subseteq LockCalls
    /\ pc \in [Requests -> SeatingLabels \union TicketLabels]

SeatingShape ==
    /\ SeatingType'
    /\ rowTx' = rowTx
    /\ \A s \in Seats : seat'[s] = Booked => seat[s] = Booked
    /\ \A r \in Requests : r \notin SeatingCalls => pc'[r] = pc[r]

LEMMA SeatingStep ==
  ASSUME SeatingType, SeatingNext
  PROVE  SeatingShape
  <1> USE DEF SeatingShape, SeatingType, SeatingLabels, TicketLabels, Goto, Move,
              seatVars, WriteRow, DelKey, Unlocked
  <1>1. CASE \E l \in LockCalls : \/ LockRead(l) \/ LockSet(l) \/ LockWrite(l)
                                  \/ LockEnqueue(l) \/ Elapse(l) \/ ReleaseJob(l)
    <2> SUFFICES ASSUME NEW l \in LockCalls,
                        \/ LockRead(l) \/ LockSet(l) \/ LockWrite(l)
                        \/ LockEnqueue(l) \/ Elapse(l) \/ ReleaseJob(l)
                 PROVE  SeatingShape
      BY <1>1
    <2>0. SeatOf[l] \in Seats /\ l \in SeatingCalls /\ l # Booked /\ l \in Requests
      BY SeatingAssumption DEF SeatingCalls
    <2>1. CASE LockRead(l)
      BY <2>0, <2>1 DEF LockRead
    <2>2. CASE LockSet(l)
      BY <2>0, <2>2 DEF LockSet
    <2>3. CASE LockWrite(l)
      BY <2>0, <2>3 DEF LockWrite
    <2>4. CASE LockEnqueue(l)
      BY <2>0, <2>4 DEF LockEnqueue
    <2>5. CASE Elapse(l)
      BY <2>0, <2>5 DEF Elapse
    <2>6. CASE ReleaseJob(l)
      BY <2>0, <2>6, Values DEF ReleaseJob
    <2>7. QED
      BY <2>1, <2>2, <2>3, <2>4, <2>5, <2>6
  <1>2. CASE \E r \in ReleaseCalls : ReleaseGet(r) \/ ReleaseDel(r) \/ ReleaseWrite(r)
    <2> SUFFICES ASSUME NEW r \in ReleaseCalls,
                        ReleaseGet(r) \/ ReleaseDel(r) \/ ReleaseWrite(r)
                 PROVE  SeatingShape
      BY <1>2
    <2>0. /\ SeatOf[TokenOf[r]] \in Seats /\ r \in SeatingCalls /\ r \in Requests
          /\ TokenOf[r] \in LockCalls
      BY SeatingAssumption DEF SeatingCalls
    <2>1. CASE ReleaseGet(r)
      BY <2>0, <2>1 DEF ReleaseGet
    <2>2. CASE ReleaseDel(r)
      BY <2>0, <2>2 DEF ReleaseDel
    <2>3. CASE ReleaseWrite(r)
      BY <2>0, <2>3, Values DEF ReleaseWrite
    <2>4. QED
      BY <2>1, <2>2, <2>3
  <1>3. CASE \E a \in AdminCalls : \/ AdminRead(a) \/ AdminLockWrite(a)
                                   \/ AdminDel(a) \/ AdminReleaseWrite(a)
    <2> SUFFICES ASSUME NEW a \in AdminCalls,
                        \/ AdminRead(a) \/ AdminLockWrite(a)
                        \/ AdminDel(a) \/ AdminReleaseWrite(a)
                 PROVE  SeatingShape
      BY <1>3
    <2>0. SeatOf[a] \in Seats /\ a \in SeatingCalls /\ a \in Requests
      BY SeatingAssumption DEF SeatingCalls
    <2>1. CASE AdminRead(a)
      BY <2>0, <2>1 DEF AdminRead
    <2>2. CASE AdminLockWrite(a)
      BY <2>0, <2>2, Values DEF AdminLockWrite
    <2>3. CASE AdminDel(a)
      BY <2>0, <2>3 DEF AdminDel
    <2>4. CASE AdminReleaseWrite(a)
      BY <2>0, <2>4, Values DEF AdminReleaseWrite
    <2>5. QED
      BY <2>1, <2>2, <2>3, <2>4
  <1>4. CASE \E r \in SeatingCalls : Die(r)
    BY <1>4, Kinds DEF Die
  <1>5. QED
    BY <1>1, <1>2, <1>3, <1>4 DEF SeatingNext

LEMMA SeatingKeepsIInv ==
  ASSUME IInv, SeatingNext, UNCHANGED ticketVars
  PROVE  IInv'
  <1>1. SeatingShape
    BY SeatingStep DEF IInv, TypeOK, SeatingType
  <1> USE <1>1 DEF IInv, SeatingShape, ticketVars
  <1>2. /\ \A p \in Purchases : pc'[p] = pc[p]
        /\ \A c \in Scans : pc'[c] = pc[c]
    BY Kinds
  <1>3. TypeOK'
    BY DEF TypeOK, SeatingType
  <1>4. ItemInv' /\ RowInv'
    BY <1>2 DEF ItemInv, RowInv, Items
  <1>5. Issued' = Issued
    BY DEF Issued
  <1>6. BookedSeatHasTicket'
    BY <1>5 DEF BookedSeatHasTicket
  <1>7. SoldInv'
    BY <1>2, <1>5, TicketFacts DEF SoldInv
  <1>8. FreshInv' /\ AdmitInv'
    BY <1>2, <1>5 DEF FreshInv, AdmitInv
  <1>9. QED
    BY <1>3, <1>4, <1>6, <1>7, <1>8

-----------------------------------------------------------------------------
(* Purchases. PurchaseQuiet steps write no row, ticket or seat; the three  *)
(* that do have a lemma each.                                              *)

PurchaseQuiet(p) ==
    \/ PurchaseLookup(p) \/ PurchaseCount(p) \/ PurchasePayment(p)
    \/ PurchaseNumber(p) \/ IssueUnseated(p) \/ ConfirmRead(p)

LEMMA QuietKeepsIInv ==
  ASSUME IInv, NEW p \in Purchases, PurchaseQuiet(p)
  PROVE  IInv'
  <1> USE DEF IInv, seatVars, ticketVars, KeepTickets, Goto, Move
  <1>0. /\ p \in Requests /\ p \notin Scans
        /\ CategoryOf[p] \in Categories
        /\ pc \in [Requests -> SeatingLabels \union TicketLabels]
        /\ item[p] \in Nat \ {0} /\ Len(SeatsOf[p]) \in Nat \ {0}
    BY Kinds, OrderFacts DEF TypeOK, Categories
  <1>1. /\ UNCHANGED <<seat, rowTx, redis, elapsed, jobs, ticket, refunded, entries>>
        /\ pc[p] # "sold" /\ pc'[p] # "sold"
        /\ \A r \in Requests : r # p => pc'[r] = pc[r]
    BY <1>0 DEF PurchaseQuiet, PurchaseLookup, PurchaseCount, PurchasePayment,
                PurchaseNumber, IssueUnseated, ConfirmRead, NextItem
  <1>2. /\ pc' \in [Requests -> SeatingLabels \union TicketLabels]
        /\ item' \in [Purchases -> Nat \ {0}]
        /\ catTx' \in [Categories -> Purchases \union {NoTx}]
        /\ seqTx' \in Purchases \union {NoTx}
    <2> USE <1>0 DEF TypeOK, SeatingLabels, TicketLabels
    <2>1. CASE PurchaseLookup(p) \/ PurchasePayment(p) \/ ConfirmRead(p)
      BY <2>1 DEF PurchaseLookup, PurchasePayment, ConfirmRead
    <2>2. CASE PurchaseCount(p) \/ PurchaseNumber(p)
      BY <2>2 DEF PurchaseCount, PurchaseNumber
    <2>3. CASE IssueUnseated(p)
      BY <2>3 DEF IssueUnseated, NextItem
    <2>4. QED
      BY <2>1, <2>2, <2>3 DEF PurchaseQuiet
  <1>3. TypeOK'
    BY <1>1, <1>2 DEF TypeOK
  <1>4. ItemInv'
    <2>1. CASE IssueUnseated(p)
      BY <1>0, <2>1, Kinds DEF IssueUnseated, NextItem, ItemInv, Items, InLoop, TypeOK
    <2>2. CASE ~IssueUnseated(p)
      BY <1>0, <2>2, Kinds DEF PurchaseQuiet, PurchaseLookup, PurchaseCount,
         PurchasePayment, PurchaseNumber, ConfirmRead, ItemInv, Items, InLoop
    <2>3. QED
      BY <2>1, <2>2
  <1>5. RowInv'
    BY <1>1 DEF RowInv, Items
  <1>6. Issued' = Issued
    BY <1>1 DEF Issued
  <1>7. BookedSeatHasTicket'
    BY <1>1, <1>6 DEF BookedSeatHasTicket
  <1>8. SoldInv'
    BY <1>0, <1>1, <1>6, TicketFacts, Kinds DEF SoldInv
  <1>9. FreshInv' /\ AdmitInv'
    BY <1>0, <1>1, <1>6, Kinds DEF FreshInv, AdmitInv
  <1>10. QED
    BY <1>3, <1>4, <1>5, <1>7, <1>8, <1>9

LEMMA IssueSeatedKeepsIInv ==
  ASSUME IInv, NEW p \in Purchases, IssueSeated(p)
  PROVE  IInv'
  <1> DEFINE s == SeatsOf[p][item[p]]
  <1> USE DEF IInv, Goto, KeepTickets
  <1>0. /\ p \in Requests /\ pc[p] = "book"
        /\ item[p] \in Items(p)
        /\ Len(SeatsOf[p]) \in Nat \ {0}
        /\ pc \in [Requests -> SeatingLabels \union TicketLabels]
    BY Kinds, OrderFacts DEF TypeOK, IssueSeated, ItemInv, InLoop
  <1>1. /\ UNCHANGED <<seat, elapsed, jobs, ticket, refunded, entries, catTx, seqTx>>
        /\ rowTx' = [rowTx EXCEPT ![s] = p]
        /\ redis' = [redis EXCEPT ![s] = NoToken]
        /\ pc'[p] # "sold"
        /\ \A r \in Requests : r # p => pc'[r] = pc[r]
    BY <1>0 DEF IssueSeated, ConfirmWrite, NextItem
  <1>2. /\ pc' \in [Requests -> SeatingLabels \union TicketLabels]
        /\ item' \in [Purchases -> Nat \ {0}]
        /\ \A q \in Purchases : q # p => item'[q] = item[q]
        /\ pc'[p] \in InLoop => item'[p] \in Items(p)
    <2>1. CASE pc' = [pc EXCEPT ![p] = "abort"] /\ item' = item
      BY <1>0, <2>1 DEF TypeOK, TicketLabels, InLoop
    <2>2. CASE NextItem(p) /\ item[p] = Len(SeatsOf[p])
      BY <1>0, <2>2 DEF NextItem, TypeOK, TicketLabels, InLoop
    <2>3. CASE NextItem(p) /\ item[p] # Len(SeatsOf[p])
      BY <1>0, <2>3 DEF NextItem, TypeOK, TicketLabels, Items
    <2>4. QED
      BY <2>1, <2>2, <2>3 DEF IssueSeated
  <1>3. TypeOK'
    BY <1>1, <1>2 DEF TypeOK
  <1>4. ItemInv'
    BY <1>1, <1>2, Kinds DEF ItemInv, Items
  <1>5. RowInv'
    BY <1>0, <1>1 DEF RowInv, TypeOK, Items
  <1>6. Issued' = Issued
    BY <1>1 DEF Issued
  <1>7. BookedSeatHasTicket'
    BY <1>1, <1>6 DEF BookedSeatHasTicket
  <1>8. SoldInv'
    BY <1>0, <1>1, <1>6, TicketFacts, Kinds DEF SoldInv
  <1>9. FreshInv' /\ AdmitInv'
    BY <1>0, <1>1, <1>6, Kinds DEF FreshInv, AdmitInv
  <1>10. QED
    BY <1>3, <1>4, <1>5, <1>7, <1>8, <1>9

\* The seats that become BOOKED are those of the tickets that appear.
LEMMA CommitKeepsIInv ==
  ASSUME IInv, NEW p \in Purchases, Commit(p)
  PROVE  IInv'
  <1> USE DEF IInv, Goto, Move, Commit, CommitSeats, ReleaseLocks
  <1>0. /\ p \in Requests /\ pc[p] = "commit"
        /\ CategoryOf[p] \in Categories
        /\ pc' = [pc EXCEPT ![p] = "sold"]
        /\ pc \in [Requests -> SeatingLabels \union TicketLabels]
    BY Kinds DEF TypeOK, Categories
  <1>1. \A r \in Requests : r # p => pc'[r] = pc[r]
    BY <1>0
  <1>2. TypeOK'
    BY <1>0 DEF TypeOK, SeatingLabels, TicketLabels
  <1>3. ItemInv'
    BY <1>0, Kinds DEF ItemInv, Items, InLoop
  <1>4. RowInv'
    BY Values DEF RowInv, Items
  <1>5. Issued' = Issued \union {t \in Tickets : t[1] = p}
    BY DEF Issued, TypeOK
  <1>6. BookedSeatHasTicket'
    <2> SUFFICES ASSUME NEW s \in Seats, seat'[s] = Booked
                 PROVE  \E t \in Issued' : SeatOfTicket[t] = s
      BY DEF BookedSeatHasTicket
    <2>1. CASE rowTx[s] = p
      <3>1. PICK i \in Items(p) : SeatsOf[p][i] = s
        BY <2>1 DEF RowInv
      <3>2. <<p, i>> \in Tickets /\ SeatOfTicket[<<p, i>>] = s
        BY <3>1, TicketFacts
      <3>3. QED
        BY <3>2, <1>5
    <2>2. CASE rowTx[s] # p
      BY <2>2, <1>5 DEF BookedSeatHasTicket
    <2>3. QED
      BY <2>1, <2>2
  <1>7. SoldInv'
    BY <1>0, <1>1, <1>5, TicketFacts, Kinds DEF SoldInv
  <1>8. FreshInv'
    <2>1. \A t \in Tickets : t[1] = p => ticket[t] = "none"
      BY <1>0 DEF SoldInv, Issued
    <2>2. QED
      BY <2>1 DEF FreshInv, TypeOK
  <1>9. AdmitInv'
    BY <1>1, <1>5, Kinds DEF AdmitInv
  <1>10. QED
    BY <1>2, <1>3, <1>4, <1>6, <1>7, <1>8, <1>9

LEMMA AbortKeepsIInv ==
  ASSUME IInv, NEW p \in Purchases, Abort(p)
  PROVE  IInv'
  <1> USE DEF IInv, Goto, Abort, RollbackSeats, ReleaseLocks, KeepTickets
  <1>0. /\ p \in Requests
        /\ CategoryOf[p] \in Categories
        /\ pc[p] # "sold" /\ pc' = [pc EXCEPT ![p] = "refused"]
        /\ pc \in [Requests -> SeatingLabels \union TicketLabels]
    BY Kinds DEF TypeOK, Categories
  <1>1. \A r \in Requests : r # p => pc'[r] = pc[r]
    BY <1>0
  <1>2. TypeOK'
    BY <1>0 DEF TypeOK, SeatingLabels, TicketLabels
  <1>3. ItemInv' /\ RowInv'
    BY <1>0, Kinds, Values DEF ItemInv, RowInv, Items, InLoop
  <1>4. Issued' = Issued
    BY DEF Issued
  <1>5. BookedSeatHasTicket'
    BY <1>4 DEF BookedSeatHasTicket
  <1>6. SoldInv'
    BY <1>0, <1>1, <1>4, TicketFacts, Kinds DEF SoldInv
  <1>7. FreshInv' /\ AdmitInv'
    BY <1>1, <1>4, Kinds DEF FreshInv, AdmitInv
  <1>8. QED
    BY <1>2, <1>3, <1>5, <1>6, <1>7

-----------------------------------------------------------------------------
(* Scans and refunds *)

GateStep == \/ \E c \in Scans : ScanRead(c) \/ ScanWrite(c)
            \/ \E r \in Refunds : Refund(r)

\* They move tickets that exist, and leave seats and purchases alone.
LEMMA GateShape ==
  ASSUME IInv, GateStep
  PROVE  /\ TypeOK' /\ FreshInv' /\ AdmitInv'
         /\ Issued' = Issued
         /\ UNCHANGED <<seat, rowTx, item>>
         /\ \A p \in Purchases : pc'[p] = pc[p]
  <1> USE DEF IInv, Goto, Move, seatVars, ticketVars
  <1>1. CASE \E c \in Scans : ScanRead(c)
    <2>1. PICK c \in Scans : ScanRead(c)
      BY <1>1
    <2>2. /\ c \in Requests /\ c \notin Purchases
          /\ UNCHANGED <<seat, rowTx, redis, elapsed, jobs, ticket, item, catTx,
                         seqTx, refunded, entries>>
          /\ pc' \in [Requests -> SeatingLabels \union TicketLabels]
          /\ pc'[c] = "admit" => ticket[TicketOf[c]] = "generated"
          /\ \A r \in Requests : r # c => pc'[r] = pc[r]
      BY <2>1, Kinds DEF ScanRead, TypeOK, SeatingLabels, TicketLabels
    <2>3. Issued' = Issued
      BY <2>2 DEF Issued
    <2>4. TicketOf[c] \in Tickets
      BY TicketingAssumption
    <2>5. TypeOK' /\ FreshInv'
      BY <2>2 DEF TypeOK, FreshInv
    <2>6. AdmitInv'
      BY <2>2, <2>3, <2>4, Kinds DEF AdmitInv, Issued
    <2>7. QED
      BY <2>2, <2>3, <2>5, <2>6, Kinds
  <1>2. CASE \E c \in Scans : ScanWrite(c)
    <2>1. PICK c \in Scans : ScanWrite(c)
      BY <1>2
    <2>2. c \in Requests /\ c \notin Purchases /\ TicketOf[c] \in Tickets
      BY Kinds, TicketingAssumption
    <2>3. /\ \A r \in Requests : r # c => pc'[r] = pc[r]
          /\ pc'[c] = "admitted"
          /\ TicketOf[c] \in Issued
      BY <2>1, <2>2 DEF ScanWrite, TypeOK, AdmitInv
    <2>4. TypeOK'
      BY <2>1, <2>2 DEF ScanWrite, TypeOK, SeatingLabels, TicketLabels
    <2>5. Issued' = Issued
      BY <2>1, <2>2, <2>3 DEF ScanWrite, Issued, TypeOK
    <2>6. FreshInv'
      BY <2>1, <2>2 DEF ScanWrite, FreshInv, TypeOK
    <2>7. AdmitInv'
      BY <2>3, <2>5, Kinds DEF AdmitInv
    <2>8. QED
      BY <2>1, <2>2, <2>3, <2>4, <2>5, <2>6, <2>7, Kinds DEF ScanWrite
  <1>3. CASE \E r \in Refunds : Refund(r)
    <2>1. PICK r \in Refunds : Refund(r)
      BY <1>3
    <2>2. /\ r \in Requests /\ r \notin Purchases /\ r \notin Scans
          /\ TicketOf[r] \in Tickets
      BY Kinds, TicketingAssumption
    <2>3. \A q \in Requests : q # r => pc'[q] = pc[q]
      BY <2>1, <2>2 DEF Refund, TypeOK
    <2>4. TypeOK'
      BY <2>1, <2>2 DEF Refund, TypeOK, SeatingLabels, TicketLabels
    <2>5. Issued' = Issued
      BY <2>1, <2>2 DEF Refund, Issued, TypeOK
    <2>6. FreshInv'
      BY <2>1, <2>2 DEF Refund, FreshInv, TypeOK
    <2>7. AdmitInv'
      BY <2>2, <2>3, <2>5, Kinds DEF AdmitInv
    <2>8. QED
      BY <2>1, <2>2, <2>3, <2>4, <2>5, <2>6, <2>7, Kinds DEF Refund
  <1>4. QED
    BY <1>1, <1>2, <1>3 DEF GateStep

LEMMA GateKeepsIInv ==
  ASSUME IInv, GateStep
  PROVE  IInv'
  <1> USE GateShape DEF IInv
  <1>1. ItemInv' /\ RowInv'
    BY DEF ItemInv, RowInv, Items
  <1>2. BookedSeatHasTicket'
    BY DEF BookedSeatHasTicket
  <1>3. SoldInv'
    BY TicketFacts DEF SoldInv
  <1>4. QED
    BY <1>1, <1>2, <1>3

-----------------------------------------------------------------------------

LEMMA NextKeepsIInv == IInv /\ [Next]_vars => IInv'
  <1> SUFFICES ASSUME IInv, [Next]_vars PROVE IInv'
    OBVIOUS
  <1>1. CASE SeatingNext /\ UNCHANGED ticketVars
    BY <1>1, SeatingKeepsIInv
  <1>2. CASE \E p \in Purchases : PurchaseStep(p) \/ Abort(p)
    BY <1>2, QuietKeepsIInv, IssueSeatedKeepsIInv, CommitKeepsIInv, AbortKeepsIInv
       DEF PurchaseStep, PurchaseQuiet
  <1>3. CASE GateStep
    BY <1>3, GateKeepsIInv
  <1>4. CASE UNCHANGED vars
    BY <1>4 DEF IInv, vars, seatVars, ticketVars, TypeOK, ItemInv, RowInv,
       BookedSeatHasTicket, SoldInv, FreshInv, AdmitInv, Issued, Items
  <1>5. QED
    BY <1>1, <1>2, <1>3, <1>4 DEF Next, GateStep

\* The invariant holds in every reachable state.
THEOREM Invariance == Spec => []IInv
  BY InitIInv, NextKeepsIInv, PTL DEF Spec

\* The variables of seating and ticketing keep their types.
THEOREM TypeCorrect == Spec => []TypeOK
  BY Invariance, PTL DEF IInv

\* seating.service.ts:131-146: for any seats, orders and interleaving, a row
\* is BOOKED only with a committed ticket for it.
THEOREM NoBookedSeatWithoutTicket == Spec => []BookedSeatHasTicket
  BY Invariance, PTL DEF IInv

\* tickets.service.ts:203: a scan that begins after its ticket let someone in,
\* or was refunded, does not pass its check.
THEOREM UsedTicketRefused == Spec => LateScanRefused
  <1>1. ASSUME IInv, NEW c \in Scans, [Next]_vars,
               pc[c] = "start", pc'[c] = "admit"
        PROVE  entries[TicketOf[c]] = 0 /\ TicketOf[c] \notin refunded
    <2> USE <1>1 DEF IInv, Goto, Move
    <2>0. TicketOf[c] \in Tickets /\ c \in Requests
      BY TicketingAssumption, Kinds
    <2>1. ScanRead(c)
      <3>1. CASE SeatingNext /\ UNCHANGED ticketVars
        BY <3>1, SeatingStep, Kinds DEF SeatingShape, SeatingType, TypeOK
      <3>2. CASE \E p \in Purchases : PurchaseStep(p) \/ Abort(p)
        BY <3>2, Kinds DEF PurchaseStep, PurchaseLookup, PurchaseCount,
           PurchasePayment, PurchaseNumber, IssueUnseated, ConfirmRead,
           IssueSeated, NextItem, Commit, Abort, TypeOK
      <3>3. CASE \E d \in Scans : ScanRead(d) \/ ScanWrite(d)
        BY <3>3, Kinds DEF ScanRead, ScanWrite, TypeOK
      <3>4. CASE \E r \in Refunds : Refund(r)
        BY <3>4, Kinds DEF Refund, TypeOK
      <3>5. CASE UNCHANGED vars
        BY <3>5 DEF vars
      <3>6. QED
        BY <3>1, <3>2, <3>3, <3>4, <3>5 DEF Next
    <2>2. ticket[TicketOf[c]] = "generated"
      BY <2>0, <2>1 DEF ScanRead, TypeOK
    <2>3. QED
      BY <2>0, <2>2 DEF FreshInv
  <1>2. IInv /\ [Next]_vars =>
            [\A c \in Scans : pc[c] = "start" /\ pc'[c] = "admit"
                => entries[TicketOf[c]] = 0 /\ TicketOf[c] \notin refunded]_vars
    BY <1>1
  <1>3. QED
    BY <1>2, Invariance, PTL DEF Spec, LateScanRefused

-----------------------------------------------------------------------------
(* The box office: what an open transaction knows about what it may sell   *)

\* From the count of the category to the commit.
Selling == {"payment", "number", "confirm", "book", "commit"}

\* The tickets of a category that the box office counts.
Valid(c) == {t \in Issued \ refunded : CategoryOf[t[1]] = c}

\* The category's row is locked from the count to the end, so that what was
\* counted and compared stays true of it, whatever is refunded or scanned.
Room(p) ==
    /\ pc[p] \in Selling \union {"abort"} => catTx[CategoryOf[p]] = p
    /\ pc[p] \in Selling =>
           Cardinality(Valid(CategoryOf[p])) + Len(SeatsOf[p]) <= Capacity[CategoryOf[p]]
    /\ pc[p] \in Selling \ {"payment"} => \A t \in Issued :
           CategoryOf[t[1]] = CategoryOf[p] /\ RefOf[t[1]] = RefOf[p] => SessionOf[t[1]] = SessionOf[p]

\* The attendees whose tickets the commit will show.
Served(p) == IF pc[p] = "commit" THEN Items(p) ELSE 1 .. item[p] - 1

\* Each has its seat alone: p has written its row, and no ticket is for it.
Alone(p, i) ==
    /\ rowTx[SeatsOf[p][i]] = p
    /\ \A t \in Issued : SeatOfTicket[t] # SeatsOf[p][i]
    /\ \A j \in Served(p) : SeatsOf[p][j] = SeatsOf[p][i] => j = i
Placed(p) ==
    /\ pc[p] \in {"start", "begin"} => item[p] = 1
    /\ pc[p] \in Selling => \A i \in Served(p) : SeatsOf[p][i] # NoSeat => Alone(p, i)

\* Only a refund that is noted takes a ticket out of the count.
CountedInv == /\ IsFiniteSet(Issued)
              /\ \A t \in Issued \ refunded : ticket[t] \in {"generated", "checked_in"}

SaleInv == CountedInv /\ \A p \in Purchases : Room(p) /\ Placed(p)

LEMMA InitSaleInv == Init => SaleInv
  <1> SUFFICES ASSUME Init PROVE SaleInv
    OBVIOUS
  <1> USE DEF Init, SeatingInit
  <1>1. Issued = {}
    BY DEF Issued
  <1>2. CountedInv
    BY <1>1, FS_EmptySet DEF CountedInv
  <1>3. \A p \in Purchases : pc[p] \in {"start", "absent"} /\ item[p] = 1
    BY Kinds
  <1>4. QED
    BY <1>2, <1>3 DEF SaleInv, Room, Placed, Selling

LEMMA OrderTickets ==
  ASSUME NEW p \in Purchases, IsFiniteSet(Items(p))
  PROVE  IsFiniteSet(TicketsOf[p]) /\ Cardinality(TicketsOf[p]) = Len(SeatsOf[p])
  <1> DEFINE f == [i \in Items(p) |-> <<p, i>>]
  <1>1. f \in Bijection(Items(p), TicketsOf[p])
    <2>1. \A t \in TicketsOf[p] : t[2] \in Items(p) /\ t = <<p, t[2]>>
      BY DEF TicketsOf
    <2>2. f \in [Items(p) -> TicketsOf[p]]
      BY DEF TicketsOf
    <2>3. f \in Surjection(Items(p), TicketsOf[p])
      BY <2>1, <2>2 DEF Surjection
    <2>4. f \in Injection(Items(p), TicketsOf[p])
      BY <2>2 DEF Injection, IsInjective
    <2>5. QED
      BY <2>3, <2>4 DEF Bijection
  <1>2. ExistsBijection(Items(p), TicketsOf[p])
    BY <1>1 DEF ExistsBijection
  <1>3. Cardinality(Items(p)) = Len(SeatsOf[p])
    BY OrderFacts, FS_Interval DEF Items
  <1>4. QED
    BY <1>2, <1>3, FS_Bijection

LEMMA ServedItems ==
  ASSUME IInv, NEW p \in Purchases, pc[p] \in Selling, NEW i \in Served(p)
  PROVE  i \in Items(p)
  <1>1. CASE pc[p] = "commit"
    BY <1>1 DEF Served
  <1>2. CASE pc[p] # "commit"
    <2>1. item[p] \in Items(p)
      BY <1>2 DEF IInv, ItemInv, InLoop, Selling
    <2>2. QED
      BY <1>2, <2>1, OrderFacts DEF Served, Items
  <1>3. QED
    BY <1>1, <1>2

\* A request that stands still while the others go on.
LEMMA SaleStays ==
  ASSUME IInv, SaleInv, NEW q \in Purchases, pc'[q] = pc[q], item'[q] = item[q],
         Issued' = Issued, refunded \subseteq refunded',
         pc[q] \in Selling \union {"abort"} => catTx'[CategoryOf[q]] = q,
         \A s \in Seats : rowTx[s] = q => rowTx'[s] = q
  PROVE  Room(q)' /\ Placed(q)'
  <1>1. Room(q) /\ Placed(q) /\ CountedInv
    BY DEF SaleInv
  <1> DEFINE c == CategoryOf[q]
  <1>2. Room(q)'
    <2>1. Valid(c)' \subseteq Valid(c) /\ IsFiniteSet(Valid(c))
      BY <1>1, FS_Subset DEF CountedInv, Valid
    <2>2. Cardinality(Valid(c)') <= Cardinality(Valid(c)) /\ Cardinality(Valid(c)) \in Nat /\ Cardinality(Valid(c)') \in Nat
      BY <2>1, FS_Subset, FS_CardinalityType
    <2>3. Len(SeatsOf[q]) \in Nat /\ Capacity[c] \in Nat
      BY OrderFacts, TicketingAssumption DEF Categories
    <2>4. Valid(c)' = {t \in Issued' \ refunded' : CategoryOf[t[1]] = c}
      BY DEF Valid
    <2>5. pc[q] \in Selling => Cardinality(Valid(c)') + Len(SeatsOf[q]) <= Capacity[c]
      BY <1>1, <2>2, <2>3 DEF Room
    <2>6. QED
      BY <1>1, <2>5 DEF Room
  <1>3. Served(q)' = Served(q)
    BY DEF Served, Items
  <1>4. Placed(q)'
    <2>1. pc[q] \in {"start", "begin"} => item[q] = 1
      BY <1>1 DEF Placed
    <2>2. ASSUME pc[q] \in Selling, NEW i \in Served(q), SeatsOf[q][i] # NoSeat
          PROVE  Alone(q, i)'
      <3>1. Alone(q, i)
        BY <1>1, <2>2 DEF Placed
      <3>2. i \in Items(q)
        BY <2>2, ServedItems
      <3>3. SeatsOf[q][i] \in Seats
        BY <2>2, <3>2, OrderFacts
      <3>4. QED
        BY <1>3, <3>1, <3>3 DEF Alone
    <2>3. QED
      BY <1>3, <2>1, <2>2 DEF Placed
  <1>5. QED
    BY <1>2, <1>4

\* Rows of a category whose transaction is open belong to nobody else.
LEMMA OneSeller ==
  ASSUME SaleInv, NEW p \in Purchases, NEW q \in Purchases, p # q,
         pc[p] \in Selling \union {"abort"}, pc[q] \in Selling \union {"abort"}
  PROVE  CategoryOf[p] # CategoryOf[q]
  BY DEF SaleInv, Room

-----------------------------------------------------------------------------
(* Steps of a purchase before its commit *)

LEMMA OthersStay ==
  ASSUME IInv, SaleInv, NEW p \in Purchases, PurchaseQuiet(p) \/ IssueSeated(p) \/ Abort(p)
  PROVE  /\ Issued' = Issued /\ UNCHANGED <<ticket, refunded>>
         /\ \A q \in Purchases \ {p} : Room(q)' /\ Placed(q)'
  <1>1. UNCHANGED <<ticket, refunded>>
    BY DEF PurchaseQuiet, PurchaseLookup, PurchaseCount, PurchasePayment, PurchaseNumber, IssueUnseated,
           ConfirmRead, IssueSeated, Abort, ticketVars, KeepTickets
  <1>2. Issued' = Issued
    BY <1>1 DEF Issued
  <1>3. ASSUME NEW q \in Purchases \ {p}
        PROVE  Room(q)' /\ Placed(q)'
    <2> USE DEF Goto, Move
    <2>1. pc'[q] = pc[q] /\ item'[q] = item[q]
      <3>1. pc \in [Requests -> SeatingLabels \union TicketLabels] /\ p \in Requests /\ q \in Requests
        BY Kinds DEF IInv, TypeOK
      <3>2. item \in [Purchases -> Nat \ {0}]
        BY DEF IInv, TypeOK
      <3>3. QED
        BY <3>1, <3>2 DEF PurchaseQuiet, PurchaseLookup, PurchaseCount, PurchasePayment, PurchaseNumber,
             IssueUnseated, ConfirmRead, IssueSeated, NextItem, Abort, ticketVars, KeepTickets
    <2>2. \A s \in Seats : rowTx[s] = q => rowTx'[s] = q
      <3>1. rowTx \in [Seats -> Purchases \union {NoTx}] /\ q # NoTx
        BY Values DEF IInv, TypeOK
      <3>2. CASE PurchaseQuiet(p)
        BY <3>2 DEF PurchaseQuiet, PurchaseLookup, PurchaseCount, PurchasePayment, PurchaseNumber,
             IssueUnseated, ConfirmRead, seatVars
      <3>3. CASE IssueSeated(p)
        BY <3>1, <3>3 DEF IssueSeated, ConfirmWrite
      <3>4. CASE Abort(p)
        BY <3>1, <3>4 DEF Abort, RollbackSeats
      <3>5. QED
        BY <3>2, <3>3, <3>4
    <2>3. ASSUME pc[q] \in Selling \union {"abort"}
          PROVE  catTx'[CategoryOf[q]] = q
      <3>1. catTx[CategoryOf[q]] = q /\ q # NoTx
        BY <2>3, Values DEF SaleInv, Room
      <3>2. catTx \in [Categories -> Purchases \union {NoTx}] /\ CategoryOf[q] \in Categories
        BY DEF IInv, TypeOK, Categories
      <3>3. CASE PurchaseCount(p)
        BY <3>1, <3>2, <3>3 DEF PurchaseCount
      <3>4. CASE Abort(p)
        <4>1. CategoryOf[p] # CategoryOf[q]
          BY <2>3, <3>4, OneSeller DEF Abort, Selling
        <4>2. QED
          BY <3>1, <3>2, <3>4, <4>1 DEF Abort, ReleaseLocks
      <3>5. CASE UNCHANGED catTx
        BY <3>1, <3>5
      <3>6. QED
        BY <3>3, <3>4, <3>5 DEF PurchaseQuiet, PurchaseLookup, PurchasePayment, PurchaseNumber,
             IssueUnseated, ConfirmRead, IssueSeated, ticketVars
    <2>4. QED
      BY <1>1, <1>2, <2>1, <2>2, <2>3, SaleStays
  <1>4. QED
    BY <1>1, <1>2, <1>3

\* After an attendee, one more is served.
LEMMA NextServed ==
  ASSUME IInv, NEW p \in Purchases, pc[p] \in {"confirm", "book"}, NextItem(p)
  PROVE  /\ pc'[p] \in {"commit", "number"} /\ item[p] \in Items(p)
         /\ Served(p)' = Served(p) \union {item[p]} /\ item[p] \notin Served(p)
         /\ Served(p) \subseteq Items(p)
  <1>1. item[p] \in Items(p) /\ Len(SeatsOf[p]) \in Nat \ {0}
    BY OrderFacts DEF IInv, ItemInv, InLoop
  <1>2. pc'[p] = IF item[p] = Len(SeatsOf[p]) THEN "commit" ELSE "number"
    BY Kinds DEF NextItem, Goto, IInv, TypeOK
  <1>3. item'[p] = item[p] + 1
    BY DEF NextItem, IInv, TypeOK
  <1>4. Served(p) = 1 .. item[p] - 1
    BY DEF Served
  <1>5. Served(p)' = 1 .. item[p]
    <2>1. CASE item[p] = Len(SeatsOf[p])
      BY <1>2, <2>1 DEF Served, Items
    <2>2. CASE item[p] # Len(SeatsOf[p])
      BY <1>1, <1>2, <1>3, <2>2 DEF Served, Items
    <2>3. QED
      BY <2>1, <2>2
  <1>6. QED
    BY <1>1, <1>2, <1>4, <1>5 DEF Items

LEMMA QuietSale ==
  ASSUME IInv, SaleInv, NEW p \in Purchases, PurchaseQuiet(p)
  PROVE  Room(p)' /\ Placed(p)'
  <1>1. /\ UNCHANGED <<seat, rowTx, ticket, refunded>> /\ Issued' = Issued /\ Valid(CategoryOf[p])' = Valid(CategoryOf[p])
    BY OthersStay DEF PurchaseQuiet, PurchaseLookup, PurchaseCount, PurchasePayment, PurchaseNumber,
       IssueUnseated, ConfirmRead, seatVars, Valid
  <1>2. Room(p) /\ Placed(p) /\ CountedInv
    BY DEF SaleInv
  <1>3. p \in Requests /\ pc \in [Requests -> SeatingLabels \union TicketLabels]
    BY Kinds DEF IInv, TypeOK
  <1> USE DEF Goto, Move
  <1>4. ASSUME UNCHANGED item, pc'[p] \in Selling => pc[p] \in Selling /\ pc'[p] # "commit" /\ pc[p] # "commit",
               pc'[p] \in {"start", "begin"} => pc[p] \in {"start", "begin"}
        PROVE  Placed(p)'
    BY <1>1, <1>2, <1>4 DEF Placed, Served, Alone
  <1>5. CASE PurchaseLookup(p)
    <2>1. pc[p] = "start" /\ pc'[p] \in {"begin", "replayed", "refused"} /\ UNCHANGED item
      BY <1>3, <1>5 DEF PurchaseLookup, ticketVars
    <2>2. QED
      BY <1>4, <2>1 DEF Room, Selling
  <1>6. CASE PurchaseCount(p)
    <2> DEFINE c == CategoryOf[p]
    <2>1. /\ pc[p] = "begin" /\ UNCHANGED item /\ pc'[p] \in {"payment", "abort"}
          /\ pc'[p] = "payment" => ~(Cardinality(Live(c)) + Len(SeatsOf[p]) > Capacity[c])
      BY <1>3, <1>6 DEF PurchaseCount
    <2>2. catTx'[c] = p
      BY <1>6 DEF PurchaseCount, IInv, TypeOK, Categories
    <2>3. Valid(c) \subseteq Live(c) /\ Live(c) \subseteq Issued
      BY <1>2 DEF CountedInv, Valid, Live, Issued
    <2>4. /\ Cardinality(Valid(c)) <= Cardinality(Live(c))
          /\ Cardinality(Valid(c)) \in Nat /\ Cardinality(Live(c)) \in Nat
      <3>1. IsFiniteSet(Live(c))
        BY <1>2, <2>3, FS_Subset DEF CountedInv
      <3>2. QED
        BY <2>3, <3>1, FS_Subset, FS_CardinalityType
    <2>5. Len(SeatsOf[p]) \in Nat /\ Capacity[c] \in Nat
      BY OrderFacts, TicketingAssumption DEF Categories
    <2>6. pc'[p] = "payment" => Cardinality(Valid(c)) + Len(SeatsOf[p]) <= Capacity[c]
      BY <2>1, <2>4, <2>5
    <2>7. Room(p)'
      BY <1>1, <2>1, <2>2, <2>6 DEF Room, Selling
    <2>8. item'[p] = 1 /\ Served(p)' = {}
      BY <1>2, <2>1 DEF Placed, Served
    <2>9. QED
      BY <2>1, <2>7, <2>8 DEF Placed
  <1>7. CASE PurchasePayment(p)
    <2>1. /\ pc[p] = "payment" /\ UNCHANGED <<item, catTx>> /\ pc'[p] \in {"number", "abort"}
          /\ pc'[p] = "number" => \A t \in Issued : RefOf[t[1]] = RefOf[p] => SessionOf[t[1]] = SessionOf[p]
      BY <1>3, <1>7 DEF PurchasePayment, ticketVars
    <2>2. QED
      BY <1>1, <1>2, <1>4, <2>1 DEF Room, Selling
  <1>8. CASE PurchaseNumber(p) \/ ConfirmRead(p)
    <2>1. /\ pc[p] \in {"number", "confirm"} /\ UNCHANGED <<item, catTx>>
          /\ pc'[p] \in {"confirm", "book", "abort"}
      BY <1>3, <1>8 DEF PurchaseNumber, ConfirmRead, ticketVars
    <2>2. QED
      BY <1>1, <1>2, <1>4, <2>1 DEF Room, Selling
  <1>9. CASE IssueUnseated(p)
    <2>1. pc[p] = "confirm" /\ UNCHANGED catTx /\ NextItem(p) /\ SeatsOf[p][item[p]] = NoSeat
      BY <1>9 DEF IssueUnseated
    <2>2. pc'[p] \in {"commit", "number"} /\ Served(p)' = Served(p) \union {item[p]}
      BY <2>1, NextServed
    <2>3. Room(p)'
      BY <1>1, <1>2, <2>1, <2>2 DEF Room, Selling
    <2>4. ASSUME NEW i \in Served(p)', SeatsOf[p][i] # NoSeat
          PROVE  Alone(p, i)'
      <3>1. i \in Served(p) /\ Alone(p, i)
        BY <1>2, <2>1, <2>2, <2>4 DEF Placed, Selling
      <3>2. \A j \in Served(p)' : SeatsOf[p][j] = SeatsOf[p][i] => j = i
        BY <2>1, <2>2, <2>4, <3>1 DEF Alone
      <3>3. QED
        BY <1>1, <3>1, <3>2 DEF Alone
    <2>5. QED
      BY <2>2, <2>3, <2>4 DEF Placed
  <1>10. QED
    BY <1>5, <1>6, <1>7, <1>8, <1>9 DEF PurchaseQuiet

\* The row of a seat is free when it is written, so none of the seats before
\* is it; a seat that has a ticket is not served.
LEMMA SeatedSale ==
  ASSUME IInv, SaleInv, NEW p \in Purchases, IssueSeated(p)
  PROVE  Room(p)' /\ Placed(p)'
  <1> DEFINE s == SeatsOf[p][item[p]]
  <1>1. /\ UNCHANGED <<refunded, catTx>> /\ Issued' = Issued /\ Valid(CategoryOf[p])' = Valid(CategoryOf[p])
        /\ pc[p] = "book" /\ rowTx[s] = NoTx /\ rowTx' = [rowTx EXCEPT ![s] = p]
    BY OthersStay DEF IssueSeated, ConfirmWrite, KeepTickets, Valid
  <1>2. Room(p) /\ Placed(p)
    BY DEF SaleInv
  <1>3. CASE Goto(p, "abort") /\ UNCHANGED item
    <2>1. pc'[p] = "abort"
      BY <1>3, Kinds DEF Goto, IInv, TypeOK
    <2>2. QED
      BY <1>1, <1>2, <2>1 DEF Room, Placed, Selling
  <1>4. CASE NextItem(p) /\ \A t \in Issued : SeatOfTicket[t] # s
    <2>1. /\ pc'[p] \in {"commit", "number"} /\ item[p] \in Items(p)
          /\ Served(p)' = Served(p) \union {item[p]} /\ Served(p) \subseteq Items(p)
      BY <1>1, <1>4, NextServed
    <2>2. Room(p)'
      BY <1>1, <1>2, <2>1 DEF Room, Selling
    <2>3. rowTx \in [Seats -> Purchases \union {NoTx}] /\ p # NoTx
      BY Values DEF IInv, TypeOK
    <2>4. ASSUME NEW i \in Served(p), SeatsOf[p][i] # NoSeat
          PROVE  Alone(p, i) /\ SeatsOf[p][i] # s /\ SeatsOf[p][i] \in Seats
      <3>1. Alone(p, i)
        BY <1>1, <1>2, <2>4 DEF Placed, Selling
      <3>2. SeatsOf[p][i] # s
        BY <1>1, <2>3, <3>1 DEF Alone
      <3>3. QED
        BY <2>1, <2>4, <3>1, <3>2, OrderFacts
    <2>5. ASSUME NEW i \in Served(p)', SeatsOf[p][i] # NoSeat
          PROVE  Alone(p, i)'
      <3>1. CASE i = item[p]
        <4>1. s \in Seats
          BY <2>1, <2>5, <3>1, OrderFacts
        <4>2. rowTx'[s] = p
          BY <1>1, <2>3, <4>1
        <4>3. \A j \in Served(p)' : SeatsOf[p][j] = s => j = i
          BY <2>1, <2>4, <2>5, <3>1
        <4>4. QED
          BY <1>1, <1>4, <3>1, <4>2, <4>3 DEF Alone
      <3>2. CASE i \in Served(p)
        <4>1. rowTx'[SeatsOf[p][i]] = p
          BY <1>1, <2>3, <2>4, <2>5, <3>2 DEF Alone
        <4>2. \A j \in Served(p)' : SeatsOf[p][j] = SeatsOf[p][i] => j = i
          BY <2>1, <2>4, <2>5, <3>2 DEF Alone
        <4>3. QED
          BY <1>1, <2>4, <2>5, <3>2, <4>1, <4>2 DEF Alone
      <3>3. QED
        BY <2>1, <3>1, <3>2
    <2>6. QED
      BY <2>1, <2>2, <2>5 DEF Placed
  <1>5. QED
    BY <1>3, <1>4 DEF IssueSeated

\* A commit gives its category tickets, and those have seats of its own: what
\* the other open transactions know is about other categories and seats.
LEMMA CommitSale ==
  ASSUME IInv, SaleInv, NEW p \in Purchases, Commit(p)
  PROVE  SaleInv'
  <1>1. /\ pc[p] = "commit" /\ UNCHANGED <<refunded, item>>
        /\ rowTx' = [s \in Seats |-> IF rowTx[s] = p THEN NoTx ELSE rowTx[s]]
        /\ catTx' = [catTx EXCEPT ![CategoryOf[p]] = NoTx]
        /\ ticket' = [t \in Tickets |-> IF t[1] = p THEN "generated" ELSE ticket[t]]
        /\ pc' = [pc EXCEPT ![p] = "sold"]
    BY DEF Commit, CommitSeats, ReleaseLocks, Move, Goto
  <1>2. pc'[p] = "sold" /\ \A q \in Purchases \ {p} : pc'[q] = pc[q]
    BY <1>1, Kinds DEF IInv, TypeOK
  <1>3. Issued' = Issued \union TicketsOf[p]
    <2>1. Issued' = Issued \union {t \in Tickets : t[1] = p}
      BY <1>1 DEF Issued, IInv, TypeOK
    <2>2. {t \in Tickets : t[1] = p} = TicketsOf[p]
      BY TicketFacts DEF TicketsOf
    <2>3. QED
      BY <2>1, <2>2
  <1>4. CountedInv'
    <2>1. IsFiniteSet(TicketsOf[p])
      <3>1. IsFiniteSet(Items(p))
        BY OrderFacts, FS_Interval DEF Items
      <3>2. QED
        BY <3>1, OrderTickets
    <2>2. IsFiniteSet(Issued')
      BY <1>3, <2>1, FS_Union DEF SaleInv, CountedInv
    <2>3. \A t \in Issued' \ refunded' : ticket'[t] \in {"generated", "checked_in"}
      BY <1>1, <1>3 DEF SaleInv, CountedInv, Issued
    <2>4. QED
      BY <2>2, <2>3 DEF CountedInv
  <1>5. ASSUME NEW q \in Purchases \ {p}
        PROVE  Room(q)' /\ Placed(q)'
    <2>1. Room(q) /\ Placed(q) /\ Room(p) /\ Placed(p)
      BY DEF SaleInv
    <2>2. pc[q] \in Selling \union {"abort"} => CategoryOf[q] # CategoryOf[p]
      BY <1>1, OneSeller DEF Selling
    <2>3. Room(q)'
      <3>1. \A t \in TicketsOf[p] : t[1] = p
        BY DEF TicketsOf
      <3>2. CategoryOf[q] # CategoryOf[p] => Valid(CategoryOf[q])' = Valid(CategoryOf[q])
        BY <1>1, <1>3, <3>1 DEF Valid
      <3>3. pc[q] \in Selling \union {"abort"} => catTx'[CategoryOf[q]] = q
        BY <1>1, <2>1, <2>2 DEF Room, IInv, TypeOK, Categories
      <3>4. QED
        BY <1>2, <1>3, <2>1, <2>2, <3>1, <3>2, <3>3 DEF Room
    <2>4. Served(q)' = Served(q)
      BY <1>1, <1>2 DEF Served, Items
    <2>5. ASSUME pc[q] \in Selling, NEW i \in Served(q), SeatsOf[q][i] # NoSeat
          PROVE  Alone(q, i)'
      <3>1. Alone(q, i)
        BY <2>1, <2>5 DEF Placed
      <3>2. \A t \in TicketsOf[p] : SeatOfTicket[t] # SeatsOf[q][i]
        <4> SUFFICES ASSUME NEW t \in TicketsOf[p], SeatOfTicket[t] = SeatsOf[q][i]
                     PROVE  FALSE
          OBVIOUS
        <4>1. t[1] = p /\ t[2] \in Items(p) /\ SeatOfTicket[t] = SeatsOf[p][t[2]]
          BY TicketFacts DEF TicketsOf, Tickets
        <4>2. Alone(p, t[2])
          BY <1>1, <2>1, <2>5, <4>1 DEF Placed, Served, Selling
        <4>3. QED
          BY <3>1, <4>1, <4>2 DEF Alone
      <3>3. rowTx'[SeatsOf[q][i]] = q
        <4>1. i \in Items(q)
          BY <2>5, ServedItems
        <4>2. SeatsOf[q][i] \in Seats
          BY <2>5, <4>1, OrderFacts
        <4>3. QED
          BY <1>1, <3>1, <4>2 DEF Alone
      <3>4. QED
        BY <1>3, <2>4, <3>1, <3>2, <3>3 DEF Alone
    <2>6. QED
      BY <1>1, <1>2, <2>1, <2>3, <2>4, <2>5 DEF Placed
  <1>6. Room(p)' /\ Placed(p)'
    BY <1>2 DEF Room, Placed, Selling
  <1>7. QED
    BY <1>4, <1>5, <1>6 DEF SaleInv

\* Scans and refunds move tickets that are issued, and only refunds take them
\* out of the count.
LEMMA GateSale ==
  ASSUME IInv, SaleInv, GateStep
  PROVE  SaleInv' /\ Issued' = Issued /\ refunded \subseteq refunded'
  <1>1. Issued' = Issued /\ UNCHANGED <<rowTx, item, catTx>> /\ \A p \in Purchases : pc'[p] = pc[p]
    BY GateShape DEF GateStep, ScanRead, ScanWrite, Refund, seatVars, ticketVars
  <1>2. refunded \subseteq refunded'
    BY DEF GateStep, ScanRead, ScanWrite, Refund, ticketVars
  <1>3. ASSUME NEW t \in Issued \ refunded'
        PROVE  ticket'[t] \in {"generated", "checked_in"}
    <2>1. t \in Tickets /\ ticket[t] \in {"generated", "checked_in"}
      BY <1>2, <1>3 DEF SaleInv, CountedInv, Issued
    <2>2. CASE \E c \in Scans : ScanRead(c) \/ ScanWrite(c)
      BY <2>1, <2>2 DEF ScanRead, ScanWrite, ticketVars, IInv, TypeOK
    <2>3. CASE \E r \in Refunds : Refund(r)
      BY <1>3, <2>1, <2>3 DEF Refund, IInv, TypeOK
    <2>4. QED
      BY <2>2, <2>3 DEF GateStep
  <1>4. CountedInv'
    BY <1>1, <1>3 DEF SaleInv, CountedInv
  <1>5. \A q \in Purchases : Room(q)' /\ Placed(q)'
    BY <1>1, <1>2, SaleStays DEF SaleInv, Room
  <1>6. QED
    BY <1>1, <1>2, <1>4, <1>5 DEF SaleInv

\* The seating engine and the clock do not come near an open transaction.
LEMMA SeatingSale ==
  ASSUME IInv, SaleInv, (SeatingNext /\ UNCHANGED ticketVars) \/ UNCHANGED vars
  PROVE  SaleInv' /\ UNCHANGED <<Issued, refunded>>
  <1>1. UNCHANGED ticketVars
    BY DEF vars
  <1>2. UNCHANGED rowTx /\ \A p \in Purchases : pc'[p] = pc[p]
    <2>1. CASE SeatingNext
      BY <2>1, SeatingStep, Kinds DEF SeatingShape, IInv, TypeOK, SeatingType
    <2>2. CASE UNCHANGED vars
      BY <2>2 DEF vars, seatVars
    <2>3. QED
      BY <2>1, <2>2
  <1>3. UNCHANGED <<ticket, item, catTx, refunded, Issued>>
    BY <1>1 DEF ticketVars, Issued
  <1>4. CountedInv'
    BY <1>3 DEF SaleInv, CountedInv
  <1>5. \A q \in Purchases : Room(q)' /\ Placed(q)'
    BY <1>2, <1>3, SaleStays DEF SaleInv, Room
  <1>6. QED
    BY <1>3, <1>4, <1>5 DEF SaleInv

\* A purchase that has not committed yet shows nothing.
LEMMA PurchaseSale ==
  ASSUME IInv, SaleInv, NEW p \in Purchases, PurchaseQuiet(p) \/ IssueSeated(p) \/ Abort(p)
  PROVE  SaleInv' /\ UNCHANGED <<Issued, refunded>>
  <1>1. /\ UNCHANGED <<Issued, ticket, refunded>>
        /\ \A q \in Purchases \ {p} : Room(q)' /\ Placed(q)'
    BY OthersStay
  <1>2. CountedInv'
    BY <1>1 DEF SaleInv, CountedInv
  <1>3. Room(p)' /\ Placed(p)'
    <2>1. CASE Abort(p)
      <3>1. pc'[p] = "refused"
        BY <2>1, Kinds DEF Abort, Goto, IInv, TypeOK
      <3>2. QED
        BY <3>1 DEF Room, Placed, Selling
    <2>2. QED
      BY <2>1, QuietSale, SeatedSale
  <1>4. QED
    BY <1>1, <1>2, <1>3 DEF SaleInv

LEMMA NextSaleInv ==
  ASSUME IInv, SaleInv, [Next]_vars
  PROVE  SaleInv'
  <1>1. CASE (SeatingNext /\ UNCHANGED ticketVars) \/ UNCHANGED vars
    BY <1>1, SeatingSale
  <1>2. CASE \E p \in Purchases : PurchaseQuiet(p) \/ IssueSeated(p) \/ Abort(p)
    BY <1>2, PurchaseSale
  <1>3. CASE \E p \in Purchases : Commit(p)
    BY <1>3, CommitSale
  <1>4. CASE GateStep
    BY <1>4, GateSale
  <1>5. QED
    BY <1>1, <1>2, <1>3, <1>4 DEF Next, PurchaseStep, PurchaseQuiet, GateStep

-----------------------------------------------------------------------------
(* Ticketing implements BoxOffice                                          *)

\* BoxOffice counts with the same Cardinality.
LEMMA SameCount == \A S : Office!Cardinality(S) = Cardinality(S)
  BY DEF Office!Cardinality, Cardinality

\* The commit is the sale: nothing of the order is sold, its seats are its
\* own, it fits what the category has left, and its reference is its group's.
LEMMA CommitSells ==
  ASSUME IInv, SaleInv, NEW p \in Purchases, Commit(p)
  PROVE  Office!Sell(p)
  <1> DEFINE c == CategoryOf[p]
  <1>1. /\ pc[p] = "commit" /\ refunded' = refunded
        /\ ticket' = [t \in Tickets |-> IF t[1] = p THEN "generated" ELSE ticket[t]]
    BY DEF Commit, Move
  <1>2. /\ Room(p) /\ Placed(p) /\ CountedInv
        /\ \A t \in TicketsOf[p] : t \in Tickets /\ t[1] = p /\ t[2] \in Items(p)
                                   /\ t = <<p, t[2]>> /\ SeatOfTicket[t] = SeatsOf[p][t[2]]
    BY TicketFacts DEF SaleInv, TicketsOf, Tickets
  <1>3. Issued' = Issued \union TicketsOf[p]
    <2>1. Issued' = Issued \union {t \in Tickets : t[1] = p}
      BY <1>1 DEF Issued, IInv, TypeOK
    <2>2. {t \in Tickets : t[1] = p} = TicketsOf[p]
      BY <1>2, TicketFacts DEF TicketsOf
    <2>3. QED
      BY <2>1, <2>2
  <1>4. Issued \intersect TicketsOf[p] = {}
    BY <1>1, <1>2 DEF IInv, SoldInv
  <1>5. ASSUME NEW t \in Issued \union TicketsOf[p], NEW u \in TicketsOf[p],
               t # u, SeatOfTicket[t] = SeatOfTicket[u], SeatOfTicket[t] # NoSeat
        PROVE  FALSE
    <2>1. u[2] \in Served(p) /\ SeatsOf[p][u[2]] # NoSeat
      BY <1>1, <1>2, <1>5 DEF Served
    <2>2. Alone(p, u[2])
      BY <1>1, <1>2, <2>1 DEF Placed, Selling
    <2>3. CASE t \in Issued
      BY <1>2, <1>5, <2>2, <2>3 DEF Alone
    <2>4. CASE t \in TicketsOf[p]
      <3>1. t[2] \in Served(p) /\ SeatsOf[p][t[2]] = SeatsOf[p][u[2]]
        BY <1>1, <1>2, <1>5, <2>4 DEF Served
      <3>2. t[2] = u[2]
        BY <2>2, <3>1 DEF Alone
      <3>3. QED
        BY <1>2, <1>5, <2>4, <3>2
    <2>5. QED
      BY <1>5, <2>3, <2>4
  <1>6. Cardinality(Office!InCategory(c)) + Cardinality(TicketsOf[p]) <= Capacity[c]
    <2>1. Office!InCategory(c) = Valid(c)
      BY DEF Office!InCategory, Valid, Issued
    <2>2. Cardinality(TicketsOf[p]) = Len(SeatsOf[p])
      BY OrderTickets, OrderFacts, FS_Interval DEF Items
    <2>3. QED
      BY <1>1, <1>2, <2>1, <2>2 DEF Room, Selling
  <1>7. \A t \in Issued : LET o == [u \in Tickets |-> u[1]][t] IN
            CategoryOf[o] = CategoryOf[p] /\ RefOf[o] = RefOf[p]
                => SessionOf[o] = SessionOf[p]
    BY <1>1, <1>2 DEF Room, Selling, Issued
  <1>8. \A t \in Issued \union TicketsOf[p], u \in TicketsOf[p] :
            t # u /\ SeatOfTicket[t] = SeatOfTicket[u] => SeatOfTicket[t] = NoSeat
    BY <1>5
  <1>9. QED
    BY <1>1, <1>3, <1>4, <1>6, <1>7, <1>8, SameCount DEF Office!Sell

\* A refund of a sold ticket is one of the box office.
LEMMA GateServes ==
  ASSUME IInv, SaleInv, GateStep
  PROVE  [Office!Next]_(Office!vars)
  <1>1. Issued' = Issued
    BY GateSale
  <1>2. CASE \E c \in Scans : ScanRead(c) \/ ScanWrite(c)
    BY <1>1, <1>2 DEF ScanRead, ScanWrite, ticketVars, Office!vars
  <1>3. CASE \E r \in Refunds : Refund(r)
    <2>1. PICK r \in Refunds : Refund(r)
      BY <1>3
    <2>2. TicketOf[r] \in Tickets
      BY TicketingAssumption
    <2>3. CASE TicketOf[r] \in Issued /\ refunded' = refunded \union {TicketOf[r]}
      BY <1>1, <2>2, <2>3 DEF Office!Refund, Office!Next
    <2>4. CASE UNCHANGED refunded
      BY <1>1, <2>4 DEF Office!vars
    <2>5. QED
      BY <2>1, <2>3, <2>4 DEF Refund
  <1>4. QED
    BY <1>2, <1>3 DEF GateStep

\* tickets.service.ts:63-164: for any seats, orders and interleaving, failures
\* and refunds included, purchases sell as the box office does: a group whole,
\* a seat once, a category within its capacity, a payment reference to one
\* group of a category.
THEOREM Refinement == Spec => BoxOfficeSpec
  <1>1. Init => Office!Init
    BY DEF Init, Office!Init, Issued
  <1>2. IInv /\ SaleInv /\ [Next]_vars => [Office!Next]_(Office!vars)
    <2> SUFFICES ASSUME IInv, SaleInv, [Next]_vars
                 PROVE  [Office!Next]_(Office!vars)
      OBVIOUS
    <2>1. CASE (SeatingNext /\ UNCHANGED ticketVars) \/ UNCHANGED vars
      BY <2>1, SeatingSale DEF Office!vars
    <2>2. CASE \E p \in Purchases : PurchaseQuiet(p) \/ IssueSeated(p) \/ Abort(p)
      BY <2>2, PurchaseSale DEF Office!vars
    <2>3. CASE \E p \in Purchases : Commit(p)
      BY <2>3, CommitSells DEF Office!Next
    <2>4. CASE GateStep
      BY <2>4, GateServes
    <2>5. QED
      BY <2>1, <2>2, <2>3, <2>4 DEF Next, PurchaseStep, PurchaseQuiet, GateStep
  <1>3. IInv /\ SaleInv /\ [Next]_vars => SaleInv'
    BY NextSaleInv
  <1>4. QED
    BY <1>1, <1>2, <1>3, InitSaleInv, Invariance, PTL
       DEF Spec, BoxOfficeSpec, Office!Spec
=============================================================================
