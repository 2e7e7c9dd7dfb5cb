----------------------------- MODULE BoxOffice -----------------------------
(***************************************************************************)
(* What ticket sales promise: a booking group is sold whole or not at all, *)
(* a seat is sold once, a category is never sold beyond its capacity       *)
(* (refunded tickets make room), and inside a category a payment reference *)
(* backs a single booking group.                                           *)
(***************************************************************************)
EXTENDS Integers, FiniteSets

CONSTANTS Purchases,   \* the orders
          Tickets,     \* all tickets any order asks for
          TicketsOf,   \* the tickets of an order
          SeatOfTicket,\* the seat of a ticket, or NoSeat
          NoSeat,
          CategoryOf, GroupOf, RefOf,  \* of an order
          OrderOf,     \* the order a ticket belongs to
          Capacity     \* of a category

VARIABLES sold,        \* tickets sold
          refunded     \* tickets refunded afterwards

vars == <<sold, refunded>>

Init == sold = {} /\ refunded = {}

InCategory(c) == {t \in sold \ refunded : CategoryOf[OrderOf[t]] = c}

Sell(p) ==
    /\ sold \intersect TicketsOf[p] = {}
    /\ \A t \in sold \union TicketsOf[p], u \in TicketsOf[p] :
           t # u /\ SeatOfTicket[t] = SeatOfTicket[u] => SeatOfTicket[t] = NoSeat
    /\ Cardinality(InCategory(CategoryOf[p])) + Cardinality(TicketsOf[p])
           <= Capacity[CategoryOf[p]]
    /\ \A t \in sold : LET o == OrderOf[t] IN
           CategoryOf[o] = CategoryOf[p] /\ RefOf[o] = RefOf[p]
               => GroupOf[o] = GroupOf[p]
    /\ sold' = sold \union TicketsOf[p]
    /\ UNCHANGED refunded

Refund(t) == t \in sold /\ refunded' = refunded \union {t} /\ UNCHANGED sold

Next == (\E p \in Purchases : Sell(p)) \/ (\E t \in Tickets : Refund(t))

Spec == Init /\ [][Next]_vars
=============================================================================
