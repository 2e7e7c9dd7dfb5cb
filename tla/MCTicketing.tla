---------------------------- MODULE MCTicketing ----------------------------
(***************************************************************************)
(* Workloads, each a handful of concurrent requests:                       *)
(*  - two sessions lock, and try to buy, the same seat;                    *)
(*  - an administrator blocks and releases the seat a session is buying;   *)
(*  - a session gives its lock back while another one waits for the seat;  *)
(*  - two unseated orders, a refund and two scans in one small category;   *)
(*  - an order for two seats and its replay;                               *)
(*  - orders of two groups with one payment reference.                     *)
(***************************************************************************)
EXTENDS Ticketing

CONSTANTS s1, s2, A, B, l1, l2, l3, r1, al, ar, p1, p2, p3, p4, p5, p6,
          c1, c2, f1

MCRequests == {l1, l2, l3, r1, al, ar, p1, p2, p3, p4, p5, p6, c1, c2, f1}
MCSeatOf == [x \in {l1, l2, l3, al, ar} |-> IF x = l3 THEN s2 ELSE s1]
MCTokenOf == [x \in {r1} |-> l1]
MCSessionOf == [x \in {l1, l2, l3, p1, p2, p3, p4, p5, p6} |->
    CASE x \in {l1, l3, p1, p5, p6} -> "S1"
      [] x \in {l2, p2} -> "S2"
      [] x = p3 -> "S3"
      [] OTHER -> "S4"]
MCSeatsOf == [p \in {p1, p2, p3, p4, p5, p6} |->
    CASE p \in {p1, p2} -> <<s1>>
      [] p \in {p3, p4} -> <<NoSeat, NoSeat>>
      [] p \in {p5, p6} -> <<s1, s2>>]
MCCategoryOf == [p \in {p1, p2, p3, p4, p5, p6} |-> IF p = p2 THEN B ELSE A]
MCRefOf == [p \in {p1, p2, p3, p4, p5, p6} |->
    IF p \in {p1, p4} THEN "ref1" ELSE IF p = p2 THEN "ref2" ELSE "ref3"]
MCCapacity == [c \in {A, B} |-> IF c = A THEN 3 ELSE 1]
MCTicketOf == [x \in {c1, c2, f1} |-> <<p3, 1>>]

MCWorkloads == {{l1, l2, p1, p2}, {l1, al, ar, p1}, {l1, r1, l2, p2},
                {p3, p4, f1, c1, c2}, {l1, l3, p5, p6}, {l1, p1, p4}}

\* Two sessions and one seat, and nobody else who writes it.
MCTwoSessions == {{l1, l2, p1, p2}}
=============================================================================
