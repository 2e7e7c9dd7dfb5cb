------------------------------ MODULE MCBooking ------------------------------
(***************************************************************************)
(* Two items: the hall, PAID, one booking at a time, and the room, FREE,   *)
(* with two physical rooms of its name. Workloads:                         *)
(*  - two members want the hall on one day; the first one's payment is     *)
(*    approved, proved, verified, or expires;                              *)
(*  - two administrators approve, and one rejects, the same booking;       *)
(*  - a proof is sent, rejected, sent again with another key, accepted;    *)
(*  - two administrators accept one proof;                                 *)
(*  - a room is booked, and the front desk checks in and moves the guest,  *)
(*    or checks out and cleans;                                            *)
(*  - a day is closed and opened again around a booking and its extension. *)
(***************************************************************************)
EXTENDS Booking, TLC

CONSTANTS b1, b2, b3

MCItemOf == [b \in {b1, b2, b3} |-> IF b \in {b1, b2} THEN "hall" ELSE "room"]
MCFirstDay == [b \in {b1, b2, b3} |-> 1]
MCLastDay == [b \in {b1, b2, b3} |-> IF b = b2 THEN 2 ELSE 1]
MCQtyOf == [b \in {b1, b2, b3} |-> IF b = b3 THEN 2 ELSE 1]
MCRoomsOf == [i \in {"hall", "room"} |-> IF i = "hall" THEN {} ELSE {"r1", "r2"}]
MCMaxBookings == [i \in {"hall", "room"} |-> IF i = "hall" THEN 1 ELSE 0]

decide(b, d, rs) == [op |-> "decide", b |-> b, decision |-> d, rooms |-> rs]
proof(b, k) == [op |-> "proof", b |-> b, key |-> k]
verify(b, d) == [op |-> "verify", b |-> b, decision |-> d]
desk(o, b, rs) == [op |-> o, b |-> b, rooms |-> rs]
day(o, i, d) == [op |-> o, b |-> b2, item |-> i, day |-> d]

MCInput ==
    "approve1" :> decide(b1, "APPROVE", {}) @@
    "approve2" :> decide(b1, "APPROVE", {}) @@
    "reject"   :> decide(b1, "REJECT", {}) @@
    "ask"      :> decide(b2, "REQUEST_INFO", {}) @@
    "proof1"   :> proof(b1, "k1") @@
    "proof1b"  :> proof(b1, "k1") @@
    "proof2"   :> proof(b1, "k2") @@
    "accept1"  :> verify(b1, "APPROVE") @@
    "accept2"  :> verify(b1, "APPROVE") @@
    "refuse"   :> verify(b1, "REJECT") @@
    "approve3" :> decide(b3, "APPROVE", {"r1"}) @@
    "in"       :> desk("checkIn", b3, {}) @@
    "in1"      :> desk("checkIn", b3, {"r1"}) @@
    "in2"      :> desk("checkIn", b3, {"r2"}) @@
    "out"      :> desk("checkOut", b3, {}) @@
    "move"     :> desk("transfer", b3, {"r2"}) @@
    "clean"    :> [op |-> "housekeeping", b |-> b3, rooms |-> {"r1"},
                   to |-> "UNDER_CLEANING"] @@
    "close"    :> day("close", "hall", 2) @@
    "reopen"   :> day("reopen", "hall", 2) @@
    "extend"   :> [op |-> "extend", b |-> b2, days |-> 1]

MCCalls == DOMAIN MCInput
MCWorkloads == {{b1, b2, "approve1", "proof1", "accept1"},
                {b1, "approve1", "approve2", "reject"},
                {b1, "approve1", "proof1", "refuse", "proof2", "accept1"},
                {b1, "approve1", "proof1", "accept1", "accept2"},
                {b3, "approve3", "in", "move"},
                {b3, "approve3", "in2", "clean"},
                {b3, "approve3", "out"},
                {b2, "close", "reopen", "extend", "ask"}}
StayWorkloads == {{b3, "approve3", "in1", "in2"}}
ReplayWorkloads == {{b1, "approve1", "proof1", "proof1b", "accept1"}}
=============================================================================
