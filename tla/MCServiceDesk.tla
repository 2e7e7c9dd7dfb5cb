--------------------------- MODULE MCServiceDesk ---------------------------
(***************************************************************************)
(* Two members, two days, two rooms with one bed, a target of four rounds, *)
(* a milestone every three taps. Each scenario exercises one service:      *)
(*  - counts of a day entered, entered again and corrected while another   *)
(*    day is entered, or in bulk while the participant leaves;             *)
(*  - a tour that is set up while members join; rooms given twice;         *)
(*  - taps, corrections and resets of one counter, with and without a      *)
(*    sub-type; counter types renamed and deleted;                         *)
(*  - a batch of gate entries sent twice, members who come back, a vehicle *)
(*    two members use;                                                     *)
(*  - a donation two administrators decide; online donations while the     *)
(*    campaign closes;                                                     *)
(*  - a pass scanned twice, approved, cancelled, reset; managers, menu.    *)
(***************************************************************************)
EXTENDS ServiceDesk

CONSTANTS p1, p2

count(es) == [op |-> "count", entries |-> es]
entry(m, d, n, here) == [m |-> m, day |-> d, n |-> n, present |-> here]
of(o, m) == [op |-> o, m |-> m, by |-> m, key |-> m, day |-> 1]
room(m, r) == [op |-> "assignRoom", m |-> m, room |-> r]
tap(m, t, s, n) == [op |-> "delta", m |-> m, type |-> t, sub |-> s, delta |-> n]
reset(o, m, t, s) == [op |-> o, m |-> m, type |-> t, sub |-> s]
kind(o, t, n) == [op |-> o, type |-> t, name |-> n]
checkIn(es) == [op |-> "checkIn", entries |-> es]
at(k, m, v) == [key |-> k, m |-> m, vehicle |-> v]
decide(d, v) == [op |-> "decide", donation |-> d, verify |-> v]
gift(o, total, parts) == [op |-> o, total |-> total, splits |-> parts]
pass(o, p) == [op |-> o, pass |-> p, byIdentifier |-> TRUE]

TourInput ==
    "day1" :> count(<<entry(p1, 1, 2, FALSE)>>) @@
    "again1" :> count(<<entry(p1, 1, 3, FALSE)>>) @@
    "day2" :> count(<<entry(p1, 2, 2, FALSE)>>) @@
    "again2" :> count(<<entry(p1, 2, 2, FALSE)>>) @@
    "bulk" :> count(<<entry(p1, 1, 4, TRUE), entry(p2, 1, 1, FALSE)>>) @@
    "create" :> [op |-> "createTour", target |-> 4, monk |-> TRUE] @@
    "create_bad" :> [op |-> "createTour", target |-> 4, monk |-> FALSE] @@
    "no_target" :> [op |-> "updateTour", target |-> 0, super |-> FALSE] @@
    "raise" :> [op |-> "updateTour", target |-> 9, super |-> FALSE] @@
    "lower" :> [op |-> "updateTour", target |-> 3, super |-> FALSE] @@
    "go_live" :> [op |-> "transitionTour", to |-> "ACTIVE"] @@
    "complete" :> [op |-> "transitionTour", to |-> "COMPLETED"] @@
    "join1" :> of("join", p1) @@ "join1b" :> of("join", p1) @@ "join2" :> of("join", p2) @@
    "leave1" :> of("leave", p1) @@ "leave2" :> of("leave", p2) @@
    "form1" :> of("medicalForm", p1) @@ "here1" :> of("attendance", p1) @@
    "sponsor" :> of("sponsor", p1) @@
    "bed1" :> room(p1, 1) @@ "bed2" :> room(p2, 1) @@ "bed1b" :> room(p1, 2)

CounterInput ==
    "tap2" :> tap(p1, "mala", NoSub, 2) @@ "tap2b" :> tap(p1, "mala", NoSub, 2) @@
    "untap" :> tap(p1, "mala", NoSub, -1) @@ "tap0" :> tap(p1, "mala", NoSub, 0) @@
    "sub5" :> tap(p1, "mala", "japa", 5) @@ "sub1" :> tap(p1, "mala", "japa", 1) @@
    "reset" :> reset("reset", p1, "mala", NoSub) @@
    "resetAll" :> reset("resetAll", p1, "mala", NoSub) @@
    "resetType" :> reset("resetType", p1, "mala", NoSub) @@
    "newType" :> kind("createType", "new", "japa") @@
    "rename" :> kind("renameType", "mala", "japa") @@
    "dropType" :> kind("deleteType", "mala", "none")

GateInput ==
    "batch" :> checkIn(<<at("k1", p1, NoVehicle), at("k2", p2, "car")>>) @@
    "resent" :> checkIn(<<at("k1", p1, NoVehicle), at("k2", p2, "car")>>) @@
    "online" :> checkIn(<<at("k3", p1, "car")>>) @@
    "walk_in" :> checkIn(<<at("k4", NoOne, NoVehicle)>>) @@
    "out1" :> [op |-> "checkOut", key |-> "k1"] @@
    "out2" :> [op |-> "checkOut", key |-> "k2"]

DonationInput ==
    "gift" :> gift("donate", 5, <<2, 3>>) @@ "bad_gift" :> gift("donate", 5, <<2, 2>>) @@
    "verify" :> decide("gift", TRUE) @@ "verify2" :> decide("gift", TRUE) @@
    "reject" :> decide("gift", FALSE) @@
    "online1" :> gift("donateOnline", 5, <<5>>) @@ "online2" :> gift("donateOnline", 5, <<5>>) @@
    "close" :> [op |-> "campaign", active |-> FALSE]

MealInput ==
    "own_pass" :> [pass("createPass", "own_pass") EXCEPT !.byIdentifier = FALSE] @@
    "admin_pass" :> pass("createPass", "admin_pass") @@
    "scan_a" :> pass("scanPass", "admin_pass") @@ "scan_b" :> pass("scanPass", "admin_pass") @@
    "scan_own" :> pass("scanPass", "own_pass") @@
    "approve" :> pass("approvePass", "admin_pass") @@
    "approve2" :> pass("approvePass", "admin_pass") @@
    "cancel" :> pass("cancelPass", "admin_pass") @@
    "pending" :> pass("markPending", "admin_pass") @@
    "dal" :> [op |-> "addItem", item |-> "dal"] @@
    "no_dal" :> [op |-> "deleteItem", item |-> "dal"] @@
    "no_dal2" :> [op |-> "deleteItem", item |-> "dal"] @@
    "manager" :> [op |-> "addManager", mobile |-> "m1"] @@
    "manager2" :> [op |-> "addManager", mobile |-> "m1"] @@
    "no_manager" :> [op |-> "removeManager", mobile |-> "m1"]

MCInput == TourInput @@ CounterInput @@ GateInput @@ DonationInput @@ MealInput
MCCalls == DOMAIN MCInput
MCRooms == [r \in 1 .. 2 |-> 1]
MCJobIds == {"tour-cert"} \X {p1, p2}

NoTour == [status |-> "none", target |-> 0, locked |-> FALSE]
Empty == [tour |-> NoTour, enrolled |-> {}, mala |-> <<>>, entries |-> {},
          donations |-> <<>>, campaign |-> TRUE, passes |-> <<>>, users |-> {"m0"},
          calls |-> {}]

Tour(locked, who, calls) ==
    [Empty EXCEPT !.tour = [status |-> "ACTIVE", target |-> 4, locked |-> locked],
                  !.enrolled = who, !.calls = calls]
Count(m, s, n) == [m |-> m, type |-> "mala", sub |-> s, count |-> n]
Mala(rows, calls) == [Empty EXCEPT !.mala = rows, !.calls = calls]
Guards(es, calls) == [Empty EXCEPT !.entries = es, !.calls = calls]
Serve(calls) == [Empty EXCEPT !.calls = calls]

MCScenarios ==
    {Tour(TRUE, {p1}, {"day1", "again1"}),
     Tour(TRUE, {p1}, {"day1", "day2"}),
     Tour(TRUE, {p1}, {"day1", "day2", "again2"}),
     Tour(TRUE, {p1, p2}, {"bulk", "leave2", "day2"}),
     Tour(FALSE, {p1}, {"bed1", "bed2", "bed1b", "join2"}),
     Tour(FALSE, {}, {"join1", "join1b", "leave1", "lower"}),
     Tour(TRUE, {p1, p2}, {"lower", "form1", "here1", "sponsor", "leave2"}),
     Tour(FALSE, {p1}, {"day1", "no_target", "raise"}),
     Serve({"create", "create_bad", "go_live", "complete", "lower"}),
     Mala(<<>>, {"tap2", "tap2b", "untap", "reset"}),
     Mala("r0" :> Count(p1, NoSub, 2), {"tap2", "untap", "resetAll", "tap0"}),
     Mala("r0" :> Count(p1, NoSub, 4), {"sub5", "sub1", "resetType", "dropType"}),
     Mala(<<>>, {"newType", "rename", "dropType"}),
     Guards({}, {"batch", "resent", "online", "out1"}),
     Guards({}, {"batch", "online", "out2", "walk_in"}),
     Serve({"gift", "verify", "reject", "verify2"}),
     Serve({"bad_gift", "online1", "online2", "close"}),
     Serve({"admin_pass", "approve", "scan_a", "pending", "approve2"}),
     Serve({"admin_pass", "approve", "scan_a", "scan_b", "cancel"}),
     Serve({"own_pass", "scan_own", "dal", "no_dal", "no_dal2"}),
     Serve({"manager", "manager2", "no_manager"})}
=============================================================================
