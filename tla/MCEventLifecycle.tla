-------------------------- MODULE MCEventLifecycle --------------------------
(***************************************************************************)
(* Five members, two seats. A scenario is the event's status, the RSVPs    *)
(* there are, and the calls that may arrive:                               *)
(*  - three members RSVP at once, one of them twice;                       *)
(*  - two guests cancel while another one RSVPs, with a waiting list of    *)
(*    two parties;                                                         *)
(*  - a guest checks in, cancels, and RSVPs again, while the one who waits *)
(*    gives up;                                                            *)
(*  - an event is published, twice, goes live and is archived by hand;     *)
(*  - an event with guests is cancelled while one RSVPs;                   *)
(*  - a Super Admin reopens a completed event, galleries are uploaded;     *)
(*  - the end of an event is put off and brought forward while it is       *)
(*    published, and while it is completed and archived by hand;           *)
(*  - a member who had cancelled RSVPs twice at once;                      *)
(*  - a guest and the one who waits cancel, as the event is called off.    *)
(***************************************************************************)
EXTENDS EventLifecycle, TLC

CONSTANTS a, b, c, d, e

Row(s, n, p) == [s |-> s, n |-> n, pos |-> p]
Empty == [m \in Members |-> Row("none", 1, 0)]
Going(m) == m :> Row("CONFIRMED", 1, 0)
Waits(m, n, p) == m :> Row("WAITING_LIST", n, p)

call(o, m) == [op |-> o, m |-> m, n |-> 1]
edit(t) == [op |-> "update", super |-> FALSE, end |-> t]
admin(o, s, t) == [op |-> o, super |-> s, to |-> t, n |-> 1]

MCInput ==
    "rsvp_a" :> call("rsvp", a) @@ "rsvp_b" :> call("rsvp", b) @@
    "rsvp_c" :> call("rsvp", c) @@ "again_c" :> call("rsvp", c) @@
    "rsvp_e" :> call("rsvp", e) @@ "pair_e" :> [call("rsvp", e) EXCEPT !.n = 2] @@
    "cancel_a" :> call("cancelRsvp", a) @@ "cancel_b" :> call("cancelRsvp", b) @@
    "cancel_c" :> call("cancelRsvp", c) @@ "cancel_d" :> call("cancelRsvp", d) @@
    "in_a" :> call("checkIn", a) @@
    "publish" :> admin("transition", FALSE, "PUBLISHED") @@
    "publish2" :> admin("transition", TRUE, "PUBLISHED") @@
    "live" :> admin("transition", FALSE, "LIVE") @@
    "archive" :> admin("transition", FALSE, "ARCHIVED") @@
    "complete" :> admin("transition", FALSE, "COMPLETED") @@
    "call_off" :> admin("cancelEvent", FALSE, "ARCHIVED") @@
    "later" :> edit(2) @@ "sooner" :> edit(0) @@
    "gallery1" :> admin("gallery", FALSE, "GALLERY_UPLOADED") @@
    "gallery2" :> admin("gallery", FALSE, "GALLERY_UPLOADED")

MCCalls == DOMAIN MCInput
Scenario(s, rows, calls) == [event |-> s, rows |-> rows @@ Empty, calls |-> calls]

MCScenarios ==
    {Scenario("PUBLISHED", Going(d), {"rsvp_a", "rsvp_b", "rsvp_c", "again_c"}),
     Scenario("PUBLISHED", Going(a) @@ Going(b) @@ Waits(c, 2, 1) @@ Waits(d, 1, 2),
              {"cancel_a", "cancel_b", "rsvp_e"}),
     Scenario("PUBLISHED", Going(a) @@ Going(b) @@ Waits(d, 1, 1),
              {"in_a", "cancel_a", "rsvp_a", "cancel_d"}),
     Scenario("DRAFT", Going(a), {"publish", "publish2", "live", "archive"}),
     Scenario("DRAFT", Going(a) @@ Going(b) @@ Waits(d, 1, 1),
              {"publish", "call_off", "rsvp_c"}),
     Scenario("LIVE", Going(a), {"complete", "publish2", "gallery1", "gallery2"}),
     Scenario("DRAFT", Going(a), {"publish", "later", "sooner"}),
     Scenario("LIVE", Going(a), {"complete", "later", "archive"}),
     Scenario("PUBLISHED", Going(a) @@ c :> Row("CANCELLED", 1, 0), {"rsvp_c", "again_c"}),
     Scenario("PUBLISHED", Going(a) @@ Going(b) @@ Waits(d, 1, 1),
              {"cancel_a", "cancel_d", "call_off"})}

\* A party of two holds both seats; b and c, who wait before d, give up.
OrderScenarios ==
    {Scenario("PUBLISHED",
              a :> Row("CONFIRMED", 2, 0) @@ Waits(b, 1, 1) @@ Waits(c, 1, 2) @@ Waits(d, 1, 3),
              {"cancel_b", "cancel_c", "pair_e", "cancel_a"})}
=============================================================================
