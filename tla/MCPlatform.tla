----------------------------- MODULE MCPlatform -----------------------------
(***************************************************************************)
(* One super admin, one temple admin with one organization, two members    *)
(* and two names that have no account yet. Each scenario sends one to four *)
(* requests against one part of the platform, at once:                     *)
(*  - sign-ins by code, email, password and Google; refreshes and logouts; *)
(*  - accounts of administrators and their grants;                         *)
(*  - registrations that race, relatives, imports;                         *)
(*  - staff, attendance, leave and documents;                              *)
(*  - devices, alerts, routes and journeys;                                *)
(*  - organizations, their parts, rooms and reviews, volunteers;           *)
(*  - monks, groups and chaturmas plans.                                   *)
(***************************************************************************)
EXTENDS Platform

CONSTANTS root, head, m1, m2, n1, n2

-----------------------------------------------------------------------------
(* Sign-ins *)

sign(o, u, d) == [op |-> o, u |-> u, by |-> u, d |-> d, purpose |-> "LOGIN", code |-> "code",
                  pw |-> "right", old |-> "right", token |-> "old"]
With(r, body) == body @@ r

SignInput ==
    "code" :> sign("code", m1, "d1") @@ "code2" :> sign("code", m1, "d1") @@
    "login" :> sign("otp", m1, "d1") @@
    "wrong" :> With(sign("otp", m1, "d1"), [code |-> "nonsense"]) @@
    "forgot" :> With(sign("otp", m1, "d1"), [purpose |-> "RESET_PASSWORD", pw |-> "new"]) @@
    "enrol" :> With(sign("otp", m1, "d1"), [purpose |-> "REGISTER"]) @@
    "ask" :> With(sign("code", n1, "d1"), [purpose |-> "REGISTER"]) @@
    "mail" :> sign("emailCode", n1, "d1") @@
    "mailed" :> With(sign("emailOtp", n1, "d1"), [code |-> "mail"]) @@
    "mailed2" :> With(sign("emailOtp", n1, "d2"), [code |-> "mail"]) @@
    "google" :> sign("google", n1, "d1") @@ "google1" :> sign("google", m1, "d2") @@
    "pass" :> sign("password", m1, "d1") @@ "passMail" :> sign("emailPassword", m1, "d2") @@
    "guess" :> With(sign("password", m1, "d1"), [pw |-> "wrong"]) @@
    "guess2" :> With(sign("password", m1, "d1"), [pw |-> "wrong"]) @@
    "refresh" :> sign("refresh", m1, "d1") @@ "refresh2" :> sign("refresh", m1, "d1") @@
    "logout" :> sign("logout", m1, "d1") @@
    "set" :> sign("setPassword", m1, "d1") @@
    "change" :> With(sign("changePassword", m1, "d1"), [pw |-> "new"])

-----------------------------------------------------------------------------
(* Administrators *)

admin(o, by, u) == [op |-> o, by |-> by, u |-> u, role |-> "TEMPLE_ADMIN", org |-> "o", scoped |-> FALSE,
                    default |-> TRUE, modules |-> {"STAFF"}, actions |-> {"VIEW"}, pw |-> "new",
                    status |-> "INACTIVE"]

AdminInput ==
    "hire" :> admin("createAdmin", root, n1) @@
    "hireLocal" :> With(admin("createAdmin", head, n1), [role |-> "STAFF", scoped |-> TRUE]) @@
    "hireBroad" :> With(admin("createAdmin", head, n1), [role |-> "STAFF", default |-> FALSE]) @@
    "grant1" :> admin("adminModules", root, head) @@
    "grant2" :> With(admin("adminModules", root, head), [modules |-> {"TRACKING"}]) @@
    "off" :> admin("adminStatus", root, head) @@ "fire" :> admin("deleteAdmin", root, head) @@
    "repass" :> admin("adminEdit", root, head) @@ "widen" :> admin("adminOrgs", root, head) @@
    "own" :> admin("myModules", head, head) @@ "who" :> admin("orgAdmins", root, head)

-----------------------------------------------------------------------------
(* Members *)

person(o, by, u) == [op |-> o, by |-> by, u |-> u, d |-> "d1", category |-> "JAIN", aadhaar |-> None,
                     family |-> None, relative |-> m2, status |-> "INACTIVE", context |-> None,
                     active |-> TRUE, rows |-> {n1, n2, m1}]

MemberInput ==
    "join" :> With(person("register", n1, n1), [aadhaar |-> "a"]) @@
    "join2" :> With(person("register", n1, n1), [d |-> "d2"]) @@
    "joinOther" :> With(person("register", n2, n2), [aadhaar |-> "a", category |-> "NON_JAIN"]) @@
    "stub" :> With(person("init", n1, n1), [category |-> "NON_JAIN"]) @@
    "form" :> With(person("profile", m1, m1), [aadhaar |-> "a", family |-> {m2, n1, head}]) @@
    "formNew" :> person("profile", n1, n1) @@
    "formFor" :> With(person("adminProfile", head, m2), [aadhaar |-> "a"]) @@
    "add" :> With(person("relative", m1, m1), [relative |-> n1]) @@
    "add2" :> With(person("relative", m1, m1), [relative |-> n1]) @@
    "addFor" :> person("relative", head, m1) @@
    "addRoot" :> With(person("relative", root, root), [relative |-> m1]) @@
    "tie" :> person("link", m1, m1) @@ "tieBack" :> With(person("link", m2, m2), [relative |-> m1]) @@
    "tieFor" :> person("link", head, m1) @@
    "untie" :> person("unlink", root, m1) @@
    "import" :> person("import", head, head) @@
    "make" :> With(person("adminCreate", head, n1), [aadhaar |-> "a", family |-> {m2}]) @@
    "make2" :> person("adminCreate", head, n2) @@
    "off1" :> person("memberStatus", head, m1) @@ "erase1" :> person("deleteMember", root, m1) @@
    "turn1" :> With(person("switch", m1, m1), [context |-> "east"]) @@
    "turn2" :> person("switch", m1, m1) @@
    "list" :> person("listMembers", head, head)

-----------------------------------------------------------------------------
(* Staff *)

clerk(o, by, u) == [op |-> o, by |-> by, u |-> u, org |-> "o", existing |-> TRUE, category |-> "JAIN",
                    grants |-> {<<"STAFF", "VIEW">>}, leave |-> "away", status |-> "APPROVED", kind |-> "ID"]

StaffInput ==
    "staff1" :> clerk("staff", head, m1) @@ "staff2" :> clerk("staff", head, m2) @@
    "staffNew" :> With(clerk("staff", head, n1), [existing |-> FALSE]) @@
    "staffNew2" :> With(clerk("staff", head, n1), [existing |-> FALSE]) @@
    "regrant1" :> clerk("regrant", head, m1) @@
    "regrant2" :> With(clerk("regrant", head, m1), [grants |-> {<<"STAFF", "EDIT">>}]) @@
    "in" :> clerk("checkIn", m1, m1) @@ "in2" :> clerk("checkIn", head, m1) @@
    "out" :> clerk("checkOut", m1, m1) @@ "byHand" :> clerk("manual", head, m1) @@
    "away" :> clerk("leave", m1, m1) @@ "decide" :> clerk("decideLeave", head, head) @@
    "paper1" :> clerk("paper", head, m1) @@ "paper2" :> clerk("paper", head, m1)

-----------------------------------------------------------------------------
(* Devices, alerts, routes, journeys *)

gear(o) == [op |-> o, by |-> head, device |-> "g", monk |-> "k", alert |-> "alarm", low |-> TRUE]
way(o) == [op |-> o, by |-> head, monk |-> "k", route |-> "r", stops |-> 3, journey |-> "go",
           type |-> "ARRIVAL", entry |-> "note"]

TrackInput ==
    "newGear" :> gear("device") @@ "assign" :> With(gear("assignDevice"), [monk |-> "k2"]) @@
    "card" :> gear("sim") @@ "blip" :> gear("ping") @@ "gearList" :> gear("devices") @@
    "lost" :> With(gear("ping"), [device |-> "unknown", by |-> m1]) @@
    "sweep1" :> gear("sweep") @@ "sweep2" :> gear("sweep") @@
    "alarm" :> gear("sos") @@ "alarm2" :> gear("sos") @@ "settle" :> gear("resolve") @@
    "alertList" :> gear("alerts") @@
    "road" :> way("route") @@ "reroad" :> way("routeEdit") @@
    "go" :> way("journey") @@ "go2" :> way("journey") @@
    "arrive" :> way("event") @@ "arrive2" :> way("event") @@
    "late" :> With(way("event"), [type |-> "DELAY"]) @@
    "late2" :> With(way("event"), [type |-> "DELAY"]) @@
    "remark" :> With(way("event"), [type |-> "MANUAL_UPDATE"]) @@
    "note" :> way("entry") @@ "renote" :> way("entryEdit") @@
    "unnote" :> With(way("entryDelete"), [by |-> root]) @@
    "track" :> way("timeline") @@ "map" :> way("liveMap") @@ "notes" :> way("entries") @@
    "roads" :> way("routes") @@ "trips" :> way("journeys") @@ "now" :> way("active")

-----------------------------------------------------------------------------
(* Organizations, volunteers, monks *)

w == <<"seed", "b">>
w1 == <<"seed", "b1">>
place(o, by) == [op |-> o, by |-> by, u |-> m1, org |-> "o", form |-> None, publish |-> {},
                 type |-> "DHARAMSHALA", in |-> "b", status |-> "OCCUPIED", kind |-> "trustee", n |-> 1,
                 part |-> "part1", on |-> TRUE, rating |-> 5, chance |-> "chance"]

SiteInput ==
    "found" :> With(place("site", root), [form |-> "b2" :> {"x"}]) @@
    "redo" :> With(place("siteEdit", head), [form |-> "b" :> {"x"} @@ "b2" :> {"y"}, publish |-> {"DHARAMSHALA"}]) @@
    "redo2" :> With(place("siteEdit", head), [form |-> "b" :> {"room"}]) @@
    "switchOn" :> place("siteModules", root) @@
    "house" :> place("building", head) @@ "wing" :> place("wing", head) @@
    "chamber" :> With(place("room", head), [in |-> w]) @@
    "occupy" :> With(place("roomEdit", head), [in |-> "room"]) @@
    "part1" :> place("part", head) @@ "part2" :> place("part", head) @@
    "bulk" :> With(place("part", head), [kind |-> "gallery", n |-> 2]) @@
    "photo" :> With(place("part", head), [kind |-> "gallery"]) @@
    "notice" :> With(place("part", head), [kind |-> "notice"]) @@
    "helper" :> With(place("part", head), [kind |-> "volunteer"]) @@
    "unpart" :> place("partDelete", head) @@
    "rate0" :> With(place("review", m1), [org |-> "nowhere"]) @@
    "rate" :> place("review", m1) @@ "rate2" :> With(place("review", m1), [rating |-> 1]) @@
    "show" :> place("reviewPublish", head) @@ "hide" :> place("reviewHide", root) @@
    "follow1" :> place("follow", m1) @@ "follow2" :> place("follow", m1) @@
    "unfollow1" :> place("unfollow", m1) @@
    "amiss" :> place("report", head) @@ "lesson" :> place("lesson", m1) @@
    "chance" :> place("chance", head) @@ "apply" :> place("apply", m1) @@
    "enlist1" :> With(place("decideOffer", head), [status |-> "APPROVED"]) @@
    "enlist2" :> With(place("decideOffer", head), [status |-> "APPROVED"]) @@
    "shelf" :> place("sites", m1) @@ "shelfOwn" :> place("sites", head) @@
    "temples" :> With(place("sites", m1), [type |-> "TEMPLE"]) @@ "look" :> place("siteGet", m1)

k == <<"seed", 1>>
k2 == <<"seed", 2>>
saint(o, by) == [op |-> o, by |-> by, monk |-> k, rows |-> {1, 2}, timeline |-> {"birth"}, status |-> "INACTIVE",
                 monks |-> {k}, group |-> "band", plan |-> "stay", org |-> "o"]

MonkInput ==
    "ordain" :> saint("monk", head) @@ "ordainAll" :> saint("monkImport", head) @@
    "retell" :> With(saint("monkEdit", head), [timeline |-> {"birth", "vows"}]) @@
    "retell2" :> saint("monkEdit", root) @@
    "depart" :> saint("monkDelete", root) @@ "rest" :> saint("monkStatus", head) @@
    "band" :> saint("mgroup", head) @@ "reband" :> With(saint("mgroupEdit", head), [monks |-> {k2}]) @@
    "disband" :> saint("mgroupDelete", root) @@
    "adore" :> saint("devote", m1) @@ "part" :> saint("leaveMonk", m1) @@
    "stay" :> With(saint("plan", head), [monks |-> {k2}]) @@
    "restay" :> With(saint("planEdit", head), [group |-> None]) @@
    "unstay" :> saint("planDelete", root) @@
    "lives" :> saint("monks", m1) @@ "life" :> saint("monkGet", m1) @@ "bands" :> saint("mgroups", m1) @@
    "stays" :> saint("plans", m1) @@ "allStays" :> With(saint("plans", m1), [org |-> None]) @@
    "theStay" :> saint("planGet", m1)

-----------------------------------------------------------------------------
(* The office *)

counter(o, by) == [op |-> o, by |-> by, u |-> by, org |-> "o", hall |-> "hall", on |-> FALSE, hire |-> "rent",
                   status |-> "CLOSED", kind |-> "support", case |-> "help", public |-> TRUE,
                   bulletin |-> "bulletin", to |-> None, letter |-> "letter", calendar |-> "lunar",
                   days |-> {1, 2}, fits |-> TRUE, item |-> "banner",
                   ad |-> [from |-> 1, till |-> 3, rate |-> 10, flat |-> TRUE, cost |-> 0],
                   edit |-> [till |-> 2]]

OfficeInput ==
    "hall" :> counter("hall", m1) @@ "hallOff" :> counter("hallEdit", m1) @@ "hallGone" :> counter("hallDelete", m1) @@
    "rent" :> counter("hallBook", m1) @@ "rent2" :> counter("hallBook", m2) @@ "rentRoot" :> counter("hallBook", root) @@
    "confirm" :> counter("hallStatus", head) @@ "confirm1" :> counter("hallStatus", m1) @@
    "hallList" :> counter("halls", m1) @@ "mine" :> counter("myHires", m1) @@ "hiresOf" :> counter("hallHires", head) @@
    "help" :> counter("case", m1) @@ "helpRoot" :> counter("case", root) @@
    "helped" :> counter("decideCase", root) @@ "helped2" :> With(counter("decideCase", root), [status |-> "OPEN"]) @@
    "correct" :> With(counter("case", head), [kind |-> "correction"]) @@
    "corrected" :> With(counter("decideCase", root), [kind |-> "correction", case |-> "correct"]) @@
    "wrong1" :> With(counter("case", m1), [kind |-> "report"]) @@
    "verified" :> With(counter("decideCase", head), [kind |-> "report", case |-> "wrong1"]) @@
    "queue" :> counter("cases", root) @@
    "bulletin" :> counter("announce", head) @@
    "quietly" :> With(counter("announce", head), [public |-> FALSE]) @@
    "reword" :> counter("reannounce", head) @@ "retract" :> counter("unannounce", root) @@
    "letter" :> counter("letter", head) @@ "burn" :> counter("letterDelete", root) @@ "post" :> counter("letters", head) @@
    "almanac" :> counter("tithi", root) @@ "almanac2" :> With(counter("tithi", root), [days |-> {1}]) @@
    "choose" :> counter("calendar", m1) @@ "chooseBad" :> With(counter("calendar", m2), [calendar |-> "none"]) @@
    "daily" :> counter("daily", root) @@
    "banner" :> counter("put", root) @@ "rebanner" :> counter("shelfEdit", root) @@
    "unbanner" :> counter("shelfDelete", root) @@ "banners" :> counter("shelf", m1) @@
    "ad" :> counter("ad", root) @@ "shorten" :> With(counter("adEdit", root), [item |-> "ad"]) @@
    "postpone" :> With(counter("adEdit", root), [item |-> "ad", edit |-> [from |-> 2]]) @@
    "click" :> With(counter("click", m1), [item |-> "ad"])

MCInput == OfficeInput @@ SignInput @@ AdminInput @@ MemberInput @@ StaffInput @@ TrackInput @@ SiteInput @@ MonkInput
MCCalls == DOMAIN MCInput

-----------------------------------------------------------------------------
(* What the database holds at first *)

Member(u) == [Profile(<<"seed", u>>, "JAIN", "ACTIVE", FALSE) EXCEPT !.seeded = TRUE]
MCUsers ==
    root :> Account("SUPER_ADMIN", "ACTIVE") @@
    head :> Account("TEMPLE_ADMIN", "ACTIVE") @@
    m1 :> [Account("MEMBER", "ACTIVE") EXCEPT !.pid = <<"seed", m1>>, !.pw = "right"] @@
    m2 :> [Account("MEMBER", "ACTIVE") EXCEPT !.pid = <<"seed", m2>>]

MCModules == {"STAFF", "TRACKING"}
Verbs == {"VIEW", "CREATE", "EDIT", "APPROVE"}
MCRoleGrants == "TEMPLE_ADMIN" :>
    ({"STAFF", "TRACKING", "DEVICES", "ALERTS", "MEMBERS", "FAMILY", "MONKS", "EVENTS", "TEMPLES",
      "DHARAMSHALAS", "VOLUNTEERS", "ANNOUNCEMENTS", "COMMUNICATION", "CALENDAR", "SETTINGS",
      "SETTINGS.SE_MODULE_CONTROLLER"} \X Verbs)
MCNewAdminModules == [r \in ADMIN_ROLES |-> {"STAFF"}]
MCLimit == [kind \in {"gallery", "trustee", "dhaja"} |-> 1]

World(calls) ==
    [calls |-> calls, users |-> MCUsers, names |-> {m1, n1}, devices |-> {"d1", "d2"},
     sessions |-> <<m1, "d1">> :> [token |-> "old", revoked |-> FALSE],
     overrides |-> {}, tenants |-> {<<head, "o">>}, staff |-> <<>>,
     members |-> m1 :> Member(m1) @@ m2 :> Member(m2), links |-> {}, shifts |-> {},
     gear |-> <<>>, routes |-> "r" :> [monk |-> "k", stops |-> <<"PENDING", "PENDING">>],
     sites |-> "o" :> [type |-> "DHARAMSHALA", has |-> {}, published |-> {}, followers |-> 0, avg |-> {}],
     buildings |-> "b" :> [org |-> "o", gone |-> FALSE] @@ "b1" :> [org |-> "o", gone |-> FALSE],
     wings |-> w :> [building |-> "b", gone |-> FALSE] @@ w1 :> [building |-> "b1", gone |-> FALSE],
     rooms |-> "room" :> [wing |-> w, gone |-> FALSE, status |-> "OCCUPIED"] @@
               "room1" :> [wing |-> w1, gone |-> FALSE, status |-> "AVAILABLE"],
     monks |-> k :> NewMonk @@ k2 :> NewMonk, groups |-> <<>>,
     halls |-> <<>>, chosen |-> m2 :> "lunar" @@ "o" :> "lunar"]

Clerk == m1 :> [n |-> 1, org |-> "o", grants |-> {<<"STAFF", "VIEW">>}]
Gear == "g" :> [monk |-> "k", signal |-> "ok", sims |-> {}]
Stale(u) == Override(u, None, "STAFF", {"VIEW", "CREATE"}, "seed")

MCScenarios ==
    {World(calls) : calls \in
       { {"code", "login", "wrong", "code2"}, {"code", "forgot", "pass"}, {"enrol", "ask", "code"},
         {"mail", "mailed", "mailed2"}, {"mail", "mailed", "google"}, {"google1", "passMail"},
         {"guess", "guess2", "pass"},
         {"refresh", "refresh2", "logout"}, {"logout", "pass", "refresh"}, {"set", "change"},
         {"hire", "own"}, {"grant1", "grant2"}, {"hireLocal", "who"}, {"widen", "repass", "hireBroad"},
         {"off", "fire", "list"},
         {"join", "join2"}, {"join", "joinOther"}, {"join", "mail", "mailed", "stub"},
         {"formNew", "stub", "google"},
         {"form", "formFor"}, {"form", "add"}, {"add", "add2"}, {"addFor", "tie"}, {"addRoot"},
         {"tie", "tieBack", "untie"}, {"tieFor", "untie"}, {"import", "join"}, {"make", "join"}, {"make2", "make"},
         {"off1", "turn1", "turn2"}, {"erase1", "list"},
         {"staff1", "staff2"}, {"staffNew", "staffNew2"}, {"staffNew", "join"},
         {"go", "arrive", "arrive2"}, {"go", "arrive", "late"}, {"go", "arrive", "reroad"}, {"go", "go2"},
         {"go", "late", "late2"}, {"go", "arrive", "remark", "track"},
         {"road", "roads", "trips", "now"}, {"note", "renote", "unnote", "notes"},
         {"alarm", "alarm2", "settle", "alertList"},
         {"found"}, {"redo", "occupy"}, {"redo", "redo2"}, {"switchOn", "house", "wing", "chamber"},
         {"part1", "part2", "unpart"}, {"bulk", "photo"}, {"notice", "helper"},
         {"rate", "rate2", "show", "hide"}, {"follow1", "follow2", "unfollow1"},
         {"amiss", "lesson", "shelf", "look"}, {"rate0"}, {"shelfOwn", "temples"},
         {"chance", "apply", "enlist1", "enlist2"},
         {"ordain", "ordainAll", "lives"}, {"retell", "retell2", "rest"}, {"retell", "depart", "adore", "part"},
         {"band", "reband", "disband", "bands"}, {"band", "stay", "restay"},
         {"stay", "unstay", "theStay", "stays"}, {"life", "allStays"},
         {"hall", "rent", "hallGone"}, {"hall", "hallOff", "hallList"},
         {"help", "helped", "helped2", "queue"}, {"helpRoot", "correct", "corrected"}, {"wrong1", "verified"},
         {"bulletin", "reword", "retract"}, {"quietly", "follow1"}, {"letter", "burn", "post"},
         {"almanac", "almanac2", "choose"}, {"almanac", "chooseBad", "daily"},
         {"banner", "rebanner", "unbanner", "banners"}, {"ad", "shorten", "postpone"}, {"ad", "click"} } }
    \union
    {[World(calls) EXCEPT !.halls = "hall" :> [org |-> "o", active |-> TRUE]] : calls \in
       { {"rent", "rent2", "hallGone", "confirm"}, {"rentRoot", "confirm1", "mine", "hiresOf"},
         {"hallOff", "rent", "hallList"} } }
    \union
    {[World(calls) EXCEPT !.staff = Clerk, !.shifts = {}] : calls \in
       { {"regrant1", "regrant2"}, {"in", "in2", "out"}, {"in", "byHand"}, {"away", "decide"},
         {"paper1", "paper2"} } }
    \union
    {[World(calls) EXCEPT !.gear = Gear] : calls \in
       { {"newGear", "assign", "gearList"}, {"card", "sweep1", "sweep2"}, {"blip", "lost", "sweep1", "map"} } }
=============================================================================
