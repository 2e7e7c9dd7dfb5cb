-------------------------------- MODULE Sites --------------------------------
(***************************************************************************)
(* Organizations (temples, Jain centres, dharamshalas, ...) and what hangs *)
(* on them: src/src/modules/temples, jainCenters, sthanaks, pathshalas and *)
(* pathshala, dharamshalas, volunteers. All share one service; the module  *)
(* a route asks for is SiteModule. An organization, a part and a room are  *)
(* named by the call that makes them.                                      *)
(***************************************************************************)
EXTENDS Members, SequencesExt

CONSTANTS SiteModule,   \* TEMPLES, JAIN_CENTERS, DHARAMSHALAS, ...
          Limit         \* kind of part -> how many an organization may have

VARIABLES sites,       \* org -> type, has and published (of DHARAMSHALA, ..), followers, avg
          parts,       \* rows: org, kind, row
          buildings,   \* building -> org, gone
          wings,       \* wing -> building, gone
          rooms,       \* room -> wing, gone, status
          reviews,     \* <<org, member>> -> rating, published, hidden
          follows,     \* <<org, member>>
          chances,     \* volunteer opportunities -> org
          offers,      \* applications: <<opportunity, member>> -> status
          desk         \* what else is made: feed cards, tickets, badges, bookings

siteVars == <<sites, parts, buildings, wings, rooms, reviews, follows, chances, offers, desk>>
society == <<accountVars, adminVars, memberVars>>
restOfSites == <<sites, parts, reviews, follows, chances, offers, desk>>

SitesInit(w) == /\ sites = w.sites /\ parts = {} /\ buildings = w.buildings
                /\ wings = w.wings /\ rooms = w.rooms /\ reviews = <<>>
                /\ follows = {} /\ chances = <<>> /\ offers = <<>> /\ desk = {}

\* At the start each wing is of a building, and each room of a wing.
ASSUME SitesAssumption ==
    \A w \in Scenarios :
        /\ \A x \in DOMAIN w.wings : /\ DOMAIN w.wings[x] = {"building", "gone"}
                                     /\ w.wings[x].building \in DOMAIN w.buildings
        /\ \A r \in DOMAIN w.rooms : /\ DOMAIN w.rooms[r] = {"wing", "gone", "status"}
                                     /\ w.rooms[r].wing \in DOMAIN w.wings

Org(c) == sent[c].org
IsSite(c) == Org(c) \in DOMAIN sites
Publishable == {"DHARAMSHALA", "BHOJANSHALA", "PATHSHALA"}

\* requirePermission, then scopeToOrganization.
SitePermit(c, m, a, next) ==
    IF InTenant(c, Org(c)) THEN Permit(c, Org(c), m, a, next) ELSE Move(c, "start", "refused")

-----------------------------------------------------------------------------
(* createOrganization: a super admin; the row, its buildings, the feed card  *)
(* (a card that fails is logged). updateOrganization, updateModules,         *)
(* uploadLogo: the row, then its buildings.                                  *)

SiteEnters(c) ==
    /\ IF Op(c) = "site" THEN Move(c, "start", IF HasRole(c, {}) THEN "write" ELSE "refused")
       ELSE SitePermit(c, IF Op(c) = "siteModules" THEN "SETTINGS.SE_MODULE_CONTROLLER" ELSE SiteModule,
                       "EDIT", IF IsSite(c) THEN "write" ELSE "refused")
    /\ Forget /\ UNCHANGED <<society, siteVars>>

SiteWrite(c) ==
    /\ Move(c, "write", IF sent[c].form # None THEN "sync" ELSE IF Op(c) = "site" THEN "card" ELSE "done")
    /\ sites' = IF Op(c) = "site"
                THEN Put(sites, c, [type |-> sent[c].type, has |-> sent[c].publish, published |-> sent[c].publish,
                                    followers |-> 0, avg |-> {}])
                ELSE [sites EXCEPT ![Org(c)].published = sent[c].publish]
    /\ Forget
    /\ UNCHANGED <<society, parts, buildings, wings, rooms, reviews, follows, chances, offers, desk>>

SiteCard(c) ==
    /\ \E posted \in BOOLEAN :
           /\ Move(c, "card", "done")
           /\ desk' = IF posted THEN desk \union {<<"card", c>>} ELSE desk
    /\ Forget
    /\ UNCHANGED <<society, sites, parts, buildings, wings, rooms, reviews, follows, chances, offers>>

-----------------------------------------------------------------------------
(* syncOrgBuildings: buildings that the form does not name go, with their    *)
(* wings and rooms; then building by building, each room of its first wing   *)
(* that the form does not name goes, and each it names is AVAILABLE, whoever *)
(* stays in it. The statements of one building are one step here.            *)

Site(c) == IF Op(c) = "site" THEN c ELSE Org(c)
There(f) == {x \in DOMAIN f : ~f[x].gone}
WingsOf(b) == {w \in There(wings) : wings[w].building = b}
Drop(f, gone) == [x \in DOMAIN f |-> IF x \in gone THEN [f[x] EXCEPT !.gone = TRUE] ELSE f[x]]

SyncRead(c) ==
    LET old == {b \in There(buildings) : buildings[b].org = Site(c)} IN
    /\ Move(c, "sync", "syncDrop")
    /\ Keep(c, [drop |-> old \ DOMAIN sent[c].form, todo |-> DOMAIN sent[c].form])
    /\ UNCHANGED <<society, siteVars>>

SyncDrop(c) ==
    /\ IF pc[c] # "syncDrop" THEN FALSE
       ELSE IF saw[c].drop = {}
       THEN Goto(c, "syncBuild") /\ Forget /\ UNCHANGED <<buildings, wings, rooms>>
       ELSE \E b \in saw[c].drop :
           /\ Goto(c, "syncDrop") /\ Keep(c, [saw[c] EXCEPT !.drop = @ \ {b}])
           /\ buildings' = Drop(buildings, {b})
           /\ wings' = Drop(wings, WingsOf(b))
           /\ rooms' = Drop(rooms, {r \in DOMAIN rooms : rooms[r].wing \in WingsOf(b)})
    /\ UNCHANGED <<society, restOfSites>>

SyncBuild(c) ==
    /\ IF pc[c] # "syncBuild" THEN FALSE
       ELSE IF saw[c].todo = {}
       THEN Goto(c, IF Op(c) = "site" THEN "card" ELSE "done") /\ Forget /\ UNCHANGED <<buildings, wings, rooms>>
       ELSE \E b \in saw[c].todo :
           LET asked == sent[c].form[b] IN
           \E w \in IF WingsOf(b) = {} THEN {<<c, b>>} ELSE WingsOf(b) :
               /\ Goto(c, "syncBuild") /\ Keep(c, [saw[c] EXCEPT !.todo = @ \ {b}])
               /\ buildings' = PutNew(buildings, b, [org |-> Site(c), gone |-> FALSE])
               /\ wings' = PutNew(wings, w, [building |-> b, gone |-> FALSE])
               /\ rooms' = [r \in DOMAIN rooms \union asked |->
                      IF r \notin DOMAIN rooms THEN [wing |-> w, gone |-> FALSE, status |-> "AVAILABLE"]
                      ELSE IF r \in asked THEN [rooms[r] EXCEPT !.status = "AVAILABLE"]
                      ELSE IF rooms[r].wing = w THEN [rooms[r] EXCEPT !.gone = TRUE] ELSE rooms[r]]
    /\ UNCHANGED <<society, restOfSites>>

Sync(c) == SyncRead(c) \/ SyncDrop(c) \/ SyncBuild(c)

\* createBuilding, createWing, createRoom, updateRoom of the dharamshala service.
Structure(c) ==
    LET k == sent[c].in
        ok == CASE Op(c) = "building" -> IsSite(c) /\ (IsSite(c) => sites[Org(c)].type = "DHARAMSHALA")
                [] Op(c) = "wing"     -> k \in There(buildings)
                [] Op(c) = "room"     -> k \in There(wings)
                [] Op(c) = "roomEdit" -> k \in DOMAIN rooms IN
    /\ IF Op(c) = "building" THEN SitePermit(c, "DHARAMSHALAS", "EDIT", IF ok THEN "done" ELSE "refused")
       ELSE Permit(c, None, "DHARAMSHALAS", "EDIT", IF ok THEN "done" ELSE "refused")
    /\ LET on(op) == pc'[c] = "done" /\ Op(c) = op IN
       /\ buildings' = IF on("building") THEN Put(buildings, c, [org |-> Org(c), gone |-> FALSE]) ELSE buildings
       /\ wings' = IF on("wing") THEN Put(wings, <<c, k>>, [building |-> k, gone |-> FALSE]) ELSE wings
       /\ rooms' = IF on("room") THEN Put(rooms, c, [wing |-> k, gone |-> FALSE, status |-> "AVAILABLE"])
                   ELSE IF on("roomEdit") THEN [rooms EXCEPT ![k].status = sent[c].status] ELSE rooms
    /\ Forget /\ UNCHANGED <<society, restOfSites>>

-----------------------------------------------------------------------------
(* Gallery images, trustees, dhaja records (counted, then made: bulk uploads *)
(* are not counted), contacts, notices, announcements, volunteers. A notice  *)
(* and an announcement fail with their feed card, and stay.                  *)

Counted == {"gallery", "trustee", "dhaja"}
PartsOf(o, kind) == {p \in parts : p.org = o /\ p.kind = kind}

PartEnters(c) ==
    /\ SitePermit(c, SiteModule, "EDIT",
           IF Op(c) = "partDelete" THEN "delete"
           ELSE IF sent[c].kind \in Counted /\ sent[c].n = 1
                   /\ Cardinality(PartsOf(Org(c), sent[c].kind)) >= Limit[sent[c].kind]
           THEN "refused" ELSE "write")
    /\ Keep(c, [left |-> IF Op(c) = "part" THEN sent[c].n ELSE 0])
    /\ UNCHANGED <<society, siteVars>>

PartWrite(c) ==
    LET kind == sent[c].kind  last == saw[c].left = 1 IN
    /\ Move(c, "write", IF ~last THEN "write"
                        ELSE IF kind \in {"gallery", "notice", "announcement"} /\ sent[c].n = 1 THEN "card"
                        ELSE IF kind = "volunteer" THEN "badge" ELSE "done")
    /\ parts' = parts \union {[org |-> Org(c), kind |-> kind, row |-> <<c, saw[c].left>>]}
    /\ Keep(c, [left |-> saw[c].left - 1])
    /\ UNCHANGED <<society, sites, buildings, wings, rooms, reviews, follows, chances, offers, desk>>

PartCard(c) ==
    /\ \/ Move(c, "card", "done") /\ desk' = desk \union {<<"card", c>>}
       \/ Move(c, "card", IF sent[c].kind = "gallery" THEN "done" ELSE "failed") /\ UNCHANGED desk
    /\ Forget
    /\ UNCHANGED <<society, sites, parts, buildings, wings, rooms, reviews, follows, chances, offers>>

\* The member's flag and badge; the badge is upserted.
Badge(c, u) ==
    /\ Move(c, "badge", "done")
    /\ desk' = desk \union {<<"badge", u>>}
    /\ Forget
    /\ UNCHANGED <<society, sites, parts, buildings, wings, rooms, reviews, follows, chances, offers>>

PartDelete(c) ==
    LET mine == {p \in parts : p.row[1] = sent[c].part} IN
    /\ Move(c, "delete", IF mine = {} THEN "failed" ELSE "done")
    /\ parts' = parts \ mine
    /\ Forget
    /\ UNCHANGED <<society, sites, buildings, wings, rooms, reviews, follows, chances, offers, desk>>

-----------------------------------------------------------------------------
(* addReview, publishReview, hideReview; each then averages what is public,  *)
(* and writes the average                                                    *)

Public(o) == {<<k[2], reviews[k].rating>> :
                  k \in {x \in DOMAIN reviews : x[1] = o /\ reviews[x].published /\ ~reviews[x].hidden}}

\* The review of the member who writes it, or the one that is named.
ReviewOf(c) == <<Org(c), IF Op(c) = "review" THEN By(c) ELSE U(c)>>

ReviewEnters(c) ==
    LET next == IF ReviewOf(c) \in DOMAIN reviews THEN "write" ELSE "failed" IN
    /\ CASE Op(c) = "review"        -> Authenticate(c, IF IsMember(By(c)) THEN "write" ELSE "refused")
         [] Op(c) = "reviewPublish" -> Permit(c, None, SiteModule, "EDIT", next)
         [] Op(c) = "reviewHide"    -> Move(c, "start", IF HasRole(c, {}) THEN next ELSE "refused")
    /\ Forget /\ UNCHANGED <<society, siteVars>>

ReviewWrite(c) ==
    LET k == ReviewOf(c)  fails == Op(c) = "review" /\ ~IsSite(c) IN
    /\ Move(c, "write", IF fails THEN "failed" ELSE "average")
    /\ reviews' =
           IF fails THEN reviews
           ELSE IF Op(c) = "reviewPublish" THEN [reviews EXCEPT ![k].published = sent[c].on]
           ELSE IF Op(c) = "reviewHide" THEN [reviews EXCEPT ![k].hidden = TRUE]
           ELSE IF k \in DOMAIN reviews THEN [reviews EXCEPT ![k].rating = sent[c].rating]
           ELSE Put(reviews, k, [rating |-> sent[c].rating, published |-> FALSE, hidden |-> FALSE])
    /\ Forget
    /\ UNCHANGED <<society, sites, parts, buildings, wings, rooms, follows, chances, offers, desk>>

AverageRead(c) ==
    /\ Move(c, "average", "store")
    /\ Keep(c, [public |-> Public(Org(c))])
    /\ UNCHANGED <<society, siteVars>>

AverageWrite(c) ==
    /\ Move(c, "store", "done")
    /\ sites' = [sites EXCEPT ![Org(c)].avg = saw[c].public]
    /\ Forget
    /\ UNCHANGED <<society, parts, buildings, wings, rooms, reviews, follows, chances, offers, desk>>

-----------------------------------------------------------------------------
(* followOrganization, unfollowOrganization: the row, then the counter       *)

FollowRead(c) ==
    LET on == <<Org(c), By(c)>> \in follows IN
    /\ Authenticate(c, IF ~IsMember(By(c)) THEN "refused"
                       ELSE IF Op(c) = "follow" /\ on THEN "done" ELSE "write")
    /\ Forget /\ UNCHANGED <<society, siteVars>>

FollowWrite(c) ==
    LET k == <<Org(c), By(c)>>  on == k \in follows IN
    /\ Move(c, "write", IF Op(c) = "follow" THEN (IF on \/ ~IsSite(c) THEN "failed" ELSE "count")
                        ELSE IF on THEN "count" ELSE "done")
    /\ follows' = IF Op(c) = "unfollow" THEN follows \ {k}
                  ELSE IF IsSite(c) THEN follows \union {k} ELSE follows
    /\ Forget
    /\ UNCHANGED <<society, sites, parts, buildings, wings, rooms, reviews, chances, offers, desk>>

FollowCount(c) ==
    /\ Move(c, "count", "done")
    /\ sites' = [sites EXCEPT ![Org(c)].followers = IF Op(c) = "follow" THEN @ + 1 ELSE @ - 1]
    /\ Forget
    /\ UNCHANGED <<society, parts, buildings, wings, rooms, reviews, follows, chances, offers, desk>>

\* reportIncorrectInfo; createBooking of the pathshala, by a member.
Ask(c) ==
    /\ Authenticate(c, IF Op(c) = "report" \/ IsMember(By(c)) THEN "done" ELSE "refused")
    /\ desk' = IF pc'[c] = "done" THEN desk \union {<<Op(c), c>>} ELSE desk
    /\ Forget
    /\ UNCHANGED <<society, sites, parts, buildings, wings, rooms, reviews, follows, chances, offers>>

-----------------------------------------------------------------------------
(* volunteers: an opportunity, an application (upserted), the decision; an   *)
(* approval, also a second one, makes a volunteer and then the badge         *)

Chance(c) ==
    LET next == IF Op(c) = "chance" \/ sent[c].chance \in DOMAIN chances THEN "done" ELSE "failed" IN
    /\ IF Op(c) = "chance" THEN SitePermit(c, "VOLUNTEERS", "CREATE", next)
       ELSE Authenticate(c, IF IsMember(By(c)) THEN next ELSE "refused")
    /\ LET on(op) == pc'[c] = "done" /\ Op(c) = op IN
       /\ chances' = IF on("chance") THEN Put(chances, c, Org(c)) ELSE chances
       /\ offers' = IF on("apply") THEN PutNew(offers, <<sent[c].chance, By(c)>>, "PENDING") ELSE offers
    /\ Forget /\ UNCHANGED <<society, sites, parts, buildings, wings, rooms, reviews, follows, desk>>

DecideOffer(c) ==
    LET k == <<sent[c].chance, U(c)>>  next == IF sent[c].status = "APPROVED" THEN "enlist" ELSE "done" IN
    /\ Permit(c, None, "VOLUNTEERS", "APPROVE", IF k \in DOMAIN offers THEN next ELSE "failed")
    /\ offers' = IF pc'[c] = next THEN [offers EXCEPT ![k] = sent[c].status] ELSE offers
    /\ Forget /\ UNCHANGED <<society, sites, parts, buildings, wings, rooms, reviews, follows, chances, desk>>

Enlist(c) ==
    /\ Move(c, "enlist", "badge")
    /\ parts' = parts \union {[org |-> chances[sent[c].chance], kind |-> "volunteer", row |-> <<c, 1>>]}
    /\ Forget
    /\ UNCHANGED <<society, sites, buildings, wings, rooms, reviews, follows, chances, offers, desk>>

-----------------------------------------------------------------------------
(* listOrganizations, makeOrganizationController.get, bhojanalayDirectory,   *)
(* getStructure: who sees what is not published                              *)

Mine(c) == {o \in DOMAIN sites : <<By(c), o>> \in tenants}
Shown(c, type) ==
    IF type \notin Publishable THEN {o \in DOMAIN sites : sites[o].type = type}
    ELSE LET of == {o \in DOMAIN sites : sites[o].type = type \/ type \in sites[o].has}
             out == {o \in DOMAIN sites : type \in sites[o].published} IN
         IF Super(c) THEN of
         ELSE IF Mine(c) # {} THEN out \union (Mine(c) \intersect of) ELSE out \intersect of

SiteGet(c) ==
    LET s == sites[Org(c)]
        hidden == /\ ~Super(c) /\ Org(c) \notin Mine(c)
                  /\ s.type \in {"DHARAMSHALA", "BHOJANSHALA"} /\ s.type \notin s.published IN
    /\ Authenticate(c, IF Op(c) = "siteGet" /\ (~IsSite(c) \/ (IsSite(c) /\ hidden)) THEN "refused" ELSE "done")
    /\ Keep(c, [seen |-> IF ~Enters(c) THEN {}
                         ELSE IF Op(c) = "sites" THEN Shown(c, sent[c].type)
                         ELSE {r \in There(rooms) : /\ rooms[r].wing \in There(wings)
                                                    /\ wings[rooms[r].wing].building \in There(buildings)
                                                    /\ buildings[wings[rooms[r].wing].building].org = Org(c)}])
    /\ UNCHANGED <<society, siteVars>>

SiteStep(c) ==
    \/ Op(c) \in {"site", "siteEdit", "siteModules"} /\ (SiteEnters(c) \/ SiteWrite(c) \/ Sync(c) \/ SiteCard(c))
    \/ Op(c) \in {"building", "wing", "room", "roomEdit"} /\ Structure(c)
    \/ Op(c) \in {"part", "partDelete"} /\ (PartEnters(c) \/ PartWrite(c) \/ PartCard(c) \/ Badge(c, U(c)) \/ PartDelete(c))
    \/ Op(c) \in {"review", "reviewPublish", "reviewHide"} /\ (ReviewEnters(c) \/ ReviewWrite(c) \/ AverageRead(c) \/ AverageWrite(c))
    \/ Op(c) \in {"follow", "unfollow"} /\ (FollowRead(c) \/ FollowWrite(c) \/ FollowCount(c))
    \/ Op(c) \in {"report", "lesson"} /\ Ask(c)
    \/ Op(c) \in {"chance", "apply"} /\ Chance(c)
    \/ Op(c) = "decideOffer" /\ (DecideOffer(c) \/ Enlist(c) \/ Badge(c, U(c)))
    \/ Op(c) \in {"sites", "siteGet"} /\ SiteGet(c)

SiteTypeOK ==
    /\ \A w \in DOMAIN wings : wings[w].building \in DOMAIN buildings
    /\ \A r \in DOMAIN rooms : rooms[r].wing \in DOMAIN wings
    /\ \A k \in DOMAIN reviews : k[1] \in DOMAIN sites /\ IsMember(k[2])
    /\ \A k \in DOMAIN offers : k[1] \in DOMAIN chances /\ IsMember(k[2])
=============================================================================
