-------------------------------- MODULE Office --------------------------------
(***************************************************************************)
(* The counters of the organization beside the big ones: event halls,      *)
(* tickets for help and corrections, announcements, messages between       *)
(* organizations, the tithi calendar, and what the super admin keeps for   *)
(* the app (banners, home sections, plans, advertisements): the modules    *)
(* eventHalls, ticketsSupport, calendar, incorrectReports, feedback,       *)
(* announcements, communication, banners, homeSections, subscriptionPlans, *)
(* ads. A row is named by the call that makes it.                          *)
(***************************************************************************)
EXTENDS Sites

CONSTANTS Calendars,   \* the types of tithi calendar
          Today        \* the day the daily job comes

VARIABLES halls,      \* event hall -> org, active
          hires,      \* booking of a hall -> hall, by, status
          cases,      \* tickets, corrections, reports, feedback -> kind, by, status
          bulletins,  \* announcement -> org, text, gone
          letters,    \* message -> from, to (None: to all)
          tithis,     \* <<calendar, day>> -> the call that wrote the entry
          chosen,     \* account or organization -> its calendar
          shelf,      \* banner, home section, plan -> text, gone
          ads,        \* advertisement -> from, till (days), rate, flat, cost, clicks
          heard       \* notifications queued: <<account, call>>

hallVars == <<halls, hires>>
bulletinVars == <<bulletins, letters>>
tithiVars == <<tithis, chosen>>
shelfVars == <<shelf, ads>>
officeVars == <<hallVars, cases, bulletinVars, tithiVars, shelfVars, heard>>
base == <<society, siteVars>>

OfficeInit(w) == /\ halls = w.halls /\ hires = <<>> /\ cases = <<>> /\ bulletins = <<>>
                 /\ letters = <<>> /\ tithis = <<>> /\ chosen = w.chosen
                 /\ shelf = <<>> /\ ads = <<>> /\ heard = {}

\* Who has chosen a calendar at the start has chosen one there is.
ASSUME OfficeAssumption ==
    \A w \in Scenarios : \A x \in DOMAIN w.chosen : w.chosen[x] \in Calendars

Stands(f, x) == IF x \in DOMAIN f THEN ~f[x].gone ELSE FALSE
ByRoot(c, next) == Move(c, "start", IF HasRole(c, {}) THEN next ELSE "refused")

\* What a list shows; it writes nothing.
Show(c, set) == /\ Keep(c, [seen |-> IF pc'[c] = "done" THEN set ELSE {}])
                /\ UNCHANGED <<base, officeVars>>

\* One account after the other is told, in any order.
Tell(c, after) ==
    /\ pc[c] = "tell"
    /\ IF saw[c].todo = {} THEN Goto(c, after) /\ Forget /\ UNCHANGED heard
       ELSE \E u \in saw[c].todo :
                /\ Goto(c, "tell") /\ Keep(c, [saw[c] EXCEPT !.todo = @ \ {u}])
                /\ heard' = heard \union {<<u, c>>}
    /\ UNCHANGED <<base, hallVars, cases, bulletinVars, tithiVars, shelfVars>>

-----------------------------------------------------------------------------
(* Event halls: any signed-in account makes, edits and deletes them. A hall  *)
(* that is booked is not deleted; one that is not active is booked as well,  *)
(* and no booking looks for another of its day.                              *)

H(c) == sent[c].hall

HallEnters(c) ==
    /\ Authenticate(c, IF Op(c) = "hall" THEN (IF IsSite(c) THEN "done" ELSE "failed")
                       ELSE IF H(c) \in DOMAIN halls THEN "write" ELSE "refused")
    /\ halls' = IF pc'[c] = "done" THEN Put(halls, c, [org |-> Org(c), active |-> TRUE]) ELSE halls
    /\ Forget /\ UNCHANGED <<base, hires, cases, bulletinVars, tithiVars, shelfVars, heard>>

HallWrite(c) ==
    LET booked == \E b \in DOMAIN hires : hires[b].hall = H(c)
        fails == H(c) \notin DOMAIN halls \/ (Op(c) = "hallDelete" /\ booked) IN
    /\ Move(c, "write", IF fails THEN "failed" ELSE "done")
    /\ halls' = IF fails THEN halls
                ELSE IF Op(c) = "hallEdit" THEN [halls EXCEPT ![H(c)].active = sent[c].on]
                ELSE [h \in DOMAIN halls \ {H(c)} |-> halls[h]]
    /\ Forget /\ UNCHANGED <<base, hires, cases, bulletinVars, tithiVars, shelfVars, heard>>

HallBook(c) ==
    /\ \/ Authenticate(c, IF H(c) \in DOMAIN halls THEN "member" ELSE "refused") /\ UNCHANGED hires
       \/ Move(c, "member", IF IsMember(By(c)) THEN "book" ELSE "refused") /\ UNCHANGED hires
       \/ /\ Move(c, "book", IF H(c) \in DOMAIN halls THEN "done" ELSE "failed")
          /\ hires' = IF H(c) \notin DOMAIN halls THEN hires
                      ELSE Put(hires, c, [hall |-> H(c), by |-> By(c), status |-> "SUBMITTED"])
    /\ Forget /\ UNCHANGED <<base, halls, cases, bulletinVars, tithiVars, shelfVars, heard>>

\* Who has an organization may write any booking, also another organization's.
HallStatus(c) ==
    LET b == sent[c].hire IN
    /\ Authenticate(c, IF ~Super(c) /\ Mine(c) = {} THEN "refused"
                       ELSE IF b \in DOMAIN hires THEN "done" ELSE "failed")
    /\ hires' = IF pc'[c] = "done" THEN [hires EXCEPT ![b].status = sent[c].status] ELSE hires
    /\ Forget /\ UNCHANGED <<base, halls, cases, bulletinVars, tithiVars, shelfVars, heard>>

HallList(c) ==
    /\ IF Op(c) = "halls" THEN Move(c, "start", "done")
       ELSE Authenticate(c, IF Op(c) = "hallHires" /\ ~InTenant(c, Org(c)) THEN "refused" ELSE "done")
    /\ Show(c, CASE Op(c) = "halls"     -> {h \in DOMAIN halls : halls[h].org = Org(c) /\ halls[h].active}
                 [] Op(c) = "myHires"   -> {b \in DOMAIN hires : hires[b].by = By(c)}
                 [] Op(c) = "hallHires" -> {b \in DOMAIN hires : halls[hires[b].hall].org = Org(c)})

-----------------------------------------------------------------------------
(* Cases: a ticket for help (its number first; a super admin raises none),   *)
(* a correction of the calendar, a report of wrong information, feedback.    *)
(* Whoever decides may set any status, from any other.                       *)

Kind(c) == sent[c].kind

CaseEnters(c) ==
    /\ CASE Kind(c) = "support"    -> Authenticate(c, IF Super(c) THEN "refused" ELSE "number")
         [] Kind(c) = "correction" -> Permit(c, None, "CALENDAR", "VIEW", "create")
         [] OTHER                  -> Authenticate(c, "create")
    /\ Forget /\ UNCHANGED <<base, officeVars>>

CaseNumber(c) == Move(c, "number", "create") /\ Forget /\ UNCHANGED <<base, officeVars>>

CaseCreate(c) ==
    /\ Move(c, "create", "done")
    /\ cases' = Put(cases, c, [kind |-> Kind(c), by |-> By(c),
                          status |-> IF Kind(c) \in {"report", "feedback"} THEN "PENDING" ELSE "OPEN"])
    /\ Forget /\ UNCHANGED <<base, hallVars, bulletinVars, tithiVars, shelfVars, heard>>

DecideEnters(c) ==
    LET next == IF sent[c].case \in DOMAIN cases THEN "write" ELSE "refused" IN
    /\ CASE Kind(c) = "support"    -> ByRoot(c, next)
         [] Kind(c) = "correction" -> ByRoot(c, "write")
         [] OTHER                  -> Permit(c, None, "SETTINGS", "EDIT", next)
    /\ Forget /\ UNCHANGED <<base, officeVars>>

\* The one who raised a ticket is told; the others hear nothing.
DecideWrite(c) ==
    LET k == sent[c].case IN
    /\ Move(c, "write", IF k \notin DOMAIN cases THEN "failed"
                        ELSE IF Kind(c) = "support" THEN "tell" ELSE "done")
    /\ cases' = IF k \in DOMAIN cases THEN [cases EXCEPT ![k].status = sent[c].status] ELSE cases
    /\ Keep(c, [todo |-> IF k \in DOMAIN cases THEN {cases[k].by} ELSE {}])
    /\ UNCHANGED <<base, hallVars, bulletinVars, tithiVars, shelfVars, heard>>

CaseList(c) ==
    /\ Authenticate(c, "done")
    /\ Show(c, {k \in DOMAIN cases : cases[k].kind = "support" /\ (Super(c) \/ cases[k].by = By(c))})

-----------------------------------------------------------------------------
(* Announcements: the row, its card (which fails the request, not the row),  *)
(* then everybody who may see it is told                                     *)

BulletinCreate(c) ==
    /\ SitePermit(c, "ANNOUNCEMENTS", "CREATE", IF IsSite(c) \/ Org(c) = None THEN "card" ELSE "failed")
    /\ bulletins' = IF pc'[c] = "card" THEN Put(bulletins, c, [org |-> Org(c), text |-> c, gone |-> FALSE])
                    ELSE bulletins
    /\ Forget /\ UNCHANGED <<base, hallVars, cases, letters, tithiVars, shelfVars, heard>>

BulletinCard(c) ==
    /\ \/ Move(c, "card", "audience") /\ desk' = desk \union {<<"card", c>>}
       \/ Move(c, "card", "failed") /\ UNCHANGED desk
    /\ Forget
    /\ UNCHANGED <<society, sites, parts, buildings, wings, rooms, reviews, follows, chances, offers, officeVars>>

Audience(c) ==
    /\ Move(c, "audience", "tell")
    /\ Keep(c, [todo |-> {u \in DOMAIN members : /\ sent[c].public => ~members[u].gone
                                                 /\ sent[c].public \/ <<Org(c), u>> \in follows}])
    /\ UNCHANGED <<base, officeVars>>

BulletinEdit(c) ==
    LET b == sent[c].bulletin
        next == IF Stands(bulletins, b) THEN "write" ELSE "refused" IN
    /\ \/ /\ Permit(c, None, "ANNOUNCEMENTS", IF Op(c) = "unannounce" THEN "DELETE" ELSE "EDIT", next)
          /\ UNCHANGED bulletins
       \/ /\ Move(c, "write", "done")
          /\ bulletins' = IF Op(c) = "unannounce" THEN [bulletins EXCEPT ![b].gone = TRUE]
                          ELSE [bulletins EXCEPT ![b].text = c]
    /\ Forget /\ UNCHANGED <<base, hallVars, cases, letters, tithiVars, shelfVars, heard>>

-----------------------------------------------------------------------------
(* Messages between organizations; only a super admin deletes one            *)

LetterSend(c) ==
    LET to == sent[c].to IN
    /\ SitePermit(c, "COMMUNICATION", "CREATE", IF to \in DOMAIN sites \union {None} THEN "done" ELSE "failed")
    /\ letters' = IF pc'[c] = "done" THEN Put(letters, c, [from |-> Org(c), to |-> to]) ELSE letters
    /\ Forget /\ UNCHANGED <<base, hallVars, cases, bulletins, tithiVars, shelfVars, heard>>

LetterDelete(c) ==
    LET l == sent[c].letter IN
    /\ ByRoot(c, IF l \in DOMAIN letters THEN "done" ELSE "failed")
    /\ letters' = IF pc'[c] = "done" THEN [x \in DOMAIN letters \ {l} |-> letters[x]] ELSE letters
    /\ Forget /\ UNCHANGED <<base, hallVars, cases, bulletins, tithiVars, shelfVars, heard>>

LetterList(c) ==
    /\ SitePermit(c, "COMMUNICATION", "VIEW", "done")
    /\ Show(c, {l \in DOMAIN letters : letters[l].from = Org(c) \/ letters[l].to \in {Org(c), None}})

-----------------------------------------------------------------------------
(* The tithi calendar: entries written day by day (upserted), the calendar   *)
(* of a member, and the morning's notification, calendar by calendar         *)

TithiEnters(c) ==
    /\ ByRoot(c, IF sent[c].calendar \in Calendars THEN "entry" ELSE "refused")
    /\ Keep(c, [todo |-> sent[c].days])
    /\ UNCHANGED <<base, officeVars>>

TithiEntry(c) ==
    /\ pc[c] = "entry"
    /\ IF saw[c].todo = {} THEN Goto(c, "done") /\ Forget /\ UNCHANGED tithis
       ELSE \E d \in saw[c].todo :
                /\ Goto(c, "entry") /\ Keep(c, [todo |-> saw[c].todo \ {d}])
                /\ tithis' = Put(tithis, <<sent[c].calendar, d>>, c)
    /\ UNCHANGED <<base, hallVars, cases, bulletinVars, chosen, shelfVars, heard>>

Choose(c) ==
    LET known == sent[c].calendar \in Calendars IN
    /\ \/ Authenticate(c, IF IsMember(By(c)) THEN "write" ELSE "refused") /\ UNCHANGED chosen
       \/ /\ Move(c, "write", IF known THEN "done" ELSE "failed")
          /\ chosen' = IF known THEN Put(chosen, By(c), sent[c].calendar) ELSE chosen
    /\ Forget /\ UNCHANGED <<base, hallVars, cases, bulletinVars, tithis, shelfVars, heard>>

Follows(x, t) == IF x \in DOMAIN chosen THEN chosen[x] = t ELSE FALSE
Devout(t) == {u \in DOMAIN members : members[u].status = "ACTIVE" /\ ~members[u].gone /\ Follows(u, t)}
             \union {m[1] : m \in {x \in tenants : Follows(x[2], t)}}

DailyRead(c) ==
    /\ \/ Move(c, "start", "types") /\ Keep(c, [types |-> Calendars, todo |-> {}])
       \/ /\ pc[c] = "types" /\ saw[c].types = {}
          /\ Goto(c, "done") /\ Forget
       \/ /\ pc[c] = "types"
          /\ \E t \in saw[c].types :
                 /\ Goto(c, IF <<t, Today>> \in DOMAIN tithis THEN "tell" ELSE "types")
                 /\ Keep(c, [types |-> saw[c].types \ {t}, todo |-> Devout(t)])
    /\ UNCHANGED <<base, officeVars>>

-----------------------------------------------------------------------------
(* The super admin's lists: banners (refused when the picture was measured   *)
(* and does not fit), home sections, plans. The row is looked for, then      *)
(* written: an edit may come after the deletion, and stays deleted.          *)

ShelfPut(c) ==
    /\ ByRoot(c, IF Op(c) = "put" THEN (IF sent[c].fits THEN "done" ELSE "refused")
                 ELSE IF ~Stands(shelf, sent[c].item) \/ (Op(c) = "shelfEdit" /\ ~sent[c].fits)
                 THEN "refused" ELSE "write")
    /\ shelf' = IF pc'[c] = "done" THEN Put(shelf, c, [text |-> c, gone |-> FALSE]) ELSE shelf
    /\ Forget /\ UNCHANGED <<base, hallVars, cases, bulletinVars, tithiVars, ads, heard>>

ShelfWrite(c) ==
    /\ Move(c, "write", "done")
    /\ shelf' = IF Op(c) = "shelfDelete" THEN [shelf EXCEPT ![sent[c].item].gone = TRUE]
                ELSE [shelf EXCEPT ![sent[c].item].text = c]
    /\ Forget /\ UNCHANGED <<base, hallVars, cases, bulletinVars, tithiVars, ads, heard>>

ShelfList(c) ==
    /\ Authenticate(c, "done")
    /\ Show(c, {s \in DOMAIN shelf : ~shelf[s].gone})

\* Advertisements: one of a flat price costs its rate for each day. An edit
\* writes what it gives; the days are compared, and the cost computed, with what
\* it has read.
Runs(ad) == ad.till > ad.from
Cost(ad) == IF ad.flat THEN ad.rate * (ad.till - ad.from) ELSE ad.cost

AdCreate(c) ==
    LET ad == sent[c].ad IN
    /\ ByRoot(c, IF Runs(ad) THEN "done" ELSE "refused")
    /\ ads' = IF pc'[c] = "done" THEN Put(ads, c, Updated([clicks |-> 0], [ad EXCEPT !.cost = Cost(ad)])) ELSE ads
    /\ Forget /\ UNCHANGED <<base, hallVars, cases, bulletinVars, tithiVars, shelf, heard>>

AdRead(c) ==
    LET a == sent[c].item  there == a \in DOMAIN ads
        merged == IF there THEN Updated(ads[a], sent[c].edit) ELSE <<>> IN
    /\ ByRoot(c, IF ~there THEN "refused" ELSE IF Runs(merged) THEN "write" ELSE "refused")
    /\ Keep(c, [cost |-> IF there THEN Cost(merged) ELSE 0])
    /\ UNCHANGED <<base, officeVars>>

AdWrite(c) ==
    LET a == sent[c].item IN
    /\ Move(c, "write", "done")
    /\ ads' = [ads EXCEPT ![a] = [Updated(@, sent[c].edit) EXCEPT !.cost = saw[c].cost]]
    /\ Forget /\ UNCHANGED <<base, hallVars, cases, bulletinVars, tithiVars, shelf, heard>>

AdClick(c) ==
    LET a == sent[c].item IN
    /\ Authenticate(c, IF a \in DOMAIN ads THEN "done" ELSE "failed")
    /\ ads' = IF pc'[c] = "done" THEN [ads EXCEPT ![a].clicks = @ + 1] ELSE ads
    /\ Forget /\ UNCHANGED <<base, hallVars, cases, bulletinVars, tithiVars, shelf, heard>>

OfficeStep(c) ==
    \/ Op(c) \in {"hall", "hallEdit", "hallDelete"} /\ (HallEnters(c) \/ HallWrite(c))
    \/ Op(c) = "hallBook" /\ HallBook(c)
    \/ Op(c) = "hallStatus" /\ HallStatus(c)
    \/ Op(c) \in {"halls", "myHires", "hallHires"} /\ HallList(c)
    \/ Op(c) = "case" /\ (CaseEnters(c) \/ CaseNumber(c) \/ CaseCreate(c))
    \/ Op(c) = "decideCase" /\ (DecideEnters(c) \/ DecideWrite(c) \/ Tell(c, "done"))
    \/ Op(c) = "cases" /\ CaseList(c)
    \/ Op(c) = "announce" /\ (BulletinCreate(c) \/ BulletinCard(c) \/ Audience(c) \/ Tell(c, "done"))
    \/ Op(c) \in {"reannounce", "unannounce"} /\ BulletinEdit(c)
    \/ Op(c) = "letter" /\ LetterSend(c)
    \/ Op(c) = "letterDelete" /\ LetterDelete(c)
    \/ Op(c) = "letters" /\ LetterList(c)
    \/ Op(c) = "tithi" /\ (TithiEnters(c) \/ TithiEntry(c))
    \/ Op(c) = "calendar" /\ Choose(c)
    \/ Op(c) = "daily" /\ (DailyRead(c) \/ Tell(c, "types"))
    \/ Op(c) \in {"put", "shelfEdit", "shelfDelete"} /\ (ShelfPut(c) \/ ShelfWrite(c))
    \/ Op(c) = "shelf" /\ ShelfList(c)
    \/ Op(c) = "ad" /\ AdCreate(c)
    \/ Op(c) = "adEdit" /\ (AdRead(c) \/ AdWrite(c))
    \/ Op(c) = "click" /\ AdClick(c)

OfficeTypeOK ==
    /\ \A b \in DOMAIN hires : hires[b].hall \in DOMAIN halls /\ IsMember(hires[b].by)
    /\ \A l \in DOMAIN letters : letters[l].to \in DOMAIN sites \union {None}
    /\ \A t \in DOMAIN tithis : t[1] \in Calendars
    /\ \A x \in DOMAIN chosen : chosen[x] \in Calendars
    /\ \A h \in heard : h[1] \in DOMAIN users
=============================================================================
