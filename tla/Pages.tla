-------------------------------- MODULE Pages --------------------------------
(***************************************************************************)
(* Community pages, src/src/modules/communityPages: pages the platform     *)
(* creates for owners, who manage them while their subscription lasts;     *)
(* members who join, leave and are decided upon; posts; and the daily      *)
(* sweep over the subscriptions.                                           *)
(***************************************************************************)
EXTENDS Requests, Days

CONSTANT SOON           \* days before the expiry a page is "expiring soon"

SubscriptionStatus == {"ACTIVE", "EXPIRING_SOON", "EXPIRED", "SUSPENDED"}
PageMemberStatus == {"PENDING", "APPROVED", "REJECTED"}

\* The pages there are at first, their members, and the bodies the routes let
\* through have statuses of the two enumerations.
ASSUME PagesAssumption ==
    /\ \A w \in Scenarios :
           /\ \A p \in DOMAIN w.pages :
                  "status" \in DOMAIN w.pages[p] /\ w.pages[p].status \in SubscriptionStatus
           /\ \A k \in DOMAIN w.membership :
                  k[1] \in DOMAIN w.pages /\ w.membership[k] \in PageMemberStatus
    /\ \A c \in Calls : LET i == Input[c] IN
           /\ i.op = "adminPage" /\ "status" \in DOMAIN i.body => i.body.status \in SubscriptionStatus
           /\ i.op = "decide" => i.word \in PageMemberStatus

VARIABLES pages,        \* pages: owners, status, expires, auto (join mode), gone
          membership,   \* (page, member) -> status
          roles,        \* primaryRoleKey of users
          pageTold,     \* notifications: what, about which page, to whom
          sweepAt       \* the statement the daily sweep is at

pageVars == <<pages, membership, roles, pageTold, sweepAt>>

PagesInit(w) ==
    /\ pages = w.pages
    /\ membership = w.membership
    /\ roles = w.roles
    /\ pageTold = {} /\ sweepAt = "idle"

ThePage(c) == sent[c].page
PageThere(c) == ThePage(c) \in DOMAIN pages /\ ~pages[ThePage(c)].gone
Elevated(users) == [u \in DOMAIN roles |->
    IF u \in users /\ roles[u] \in {"MEMBER", "NON_JAIN_MEMBER"} THEN "PAGE_OWNER" ELSE roles[u]]
Tell(what, p, who) == pageTold' = pageTold \union {<<what, p, u>> : u \in who}

-----------------------------------------------------------------------------
(* The platform: createPage; superAdminUpdatePage and updateSubscription,   *)
(* which write what the body has; the route that deletes                    *)

CreatePage(c) ==
    /\ Move(c, "start", "done")
    /\ pages' = Put(pages, c, [owners |-> sent[c].owners, status |-> "ACTIVE",
                               expires |-> sent[c].expires, auto |-> FALSE, gone |-> FALSE])
    /\ roles' = Elevated(sent[c].owners)
    /\ Forget /\ UNCHANGED <<membership, pageTold, sweepAt>>

AdminUpdatePage(c) ==
    LET p == ThePage(c)  body == sent[c].body IN
    /\ Move(c, "start", IF p \in DOMAIN pages THEN "done" ELSE "failed")
    /\ pages' = IF p \in DOMAIN pages THEN Put(pages, p, Updated(pages[p], body)) ELSE pages
    /\ roles' = IF p \in DOMAIN pages /\ "owners" \in DOMAIN body
                THEN Elevated(body.owners) ELSE roles
    /\ Forget /\ UNCHANGED <<membership, pageTold, sweepAt>>

-----------------------------------------------------------------------------
(* Owners: assertOwnerCanManage, then the work                              *)

CanManage(c) ==
    \/ sent[c].super
    \/ /\ sent[c].by \in pages[ThePage(c)].owners
       /\ pages[ThePage(c)].status \notin {"EXPIRED", "SUSPENDED"}

AssertOwnerCanManage(c) ==
    /\ Move(c, "start", IF PageThere(c) /\ CanManage(c) THEN "manage" ELSE "refused")
    /\ Forget /\ UNCHANGED pageVars

Approved(p) == {m \in {k[2] : k \in DOMAIN membership} :
                    <<p, m>> \in DOMAIN membership /\ membership[<<p, m>>] = "APPROVED"}
Without(key) == [k \in DOMAIN membership \ {key} |-> membership[k]]

\* decideMembership needs a row; removeMember deletes what there is.
Manage(c) ==
    LET p == ThePage(c)  key == <<p, sent[c].m>> IN
    /\ pc[c] = "manage"
    /\ \/ /\ Op(c) = "updatePage" /\ Goto(c, "done")
          /\ UNCHANGED <<membership, pageTold>>
       \/ /\ Op(c) = "decide" /\ key \in DOMAIN membership /\ Goto(c, "tell")
          /\ membership' = [membership EXCEPT ![key] = sent[c].word]
          /\ UNCHANGED pageTold
       \/ /\ Op(c) = "decide" /\ key \notin DOMAIN membership /\ Goto(c, "failed")
          /\ UNCHANGED <<membership, pageTold>>
       \/ /\ Op(c) = "remove" /\ Goto(c, "done")
          /\ membership' = Without(key)
          /\ UNCHANGED pageTold
       \/ /\ Op(c) = "pagePost" /\ Goto(c, "tell")
          /\ Tell("posted", p, {sent[c].by})
          /\ UNCHANGED membership
    /\ Forget /\ UNCHANGED <<pages, roles, sweepAt>>

TellMembers(c) ==
    /\ Move(c, "tell", "done")
    /\ Tell(Op(c), ThePage(c), IF Op(c) = "pagePost" THEN Approved(ThePage(c)) ELSE {sent[c].m})
    /\ Forget /\ UNCHANGED <<pages, membership, roles, sweepAt>>

-----------------------------------------------------------------------------
(* Members: joinPage (an upsert: whoever joins again starts again), leavePage *)

JoinRead(c) ==
    /\ Move(c, "start", IF PageThere(c) THEN Op(c) ELSE "refused")
    /\ Keep(c, [status |-> IF PageThere(c) /\ pages[ThePage(c)].auto THEN "APPROVED" ELSE "PENDING",
                owners |-> IF PageThere(c) THEN pages[ThePage(c)].owners ELSE {}])
    /\ UNCHANGED pageVars

JoinWrite(c) ==
    /\ Move(c, "join", IF saw[c].status = "PENDING" THEN "tellOwners" ELSE "done")
    /\ membership' = Put(membership, <<ThePage(c), sent[c].m>>, saw[c].status)
    /\ Forget /\ UNCHANGED <<pages, roles, pageTold, sweepAt>>

JoinTell(c) ==
    /\ Move(c, "tellOwners", "done")
    /\ Tell("join", ThePage(c), saw[c].owners)
    /\ Forget /\ UNCHANGED <<pages, membership, roles, sweepAt>>

LeaveWrite(c) ==
    /\ Move(c, "leave", "done")
    /\ membership' = Without(<<ThePage(c), sent[c].m>>)
    /\ Forget /\ UNCHANGED <<pages, roles, pageTold, sweepAt>>

PageStep(c) ==
    \/ Op(c) = "createPage" /\ CreatePage(c)
    \/ Op(c) = "adminPage" /\ AdminUpdatePage(c)
    \/ /\ Op(c) \in {"updatePage", "decide", "remove", "pagePost"}
       /\ AssertOwnerCanManage(c) \/ Manage(c) \/ TellMembers(c)
    \/ Op(c) = "join" /\ (JoinRead(c) \/ JoinWrite(c) \/ JoinTell(c))
    \/ Op(c) = "leave" /\ (JoinRead(c) \/ LeaveWrite(c))

-----------------------------------------------------------------------------
(* recomputeSubscriptionStatuses, of the daily job: three statements. A run *)
(* that finds nothing to do changes nothing and is not shown.               *)

Past(p) == pages[p].expires < today
ExpiresSoon(p) == pages[p].expires \in today .. today + SOON

\* Mutation: only pages that were announced expire.
ExpireAnnounced == {p \in DOMAIN pages : Past(p) /\ pages[p].status = "EXPIRING_SOON"}

ToExpire == {p \in DOMAIN pages : Past(p) /\ pages[p].status \in {"ACTIVE", "EXPIRING_SOON"}}
ToAnnounce == {p \in DOMAIN pages : ExpiresSoon(p) /\ pages[p].status = "ACTIVE"}
Reminders == UNION {{<<"expiry", p, u>> : u \in pages[p].owners} :
                 p \in {x \in DOMAIN pages : pages[x].status = "EXPIRING_SOON" /\ ~pages[x].gone}}

Mark(which, word) == [p \in DOMAIN pages |->
    IF p \in which THEN [pages[p] EXCEPT !.status = word] ELSE pages[p]]

SweepExpired ==
    /\ sweepAt = "idle" /\ sweepAt' = "soon"
    /\ ToExpire \union ToAnnounce # {} \/ ~(Reminders \subseteq pageTold)
    /\ pages' = Mark(ToExpire, "EXPIRED")
    /\ UNCHANGED <<membership, roles, pageTold>>

SweepSoon ==
    /\ sweepAt = "soon" /\ sweepAt' = "remind"
    /\ pages' = Mark(ToAnnounce, "EXPIRING_SOON")
    /\ UNCHANGED <<membership, roles, pageTold>>

SweepRemind ==
    /\ sweepAt = "remind" /\ sweepAt' = "idle"
    /\ pageTold' = pageTold \union Reminders
    /\ UNCHANGED <<pages, membership, roles>>

PageSweep == SweepExpired \/ SweepSoon \/ SweepRemind

-----------------------------------------------------------------------------
(* Properties *)

PageTypeOK ==
    /\ \A p \in DOMAIN pages : pages[p].status \in SubscriptionStatus
    /\ \A k \in DOMAIN membership :
           k[1] \in DOMAIN pages /\ membership[k] \in PageMemberStatus

\* communityPages.service.ts:9-10, 284-296: a page whose subscription is over is
\* locked to its owners, whichever way it is renewed, shortened or announced
\* while the sweep is under way.
PastPageIsLocked ==
    []<>(\A p \in DOMAIN pages : Past(p) => pages[p].status \in {"EXPIRED", "SUSPENDED"})
=============================================================================
