------------------------------ MODULE Members ------------------------------
(***************************************************************************)
(* Members and families, src/src/modules/members and family. A profile is  *)
(* named by its account (userId is unique), a public id by the call that   *)
(* drew it and whom for; the id sequence itself is module IdSequence.      *)
(***************************************************************************)
EXTENDS Accounts

VARIABLES members,   \* profiles: id, category, status, auto-created, seeded, ...
          links,     \* family links: <<primary, related>>, unique
          invited    \* relatives and new members who were told

memberVars == <<members, links, invited>>

MembersInit(w) == members = w.members /\ links = w.links /\ invited = {}

Profile(pid, kind, status, auto) ==
    [pid |-> pid, category |-> kind, status |-> status, auto |-> auto, seeded |-> FALSE,
     aadhaar |-> None, gone |-> FALSE, by |-> None, context |-> None]

\* At the start an account that carries a public id has the profile of that
\* id, or is one of the staff; profiles have accounts, ids of their own that no
\* call draws, and Aadhaar numbers of their own. One's own form is of oneself.
ASSUME MemberAssumption ==
    \A w \in Scenarios :
        /\ w.members = [u \in DOMAIN w.members |-> w.members[u]]
        /\ \A u \in DOMAIN w.members : DOMAIN w.members[u] = DOMAIN Profile(None, None, None, None)
        /\ \A u \in DOMAIN w.users \ DOMAIN w.staff : w.users[u].pid # None =>
               u \in DOMAIN w.members /\ w.members[u].pid = w.users[u].pid
        /\ DOMAIN w.members \subseteq DOMAIN w.users
        /\ \A u \in DOMAIN w.members : w.members[u].pid[1] \notin Calls
        /\ \A u, v \in DOMAIN w.members : u # v =>
               /\ w.members[u].pid # w.members[v].pid
               /\ w.members[u].aadhaar = None \/ w.members[u].aadhaar # w.members[v].aadhaar
        /\ \A l \in w.links : {l[1], l[2]} \subseteq DOMAIN w.members
        /\ \A c \in w.calls : Input[c].op = "profile" => Input[c].u = Input[c].by

RoleOf(kind) == IF kind = "JAIN" THEN "MEMBER" ELSE "NON_JAIN_MEMBER"
IsMember(u) == u \in DOMAIN members
AadhaarTaken(c) == \E u \in DOMAIN members \ {U(c)} :
    sent[c].aadhaar # None /\ members[u].aadhaar = sent[c].aadhaar

\* An account and its profile, in one transaction; nothing when one exists.
NewPair(u, account, profile) ==
    /\ users' = Put(users, u, account)
    /\ members' = Put(members, u, profile)
WithPid(role, status, pid) == [Account(role, status) EXCEPT !.pid = pid]

restOfAccounts == <<codes, sessions, logins, warned, late>>

\* seedDefaultPreferences.
Seed(c, u, next) ==
    /\ Move(c, "seed", next)
    /\ members' = [members EXCEPT ![u].seeded = TRUE]
    /\ UNCHANGED <<accountVars, adminVars, links, invited>>

-----------------------------------------------------------------------------
(* registerMember: an account without a public id is taken over, any other   *)
(* is a conflict; account and profile are one transaction; preferences, and  *)
(* the tokens of the controller, come after it.                              *)

RegisterCheck(c) ==
    /\ Move(c, "start",
            IF \/ Known(c) /\ (users[U(c)].pid # None \/ users[U(c)].role \in
                     {"SUPER_ADMIN", "MONK_ADMIN"} \union (Managers \ {"BHOJANSHALA_ADMIN"}))
               \/ AadhaarTaken(c)
            THEN "refused" ELSE "create")
    /\ Keep(c, [known |-> Known(c)])
    /\ UNCHANGED <<accountVars, adminVars, memberVars>>

RegisterFits(c) == saw[c].known = Known(c) /\ ~IsMember(U(c)) /\ ~AadhaarTaken(c)
RegisteredAs(c) == [IF Known(c) THEN users[U(c)] ELSE Account("MEMBER", "ACTIVE") EXCEPT
                        !.pid = <<c, U(c)>>, !.status = "ACTIVE", !.role = RoleOf(sent[c].category)]
Registered(c) == [Profile(<<c, U(c)>>, sent[c].category, "ACTIVE", FALSE)
                     EXCEPT !.aadhaar = sent[c].aadhaar]

\* Mutation: the account's update is not part of the transaction.
RegisterInTwo(c) ==
    /\ Move(c, "create", IF RegisterFits(c) THEN "seed" ELSE "failed")
    /\ users' = Put(users, U(c), RegisteredAs(c))
    /\ members' = IF RegisterFits(c) THEN Put(members, U(c), Registered(c)) ELSE members
    /\ Forget /\ UNCHANGED <<restOfAccounts, adminVars, links, invited>>

RegisterWrite(c) ==
    /\ Move(c, "create", IF RegisterFits(c) THEN "seed" ELSE "failed")
    /\ IF RegisterFits(c) THEN NewPair(U(c), RegisteredAs(c), Registered(c))
       ELSE UNCHANGED <<users, members>>
    /\ Forget /\ UNCHANGED <<restOfAccounts, adminVars, links, invited>>

-----------------------------------------------------------------------------
(* A profile for an account that has none: initMemberProfile, updateMyProfile,*)
(* and addFamilyMember for a super admin. The account gets no public id.      *)

StubRead(c, absent, present) ==
    /\ Authenticate(c, IF IsMember(By(c)) THEN present ELSE absent)
    /\ Forget /\ UNCHANGED <<accountVars, adminVars, memberVars>>

StubWrite(c, category, next) ==
    /\ Move(c, "stub", IF IsMember(By(c)) THEN "failed" ELSE next)
    /\ members' = IF IsMember(By(c)) THEN members
                 ELSE Put(members, By(c), Profile(<<c, By(c)>>, category, "ACTIVE", FALSE))
    /\ Forget /\ UNCHANGED <<accountVars, adminVars, links, invited>>

InitRole(c) ==
    /\ Move(c, "role", "done")
    /\ users' = IF sent[c].category = "JAIN" THEN users
                ELSE [users EXCEPT ![By(c)].role = "NON_JAIN_MEMBER"]
    /\ Forget /\ UNCHANGED <<restOfAccounts, adminVars, memberVars>>

-----------------------------------------------------------------------------
(* updateMemberProfile, and syncFamilyMembers: every link of the member is   *)
(* deleted, then the links of the form are made one by one, for accounts     *)
(* without a profile none.                                                   *)

ProfileEnters(c) ==
    /\ IF Op(c) = "profile" THEN Authenticate(c, IF IsMember(By(c)) THEN "edit" ELSE "stub")
       ELSE Permit(c, None, "MEMBERS", "EDIT", IF IsMember(U(c)) THEN "edit" ELSE "refused")
    /\ Forget /\ UNCHANGED <<accountVars, adminVars, memberVars>>

ProfileCheck(c) ==
    /\ Move(c, "edit", IF AadhaarTaken(c) THEN "refused" ELSE "write")
    /\ Forget /\ UNCHANGED <<accountVars, adminVars, memberVars>>

ProfileWrite(c) ==
    /\ Move(c, "write", IF AadhaarTaken(c) THEN "failed"
                        ELSE IF sent[c].family = None THEN "done" ELSE "clear")
    /\ members' = IF AadhaarTaken(c) \/ sent[c].aadhaar = None THEN members
                  ELSE [members EXCEPT ![U(c)].aadhaar = sent[c].aadhaar]
    /\ Forget /\ UNCHANGED <<accountVars, adminVars, links, invited>>

SyncClear(c) ==
    /\ Move(c, "clear", "next")
    /\ links' = {l \in links : l[1] # U(c)}
    /\ Keep(c, [todo |-> sent[c].family])
    /\ UNCHANGED <<accountVars, adminVars, members, invited>>

\* One relative after the other, in any order; the import does the same with
\* its rows.
Rest(c, u) == Keep(c, [u |-> u, new |-> FALSE, todo |-> saw[c].todo \ {u}])
\* Mutation: an account without a profile is linked too.
LinkAnyway(c, u) ==
    IF u \notin DOMAIN users THEN "pair" ELSE IF Op(c) # "import" THEN "link" ELSE "next"
NextOf(c, u) ==
    IF u \notin DOMAIN users THEN "pair"
    ELSE IF Op(c) # "import" /\ IsMember(u) THEN "link" ELSE "next"

NextRelative(c) ==
    /\ \/ /\ pc[c] = "next" /\ saw[c].todo = {}
          /\ Goto(c, IF Op(c) = "adminCreate" THEN "tell" ELSE "done") /\ Forget
       \/ /\ pc[c] = "next"
          /\ \E u \in saw[c].todo : Goto(c, NextOf(c, u)) /\ Rest(c, u)
    /\ UNCHANGED <<accountVars, adminVars, memberVars>>

\* A row of the import that fails is noted, and the next is taken.
PairWrite(c) ==
    LET u == saw[c].u  pid == <<c, u>>
        kind == IF Op(c) = "import" THEN "JAIN"
                ELSE IF Op(c) = "relative" THEN sent[c].category ELSE members[U(c)].category
        taken == u \in DOMAIN users IN
    /\ Move(c, "pair", IF ~taken THEN "seed" ELSE IF Op(c) = "import" THEN "next" ELSE "failed")
    /\ IF taken THEN UNCHANGED <<users, members>>
       ELSE NewPair(u, WithPid(RoleOf(kind), "PENDING_OTP", pid), Profile(pid, kind, "INACTIVE", TRUE))
    /\ Keep(c, [saw[c] EXCEPT !.new = TRUE])
    /\ UNCHANGED <<restOfAccounts, adminVars, links, invited>>

PairSeed(c) == Seed(c, saw[c].u, IF Op(c) = "import" THEN "next" ELSE "link") /\ Forget

\* The link is unique; addFamilyMember looks for it first.
LinkWrite(c) ==
    LET l == <<U(c), saw[c].u>>
        on == IF Op(c) = "relative" THEN "done" ELSE "next" IN
    /\ Move(c, "link", IF l \in links THEN (IF Op(c) = "relative" THEN "refused" ELSE "failed")
                       ELSE IF saw[c].new THEN "invite" ELSE on)
    /\ links' = links \union {l}
    /\ Forget /\ UNCHANGED <<accountVars, adminVars, members, invited>>

Invite(c) ==
    /\ Move(c, "invite", IF Op(c) = "relative" THEN "done" ELSE "next")
    /\ invited' = invited \union {saw[c].u}
    /\ Forget /\ UNCHANGED <<accountVars, adminVars, members, links>>

FamilyLoop(c) == NextRelative(c) \/ PairWrite(c) \/ PairSeed(c) \/ LinkWrite(c) \/ Invite(c)

-----------------------------------------------------------------------------
(* addFamilyMember, linkExistingFamilyMembers, the deletion of a link;       *)
(* bulkImportMembers                                                         *)

RelativeEnters(c) ==
    /\ IF U(c) = By(c)
       THEN Authenticate(c, IF IsMember(By(c)) THEN "find"
                            ELSE IF users[By(c)].role = "SUPER_ADMIN" THEN "stub" ELSE "refused")
       ELSE Permit(c, None, "FAMILY", "CREATE", IF IsMember(U(c)) THEN "find" ELSE "refused")
    /\ Forget /\ UNCHANGED <<accountVars, adminVars, memberVars>>

RelativeFind(c) ==
    LET r == sent[c].relative IN
    /\ Move(c, "find", IF r \notin DOMAIN users THEN "pair"
                       ELSE IF IsMember(r) THEN "link" ELSE "refused")
    /\ Keep(c, [u |-> r, new |-> FALSE])
    /\ UNCHANGED <<accountVars, adminVars, memberVars>>

LinkFind(c) ==
    LET r == sent[c].relative
        fits == /\ U(c) # r /\ IsMember(U(c)) /\ IsMember(r)
                /\ {<<U(c), r>>, <<r, U(c)>>} \intersect links = {} IN
    /\ IF U(c) = By(c) THEN Authenticate(c, IF fits THEN "join" ELSE "refused")
       ELSE Permit(c, None, "FAMILY", "CREATE", IF fits THEN "join" ELSE "refused")
    /\ Forget /\ UNCHANGED <<accountVars, adminVars, memberVars>>

LinkJoin(c) ==
    LET l == <<U(c), sent[c].relative>> IN
    /\ Move(c, "join", IF l \in links THEN "failed" ELSE "notify")
    /\ links' = links \union {l}
    /\ Forget /\ UNCHANGED <<accountVars, adminVars, members, invited>>

LinkNotify(c) ==
    /\ Move(c, "notify", "done")
    /\ invited' = invited \union {sent[c].relative}
    /\ Forget /\ UNCHANGED <<accountVars, adminVars, members, links>>

Unlink(c) ==
    LET l == <<U(c), sent[c].relative>> IN
    /\ Move(c, "start", IF ~HasRole(c, {}) THEN "refused" ELSE IF l \in links THEN "done" ELSE "failed")
    /\ links' = IF HasRole(c, {}) THEN links \ {l} ELSE links
    /\ Forget /\ UNCHANGED <<accountVars, adminVars, members, invited>>

ImportEnters(c) ==
    /\ Permit(c, None, "MEMBERS", "CREATE", "next")
    /\ Keep(c, [todo |-> sent[c].rows])
    /\ UNCHANGED <<accountVars, adminVars, memberVars>>

-----------------------------------------------------------------------------
(* adminCreateMember: the hash of an Aadhaar that is not given throws.       *)

AdminCreateCheck(c) ==
    /\ Permit(c, None, "MEMBERS", "CREATE",
              IF Known(c) THEN "refused" ELSE IF sent[c].aadhaar = None THEN "failed"
              ELSE IF AadhaarTaken(c) THEN "refused" ELSE "create")
    /\ Forget /\ UNCHANGED <<accountVars, adminVars, memberVars>>

AdminCreateWrite(c) ==
    LET fits == ~Known(c) /\ ~AadhaarTaken(c)  pid == <<c, U(c)>>  on == sent[c].active IN
    /\ Move(c, "create", IF ~fits THEN "failed" ELSE IF sent[c].family = None THEN "tell" ELSE "clear")
    /\ IF fits
       THEN NewPair(U(c), WithPid(RoleOf(sent[c].category), IF on THEN "ACTIVE" ELSE "PENDING_OTP", pid),
                    [Profile(pid, sent[c].category, IF on THEN "ACTIVE" ELSE "INACTIVE", FALSE)
                        EXCEPT !.aadhaar = sent[c].aadhaar, !.by = By(c)])
       ELSE UNCHANGED <<users, members>>
    /\ Forget /\ UNCHANGED <<restOfAccounts, adminVars, links, invited>>

AdminCreateTell(c) ==
    /\ Move(c, "tell", "done")
    /\ invited' = invited \union {U(c)}
    /\ Forget /\ UNCHANGED <<accountVars, adminVars, members, links>>

-----------------------------------------------------------------------------
(* adminUpdateMemberStatus, hardDeleteMember, switchActiveCommunity,         *)
(* listMembers                                                               *)

MemberRead(c) ==
    LET next == IF IsMember(U(c)) THEN "write" ELSE "refused" IN
    /\ IF Op(c) = "memberStatus" THEN Permit(c, None, "MEMBERS", "EDIT", next)
       ELSE IF Op(c) = "switch" THEN Authenticate(c, next)
       ELSE Move(c, "start", IF HasRole(c, {}) /\ IsMember(U(c)) /\ ~members[U(c)].gone
                             THEN "write" ELSE "refused")
    /\ Keep(c, IF IsMember(U(c)) THEN members[U(c)] ELSE <<>>)
    /\ UNCHANGED <<accountVars, adminVars, memberVars>>

\* A part of the community that the request leaves out is written as it was read.
MemberWrite(c) ==
    /\ Move(c, "write", "done")
    /\ members' = [members EXCEPT ![U(c)] =
           IF Op(c) = "memberStatus" THEN [@ EXCEPT !.status = sent[c].status]
           ELSE IF Op(c) = "deleteMember" THEN [@ EXCEPT !.gone = TRUE]
           ELSE [@ EXCEPT !.context = IF sent[c].context = None THEN saw[c].context ELSE sent[c].context]]
    /\ Forget /\ UNCHANGED <<accountVars, adminVars, links, invited>>

\* An administrator sees the members that the people of his organizations made,
\* with an organization; those he made himself, without.
Creators(u) ==
    LET orgs == {o \in {t[2] : t \in tenants} : <<u, o>> \in tenants} IN
    {u} \union {v \in DOMAIN users : \E o \in orgs :
                   <<v, o>> \in tenants \/ (v \in DOMAIN staff /\ staff[v].org = o)}
ListMembers(c) ==
    /\ Permit(c, None, "MEMBERS", "VIEW", "done")
    /\ Keep(c, [listed |-> IF ~Enters(c) THEN {}
                ELSE {m \in DOMAIN members : /\ ~members[m].gone
                                             /\ Super(c) \/ members[m].by \in Creators(By(c))}])
    /\ UNCHANGED <<accountVars, adminVars, memberVars>>

MemberStep(c) ==
    \/ Op(c) = "register" /\ (RegisterCheck(c) \/ RegisterWrite(c) \/ (Seed(c, U(c), "issue") /\ Forget))
    \/ Op(c) = "init" /\ (StubRead(c, "stub", "refused") \/ StubWrite(c, sent[c].category, "role") \/ InitRole(c))
    \/ /\ Op(c) \in {"profile", "adminProfile"}
       /\ \/ ProfileEnters(c) \/ StubWrite(c, "JAIN", "edit") \/ ProfileCheck(c) \/ ProfileWrite(c)
          \/ SyncClear(c) \/ FamilyLoop(c)
    \/ Op(c) = "relative" /\ (RelativeEnters(c) \/ StubWrite(c, "NON_JAIN", "find") \/ RelativeFind(c) \/ FamilyLoop(c))
    \/ Op(c) = "link" /\ (LinkFind(c) \/ LinkJoin(c) \/ LinkNotify(c))
    \/ Op(c) = "unlink" /\ Unlink(c)
    \/ Op(c) = "import" /\ (ImportEnters(c) \/ FamilyLoop(c))
    \/ /\ Op(c) = "adminCreate"
       /\ \/ AdminCreateCheck(c) \/ AdminCreateWrite(c) \/ SyncClear(c) \/ FamilyLoop(c)
          \/ AdminCreateTell(c)
    \/ Op(c) \in {"memberStatus", "deleteMember", "switch"} /\ (MemberRead(c) \/ MemberWrite(c))
    \/ Op(c) = "listMembers" /\ ListMembers(c)

-----------------------------------------------------------------------------
(* Properties *)

MemberTypeOK ==
    /\ DOMAIN members \subseteq DOMAIN users
    /\ \A u, v \in DOMAIN members :
           u # v => /\ members[u].pid # members[v].pid
                    /\ members[u].aadhaar = None \/ members[u].aadhaar # members[v].aadhaar
    /\ \A l \in links : {l[1], l[2]} \subseteq DOMAIN members

\* members.service.ts:127-249: an account that carries a public id has the
\* profile of that id, whatever stubs, imports and registrations race for it;
\* only a staff number replaces it (staff.service.ts:107).
ProfileMatchesAccount ==
    \A u \in DOMAIN users : users[u].pid # None /\ u \notin DOMAIN staff =>
        u \in DOMAIN members /\ members[u].pid = users[u].pid
=============================================================================
