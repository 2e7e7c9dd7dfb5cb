--------------------------- MODULE PlatformProofs ---------------------------
(***************************************************************************)
(* Proofs about Platform, for every set of accounts, members, routes, calls *)
(* and scenarios: sessions that were logged out, profiles and public ids,  *)
(* the stops that journeys have passed, and the rows of every part: what   *)
(* they refer to is there, and what they hold is unique where it must be.  *)
(***************************************************************************)
EXTENDS Platform, SumProofs, SequenceTheorems

\* The requests that come keep what they were sent with.
RequestInv ==
    /\ Come \subseteq Calls /\ sent = [c \in Come |-> Input[c]]
    /\ pc = [c \in Come |-> pc[c]] /\ saw = [c \in Come |-> saw[c]]

\* One request goes on, and no other is touched.
Goes(c) ==
    /\ UNCHANGED sent
    /\ \E l : pc' = [pc EXCEPT ![c] = l]
    /\ UNCHANGED saw \/ \E v : saw' = [saw EXCEPT ![c] = v]

\* What the theorems are about.
Sessions == <<sessions, late>>
People == <<users, members, staff>>
TravelOps == {"route", "routeEdit", "journey", "event"}

\* A request that neither renews a session nor travels.
Other(c) == Op(c) # "refresh" /\ Op(c) \notin TravelOps

-----------------------------------------------------------------------------
(* Requests: the parts that change neither sessions, nor people, nor roads *)

LEMMA Kept ==
  /\ UNCHANGED society => UNCHANGED Sessions /\ UNCHANGED People
  /\ UNCHANGED laity => UNCHANGED Sessions /\ UNCHANGED People
  /\ UNCHANGED people => UNCHANGED Sessions /\ UNCHANGED <<users, staff>>
  BY DEF society, laity, people, Sessions, People, accountVars, adminVars, memberVars

LEMMA SiteGoes ==
  ASSUME NEW c, SiteStep(c)
  PROVE  Goes(c) /\ Other(c) /\ UNCHANGED Sessions /\ UNCHANGED People /\ UNCHANGED society
  <1>1. Other(c)
    BY DEF SiteStep, Other, TravelOps
  <1>2. SUFFICES Goes(c) /\ UNCHANGED society
    BY <1>1, Kept
  <1> USE DEF Goes, Goto, Move, Keep, Forget, Permit, Authenticate, SitePermit
  <1>3. CASE SiteEnters(c) \/ SiteWrite(c) \/ SiteCard(c)
    BY <1>3 DEF SiteEnters, SiteWrite, SiteCard
  <1>4. CASE Sync(c)
    BY <1>4 DEF Sync, SyncRead, SyncDrop, SyncBuild
  <1>5. CASE Structure(c)
    BY <1>5 DEF Structure
  <1>6. CASE PartEnters(c) \/ PartWrite(c) \/ PartCard(c) \/ Badge(c, U(c)) \/ PartDelete(c)
    BY <1>6 DEF PartEnters, PartWrite, PartCard, Badge, PartDelete
  <1>7. CASE /\ Op(c) \in {"review", "reviewPublish", "reviewHide"}
             /\ ReviewEnters(c) \/ ReviewWrite(c) \/ AverageRead(c) \/ AverageWrite(c)
    BY <1>7 DEF ReviewEnters, ReviewWrite, AverageRead, AverageWrite
  <1>8. CASE FollowRead(c) \/ FollowWrite(c) \/ FollowCount(c) \/ Ask(c)
    BY <1>8 DEF FollowRead, FollowWrite, FollowCount, Ask
  <1>9. CASE Chance(c) \/ DecideOffer(c) \/ Enlist(c) \/ SiteGet(c)
    BY <1>9 DEF Chance, DecideOffer, Enlist, SiteGet
  <1>10. QED
    BY <1>3, <1>4, <1>5, <1>6, <1>7, <1>8, <1>9 DEF SiteStep

LEMMA MonkGoes ==
  ASSUME NEW c, MonkStep(c)
  PROVE  Goes(c) /\ Other(c) /\ UNCHANGED Sessions /\ UNCHANGED People /\ UNCHANGED laity
  <1>1. Other(c)
    BY DEF MonkStep, Other, TravelOps
  <1>2. SUFFICES Goes(c) /\ UNCHANGED laity
    BY <1>1, Kept
  <1> USE DEF Goes, Goto, Move, Keep, Forget, Permit, Authenticate
  <1>3. CASE MonkEnters(c) \/ MonkCreate(c) \/ MonkCard(c)
    BY <1>3 DEF MonkEnters, MonkCreate, MonkCard
  <1>4. CASE ProfileRead(c) \/ ProfileSave(c) \/ TimelinePost(c)
    BY <1>4 DEF ProfileRead, ProfileSave, TimelinePost
  <1>5. CASE Group(c) \/ DevoteRead(c) \/ DevoteWrite(c)
    BY <1>5 DEF Group, DevoteRead, DevoteWrite
  <1>6. CASE PlanRead(c) \/ PlanWrite(c) \/ PlanCards(c) \/ ReadMonks(c)
    BY <1>6 DEF PlanRead, PlanWrite, PlanCards, ReadMonks
  <1>7. QED
    BY <1>3, <1>4, <1>5, <1>6 DEF MonkStep

LEMMA OfficeGoes ==
  ASSUME NEW c, OfficeStep(c)
  PROVE  Goes(c) /\ Other(c) /\ UNCHANGED Sessions /\ UNCHANGED People /\ UNCHANGED society
  <1>1. Other(c)
    BY DEF OfficeStep, Other, TravelOps
  <1>2. SUFFICES Goes(c) /\ UNCHANGED society
    BY <1>1, Kept
  <1> USE DEF Goes, Goto, Move, Keep, Forget, Permit, Authenticate, SitePermit, ByRoot, Show, base
  <1>3. CASE HallEnters(c) \/ HallWrite(c) \/ HallBook(c) \/ HallStatus(c)
    BY <1>3 DEF HallEnters, HallWrite, HallBook, HallStatus
  <1>4. CASE HallList(c)
    BY <1>4 DEF HallList
  <1>5. CASE CaseEnters(c) \/ CaseNumber(c) \/ CaseCreate(c) \/ DecideEnters(c) \/ DecideWrite(c) \/ CaseList(c)
    BY <1>5 DEF CaseEnters, CaseNumber, CaseCreate, DecideEnters, DecideWrite, CaseList
  <1>6. CASE Tell(c, "done") \/ Tell(c, "types")
    BY <1>6 DEF Tell
  <1>7. CASE BulletinCreate(c) \/ BulletinCard(c) \/ Audience(c) \/ BulletinEdit(c)
    BY <1>7 DEF BulletinCreate, BulletinCard, Audience, BulletinEdit
  <1>8. CASE LetterSend(c) \/ LetterDelete(c) \/ LetterList(c)
    BY <1>8 DEF LetterSend, LetterDelete, LetterList
  <1>9. CASE TithiEnters(c) \/ TithiEntry(c) \/ Choose(c) \/ DailyRead(c)
    BY <1>9 DEF TithiEnters, TithiEntry, Choose, DailyRead
  <1>10. CASE ShelfPut(c) \/ ShelfWrite(c) \/ ShelfList(c)
    BY <1>10 DEF ShelfPut, ShelfWrite, ShelfList
  <1>11. CASE AdCreate(c) \/ AdRead(c) \/ AdWrite(c) \/ AdClick(c)
    BY <1>11 DEF AdCreate, AdRead, AdWrite, AdClick
  <1>12. QED
    BY <1>3, <1>4, <1>5, <1>6, <1>7, <1>8, <1>9, <1>10, <1>11 DEF OfficeStep

\* What changes people is looked at below; here only who goes on.
LEMMA StaffGoes ==
  ASSUME NEW c, StaffStep(c)
  PROVE  Goes(c) /\ Other(c) /\ UNCHANGED Sessions
  <1>1. Other(c)
    BY DEF StaffStep, Other, TravelOps
  <1> USE DEF Goes, Goto, Move, Keep, Forget, Permit, Authenticate, Sessions, accountVars, restOfStaff, restOfAccounts
  <1>2. CASE StaffCheck(c) \/ StaffMember(c) \/ StaffNumber(c) \/ StaffHire(c) \/ StaffTell(c)
    BY <1>1, <1>2 DEF StaffCheck, StaffMember, StaffNumber, StaffHire, StaffTell
  <1>3. CASE RegrantCheck(c) \/ RegrantClear(c) \/ RegrantWrite(c)
    BY <1>1, <1>3 DEF RegrantCheck, RegrantClear, RegrantWrite
  <1>4. CASE ShiftRead(c) \/ ShiftWrite(c) \/ Leave(c)
    BY <1>1, <1>4 DEF ShiftRead, ShiftWrite, Leave
  <1>5. CASE PaperRead(c) \/ PaperWrite(c)
    BY <1>1, <1>5 DEF PaperRead, PaperWrite
  <1>6. QED
    BY <1>2, <1>3, <1>4, <1>5 DEF StaffStep

LEMMA AdminGoes ==
  ASSUME NEW c, AdminStep(c)
  PROVE  Goes(c) /\ Other(c) /\ UNCHANGED Sessions
  <1>1. Other(c)
    BY DEF AdminStep, AdminOps, Other, TravelOps
  <1> USE DEF Goes, Goto, Move, Keep, Forget, Authenticate, Sessions, accountVars
  <1>2. CASE CreateAdminCheck(c) \/ CreateAdminWrite(c) \/ ScopeGrants(c) \/ Credentials(c)
    BY <1>1, <1>2 DEF CreateAdminCheck, CreateAdminWrite, ScopeGrants, Credentials
  <1>3. CASE GrantCheck(c) \/ GrantDrop(c) \/ GrantWrite(c)
    BY <1>1, <1>3 DEF GrantCheck, GrantDrop, GrantWrite
  <1>4. CASE AdminEnters(c) \/ AdminRead(c) \/ AdminWrite(c)
    BY <1>1, <1>4 DEF AdminEnters, AdminRead, AdminWrite
  <1>5. CASE DeleteAdmin(c) \/ MyModules(c) \/ ListOrgAdmins(c)
    BY <1>1, <1>5 DEF DeleteAdmin, MyModules, ListOrgAdmins
  <1>6. QED
    BY <1>2, <1>3, <1>4, <1>5 DEF AdminStep

LEMMA MemberGoes ==
  ASSUME NEW c, MemberStep(c)
  PROVE  Goes(c) /\ Other(c) /\ UNCHANGED Sessions
  <1>1. Other(c)
    BY DEF MemberStep, Other, TravelOps
  <1> USE DEF Goes, Goto, Move, Keep, Forget, Permit, Authenticate, Sessions, accountVars, restOfAccounts
  <1>2. CASE RegisterCheck(c) \/ RegisterWrite(c)
    BY <1>1, <1>2 DEF RegisterCheck, RegisterWrite
  <1>3. CASE Seed(c, U(c), "issue") /\ Forget
    BY <1>1, <1>3 DEF Seed
  <1>4. ASSUME NEW x, NEW y, StubRead(c, x, y) \/ StubWrite(c, x, y)
        PROVE  Goes(c) /\ Other(c) /\ UNCHANGED Sessions
    BY <1>1, <1>4 DEF StubRead, StubWrite
  <1>5. CASE InitRole(c) \/ ProfileEnters(c) \/ ProfileCheck(c) \/ ProfileWrite(c) \/ SyncClear(c)
    BY <1>1, <1>5 DEF InitRole, ProfileEnters, ProfileCheck, ProfileWrite, SyncClear
  <1>6. CASE FamilyLoop(c)
    BY <1>1, <1>6 DEF FamilyLoop, NextRelative, PairWrite, PairSeed, Seed, LinkWrite, Invite, Rest
  <1>7. CASE RelativeEnters(c) \/ RelativeFind(c)
    BY <1>1, <1>7 DEF RelativeEnters, RelativeFind
  <1>8. CASE LinkFind(c) \/ LinkJoin(c) \/ LinkNotify(c) \/ Unlink(c) \/ ImportEnters(c)
    BY <1>1, <1>8 DEF LinkFind, LinkJoin, LinkNotify, Unlink, ImportEnters
  <1>9. CASE AdminCreateCheck(c) \/ AdminCreateWrite(c) \/ AdminCreateTell(c)
    BY <1>1, <1>9 DEF AdminCreateCheck, AdminCreateWrite, AdminCreateTell
  <1>10. CASE MemberRead(c) \/ MemberWrite(c) \/ ListMembers(c)
    BY <1>1, <1>10 DEF MemberRead, MemberWrite, ListMembers
  <1>11. QED
    BY <1>2, <1>3, <1>4, <1>5, <1>6, <1>7, <1>8, <1>9, <1>10 DEF MemberStep

LEMMA WatchGoes ==
  ASSUME NEW c, WatchStep(c)
  PROVE  Goes(c) /\ Other(c) /\ UNCHANGED Sessions /\ UNCHANGED <<users, staff>> /\ UNCHANGED people
  <1>1. Other(c)
    BY DEF WatchStep, Other, TravelOps
  <1>2. SUFFICES Goes(c) /\ UNCHANGED people
    BY <1>1, Kept
  <1> USE DEF Goes, Goto, Move, Keep, Forget, Permit, Authenticate
  <1>3. CASE Sos(c) \/ Raise(c) \/ SweepRead(c)
    BY <1>3 DEF Sos, Raise, RaiseFind, RaiseWrite, SweepRead
  <1>4. CASE Resolve(c) \/ ListAlerts(c) \/ PingRead(c) \/ PingWrite(c)
    BY <1>4 DEF Resolve, ListAlerts, PingRead, PingWrite
  <1>5. CASE RegisterDevice(c) \/ DeviceRead(c) \/ DeviceWrite(c) \/ ListDevices(c)
    BY <1>5 DEF RegisterDevice, DeviceRead, DeviceWrite, ListDevices
  <1>6. QED
    BY <1>3, <1>4, <1>5 DEF WatchStep

\* Who travels goes on too, and so do those who look after the roads.
LEMMA ViharGoes ==
  ASSUME NEW c, ViharStep(c)
  PROVE  Goes(c) /\ Op(c) # "refresh" /\ UNCHANGED Sessions /\ UNCHANGED <<users, staff>> /\ UNCHANGED people
  <1>1. Op(c) # "refresh"
    BY DEF ViharStep
  <1>2. SUFFICES Goes(c) /\ UNCHANGED people
    BY <1>1, Kept
  <1> USE DEF Goes, Goto, Move, Keep, Forget, Permit, Authenticate
  <1>3. CASE CreateRoute(c) \/ RouteRead(c) \/ RouteWrite(c)
    BY <1>3 DEF CreateRoute, RouteRead, RouteWrite
  <1>4. CASE JourneyFind(c) \/ JourneyCreate(c) \/ JourneyTell(c)
    BY <1>4 DEF JourneyFind, JourneyCreate, JourneyTell
  <1>5. CASE EventRead(c) \/ EventCreate(c) \/ Arrival(c)
    BY <1>5 DEF EventRead, EventCreate, Arrival
  <1>6. CASE Delay(c) \/ DelayRaise(c)
    BY <1>6 DEF Delay, DelayRaise
  <1>7. CASE EntryCreate(c) \/ EntryRead(c) \/ EntryWrite(c) \/ TrackingRead(c)
    BY <1>7 DEF EntryCreate, EntryRead, EntryWrite, TrackingRead
  <1>8. QED
    BY <1>3, <1>4, <1>5, <1>6, <1>7 DEF ViharStep

LEMMA AccountGoes ==
  ASSUME NEW c, Entry(c)
  PROVE  Goes(c) /\ Op(c) \notin TravelOps
  <1>1. Op(c) \notin TravelOps
    BY DEF Entry, AccountStep, TravelOps
  <1> USE DEF Goes, Goto, Move, Keep, Forget, Authenticate
  <1>2. CASE CodeRequest(c) \/ CodeSend(c) \/ EmailCodeSend(c)
    BY <1>1, <1>2 DEF CodeRequest, CodeSend, EmailCodeSend
  <1>3. CASE CodeCheck(c)
    BY <1>1, <1>3 DEF CodeCheck, CodeTries, CodeRead, CodeMiss, CodeBurn
  <1>4. CASE EmailCodeRead(c) \/ CodeBurn(c) \/ OtpUser(c) \/ EmailUser(c) \/ SignUp(c)
    BY <1>1, <1>4 DEF EmailCodeRead, CodeBurn, OtpUser, EmailUser, SignUp
  <1>5. CASE PasswordUser(c) \/ WrongPassword(c) \/ LogFailure(c)
    BY <1>1, <1>5 DEF PasswordUser, WrongPassword, LogFailure
  <1>6. CASE SignIn(c) \/ IssueTokens(c)
    BY <1>1, <1>6 DEF SignIn, FlagSuspicious, IssueTokens, LastLogin
  <1>7. CASE RefreshRead(c) \/ Logout(c) \/ AccountEnters(c)
    BY <1>1, <1>7 DEF RefreshRead, Logout, AccountEnters
  <1>8. CASE PasswordChange(c) \/ PasswordWrite(c)
    BY <1>1, <1>8 DEF PasswordChange, PasswordWrite
  <1>9. QED
    BY <1>2, <1>3, <1>4, <1>5, <1>6, <1>7, <1>8 DEF Entry, AccountStep

-----------------------------------------------------------------------------
(* The requests that come *)

\* A step of a request moves it, and leaves the others where they are.
LEMMA RequestsGo ==
  ASSUME RequestInv, NEW c \in Come, Goes(c)
  PROVE  /\ RequestInv' /\ Come' = Come
         /\ \A d \in Come \ {c} : pc'[d] = pc[d] /\ saw'[d] = saw[d]
  <1>1. Come' = Come
    BY DEF RequestInv, Goes, Come
  <1>2. pc' = [d \in Come |-> pc'[d]] /\ \A d \in Come \ {c} : pc'[d] = pc[d]
    BY DEF RequestInv, Goes, Come
  <1>3. saw' = [d \in Come |-> saw'[d]] /\ \A d \in Come \ {c} : saw'[d] = saw[d]
    BY DEF RequestInv, Goes, Come
  <1>4. sent' = sent
    BY DEF Goes
  <1>5. QED
    BY <1>1, <1>2, <1>3, <1>4 DEF RequestInv

LEMMA DeathGoes ==
  ASSUME NEW c, Die(c)
  PROVE  Goes(c) /\ UNCHANGED saw /\ pc' = [pc EXCEPT ![c] = "dead"] /\ pc[c] \notin Ended
  BY DEF Die, Goes, Goto, Forget

\* Requests stay where they are, but for one that may die.
Apart(ops) ==
    /\ Come' = Come /\ UNCHANGED sent
    /\ \A d \in Come : Op(d) \in ops =>
           /\ saw'[d] = saw[d]
           /\ \/ pc'[d] = pc[d]
              \/ pc'[d] = "dead"

LEMMA GoesApart ==
  ASSUME RequestInv, NEW c \in Come, Goes(c), NEW ops, Op(c) \notin ops
  PROVE  Apart(ops)
  <1>1. UNCHANGED sent
    BY DEF Goes
  <1>2. QED
    BY <1>1, RequestsGo DEF Apart

LEMMA QuietApart ==
  ASSUME RequestInv, NEW ops, UNCHANGED request \/ \E c \in Come : Die(c)
  PROVE  Apart(ops)
  <1>1. CASE UNCHANGED request
    BY <1>1 DEF request, Apart, Come
  <1>2. ASSUME NEW c \in Come, Die(c)
        PROVE  Apart(ops)
    <2>1. Goes(c) /\ UNCHANGED saw /\ UNCHANGED sent /\ pc'[c] = "dead"
      BY <1>2, DeathGoes DEF Goes, RequestInv
    <2>2. QED
      BY <2>1, RequestsGo DEF Apart
  <1>3. QED
    BY <1>1, <1>2

-----------------------------------------------------------------------------
(* Sessions *)

\* A refresh that has read a live session finds it live, or was under way when
\* it was logged out; of the sessions a request names the history is kept.
SessionInv ==
    /\ late = [k \in DOMAIN late |-> late[k]]
    /\ \A c \in Come : Op(c) \in {"refresh", "logout"} => Key(c) \in DOMAIN late
    /\ \A c \in Come : Op(c) = "refresh" /\ pc[c] = "issue" =>
           Live(Key(c)) \/ c \in late[Key(c)]

\* What no step may do: LoggedOutStaysOut is that every step has this.
StaysOut ==
    \A k \in DOMAIN sessions : ~Live(k) /\ Live(k)' =>
        LET c == sessions'[k].token IN Op(c) = "refresh" => c \in late[k]

LEMMA SessionStays ==
  ASSUME RequestInv, SessionInv, Apart({"refresh"}), UNCHANGED Sessions
  PROVE  SessionInv' /\ StaysOut
  <1>1. UNCHANGED <<sessions, late>> /\ Come' = Come /\ UNCHANGED sent
    BY DEF Sessions, Apart
  <1>2. \A d \in Come : Op(d)' = Op(d) /\ Key(d)' = Key(d) /\ (Live(Key(d)) => Live(Key(d))')
    BY <1>1 DEF Op, Key, U, Live
  <1>3. ASSUME NEW d \in Come, Op(d) = "refresh", pc'[d] = "issue"
        PROVE  Live(Key(d))' \/ d \in late'[Key(d)]
    <2>1. pc[d] = "issue"
      BY <1>3 DEF Apart
    <2>2. QED
      BY <1>1, <1>2, <1>3, <2>1 DEF SessionInv
  <1>4. StaysOut
    BY <1>1 DEF StaysOut, Live
  <1>5. QED
    BY <1>1, <1>2, <1>3, <1>4 DEF SessionInv

LEMMA RefreshReads ==
  ASSUME RequestInv, SessionInv, NEW c \in Come, Op(c) = "refresh", RefreshRead(c)
  PROVE  SessionInv' /\ StaysOut
  <1>1. /\ pc' = [pc EXCEPT ![c] = IF Live(Key(c)) THEN "issue" ELSE "refused"]
        /\ UNCHANGED <<sent, saw, sessions, late>>
    BY DEF RefreshRead, Move, Goto, Forget, accountVars
  <1>2. Come' = Come /\ \A d \in Come \ {c} : pc'[d] = pc[d]
    BY <1>1 DEF RequestInv, Come
  <1>3. pc'[c] = "issue" => Live(Key(c))
    BY <1>1 DEF RequestInv
  <1>4. \A d \in Come : Op(d)' = Op(d) /\ Key(d)' = Key(d) /\ (Live(Key(d)) => Live(Key(d))')
    BY <1>1 DEF Op, Key, U, Live
  <1>5. \A d \in Come : Op(d) = "refresh" /\ pc'[d] = "issue" => Live(Key(d))' \/ d \in late'[Key(d)]
    BY <1>1, <1>2, <1>3, <1>4 DEF SessionInv
  <1>6. StaysOut
    BY <1>1 DEF StaysOut, Live
  <1>7. QED
    BY <1>1, <1>2, <1>4, <1>5, <1>6 DEF SessionInv

LEMMA TokensIssued ==
  ASSUME RequestInv, SessionInv, NEW c \in Come, IssueTokens(c)
  PROVE  SessionInv' /\ StaysOut
  <1>1. /\ pc[c] = "issue" /\ UNCHANGED <<sent, saw, late>>
        /\ sessions' = Put(sessions, Key(c), [token |-> c, revoked |-> FALSE])
        /\ pc' = [pc EXCEPT ![c] = IF Op(c) \in {"refresh", "register"} THEN "done" ELSE "log"]
    BY DEF IssueTokens, Move, Goto, Forget
  <1>2. Come' = Come /\ pc'[c] # "issue" /\ \A d \in Come \ {c} : pc'[d] = pc[d]
    BY <1>1 DEF RequestInv, Come
  <1>3. /\ DOMAIN sessions' = DOMAIN sessions \union {Key(c)}
        /\ sessions'[Key(c)] = [token |-> c, revoked |-> FALSE]
        /\ \A k \in DOMAIN sessions \ {Key(c)} : sessions'[k] = sessions[k]
    BY <1>1 DEF Put
  <1>4. \A k : Live(k) => Live(k)'
    BY <1>3 DEF Live
  <1>5. \A d \in Come : Op(d)' = Op(d) /\ Key(d)' = Key(d)
    BY <1>1 DEF Op, Key, U
  <1>6. \A d \in Come : Op(d) = "refresh" /\ pc'[d] = "issue" => Live(Key(d))' \/ d \in late'[Key(d)]
    BY <1>1, <1>2, <1>4, <1>5 DEF SessionInv
  <1>7. ASSUME NEW k \in DOMAIN sessions, ~Live(k), Live(k)', Op(sessions'[k].token) = "refresh"
        PROVE  sessions'[k].token \in late[k]
    <2>1. k = Key(c)
      BY <1>3, <1>7 DEF Live
    <2>2. sessions'[k].token = c
      BY <1>3, <2>1
    <2>3. QED
      BY <1>1, <1>7, <2>1, <2>2 DEF SessionInv
  <1>8. QED
    BY <1>1, <1>2, <1>5, <1>6, <1>7 DEF SessionInv, StaysOut

\* Whoever is refreshing when the session ends is known to be late.
LEMMA LogoutKnows ==
  ASSUME RequestInv, SessionInv, NEW c \in Come, Op(c) = "logout", Logout(c)
  PROVE  SessionInv' /\ StaysOut
  <1>1. /\ pc' = [pc EXCEPT ![c] = "done"] /\ UNCHANGED <<sent, saw>>
        /\ late' = [late EXCEPT ![Key(c)] = {r \in Open : Op(r) = "refresh" /\ Key(r) = Key(c)}]
        /\ sessions' = IF Key(c) \in DOMAIN sessions
                       THEN [sessions EXCEPT ![Key(c)] = [token |-> None, revoked |-> TRUE]]
                       ELSE sessions
    BY DEF Logout, Move, Goto, Forget
  <1>2. Come' = Come /\ \A d \in Come \ {c} : pc'[d] = pc[d]
    BY <1>1 DEF RequestInv, Come
  <1>3. /\ DOMAIN late' = DOMAIN late /\ late' = [k \in DOMAIN late' |-> late'[k]]
        /\ late'[Key(c)] = {r \in Open : Op(r) = "refresh" /\ Key(r) = Key(c)}
        /\ \A k \in DOMAIN late \ {Key(c)} : late'[k] = late[k]
    BY <1>1 DEF SessionInv
  <1>4. /\ DOMAIN sessions' = DOMAIN sessions
        /\ Key(c) \in DOMAIN sessions => sessions'[Key(c)].revoked
        /\ \A k \in DOMAIN sessions \ {Key(c)} : sessions'[k] = sessions[k]
    BY <1>1
  <1>5. \A d \in Come : Op(d)' = Op(d) /\ Key(d)' = Key(d)
    BY <1>1 DEF Op, Key, U
  <1>6. ASSUME NEW d \in Come, Op(d) = "refresh", pc'[d] = "issue"
        PROVE  Live(Key(d))' \/ d \in late'[Key(d)]
    <2>1. d # c /\ pc[d] = "issue"
      BY <1>2, <1>6
    <2>2. Live(Key(d)) \/ d \in late[Key(d)]
      BY <1>6, <2>1 DEF SessionInv
    <2>3. CASE Key(d) = Key(c)
      <3>1. d \in Open
        BY <2>1 DEF Open, Ended
      <3>2. QED
        BY <1>3, <1>6, <2>3, <3>1
    <2>4. CASE Key(d) # Key(c)
      <3>1. Key(d) \in DOMAIN late
        BY <1>6 DEF SessionInv
      <3>2. late'[Key(d)] = late[Key(d)]
        BY <1>3, <2>4, <3>1
      <3>3. Live(Key(d)) => Live(Key(d))'
        BY <1>4, <1>5, <2>4 DEF Live
      <3>4. QED
        BY <2>2, <3>2, <3>3
    <2>5. QED
      BY <2>3, <2>4
  <1>7. StaysOut
    BY <1>4 DEF StaysOut, Live
  <1>8. QED
    BY <1>2, <1>3, <1>5, <1>6, <1>7 DEF SessionInv

LEMMA EntrySessions ==
  ASSUME NEW c, Entry(c)
  PROVE  \/ Op(c) # "refresh" /\ UNCHANGED Sessions
         \/ Op(c) = "refresh" /\ RefreshRead(c)
         \/ IssueTokens(c)
         \/ Op(c) = "logout" /\ Logout(c)
  <1> SUFFICES ASSUME ~IssueTokens(c), Op(c) # "refresh", ~(Op(c) = "logout" /\ Logout(c))
               PROVE  UNCHANGED Sessions
    BY DEF Entry, AccountStep
  <1> USE DEF Sessions, accountVars
  <1>2. CASE CodeRequest(c) \/ CodeSend(c) \/ EmailCodeSend(c)
    BY <1>2 DEF CodeRequest, CodeSend, EmailCodeSend
  <1>3. CASE CodeCheck(c)
    BY <1>3 DEF CodeCheck, CodeTries, CodeRead, CodeMiss, CodeBurn
  <1>4. CASE EmailCodeRead(c) \/ CodeBurn(c) \/ OtpUser(c) \/ EmailUser(c) \/ SignUp(c)
    BY <1>4 DEF EmailCodeRead, CodeBurn, OtpUser, EmailUser, SignUp
  <1>5. CASE PasswordUser(c) \/ WrongPassword(c) \/ LogFailure(c)
    BY <1>5 DEF PasswordUser, WrongPassword, LogFailure
  <1>6. CASE FlagSuspicious(c) \/ LastLogin(c) \/ AccountEnters(c)
    BY <1>6 DEF FlagSuspicious, LastLogin, AccountEnters
  <1>7. CASE PasswordChange(c) \/ PasswordWrite(c)
    BY <1>7 DEF PasswordChange, PasswordWrite
  <1>8. QED
    BY <1>2, <1>3, <1>4, <1>5, <1>6, <1>7 DEF Entry, AccountStep, SignIn

LEMMA SessionStepInv ==
  ASSUME RequestInv, SessionInv, [Next]_vars
  PROVE  SessionInv' /\ StaysOut
  <1>1. ASSUME NEW c \in Come, Goes(c), Op(c) # "refresh", UNCHANGED Sessions
        PROVE  SessionInv' /\ StaysOut
    BY <1>1, GoesApart, SessionStays
  <1>2. ASSUME NEW c \in Come, Entry(c)
        PROVE  SessionInv' /\ StaysOut
    BY <1>1, <1>2, AccountGoes, EntrySessions, RefreshReads, TokensIssued, LogoutKnows
  <1>3. ASSUME NEW c \in Come,
               AdminStep(c) \/ MemberStep(c) \/ StaffStep(c) \/ SiteStep(c) \/ MonkStep(c)
               \/ OfficeStep(c) \/ ViharStep(c) \/ WatchStep(c)
        PROVE  SessionInv' /\ StaysOut
    BY <1>1, <1>3, AdminGoes, MemberGoes, StaffGoes, SiteGoes, MonkGoes, OfficeGoes, ViharGoes,
       WatchGoes DEF Other
  <1>4. CASE CallStep
    BY <1>2, <1>3, <1>4 DEF CallStep, Busy
  <1>5. ASSUME UNCHANGED request \/ (\E c \in Come : Die(c)), UNCHANGED Sessions
        PROVE  SessionInv' /\ StaysOut
    BY <1>5, QuietApart, SessionStays
  <1>6. CASE Elsewhere
    <2>1. UNCHANGED request \/ \E c \in Come : Die(c)
      BY <1>6 DEF Elsewhere
    <2>2. UNCHANGED Sessions
      BY <1>6 DEF Elsewhere, CodeLapses, LockLapses, FallsSilent, StaffSweep, people, accountVars, Sessions
    <2>3. QED
      BY <1>5, <2>1, <2>2
  <1>7. CASE UNCHANGED vars
    BY <1>5, <1>7 DEF vars, accountVars, Sessions
  <1>8. QED
    BY <1>4, <1>6, <1>7 DEF Next

-----------------------------------------------------------------------------
(* What requests have found, which no other request undoes: accounts,       *)
(* profiles and staff are never deleted                                      *)

Fails == 0 .. LOCK_AT - 1

\* The failures that a wrong password was read with.
FoundAccount(c) ==
    (Op(c) \in {"password", "emailPassword"} /\ pc[c] = "wrong") => saw[c].fails \in Fails

\* The account that grants or organizations are about to be written for.
FoundAdmin(c) ==
    (Op(c) \in {"createAdmin"} \union AdminOps /\ pc[c] \in {"scope", "drop", "grant", "tell", "write"})
        => Known(c)

\* Whose stub is about to be made; whose form or family is worked on; the
\* relative in hand.
FormOps == {"profile", "adminProfile", "relative", "adminCreate"}
FoundStub(c) ==
    (Op(c) \in {"init", "profile", "adminProfile", "relative"} /\ pc[c] = "stub") =>
        By(c) \in DOMAIN users /\ (Op(c) # "init" => U(c) = By(c))
FoundForm(c) ==
    (Op(c) \in FormOps /\ pc[c] \in {"edit", "write", "clear", "next", "find", "pair", "seed", "link", "invite"})
        => IsMember(U(c))
FoundRelative(c) ==
    /\ (Op(c) \in FormOps \union {"import"} /\ pc[c] \in {"pair", "seed", "link"}) => "u" \in DOMAIN saw[c]
    /\ (Op(c) \in FormOps \union {"import"} /\ pc[c] \in {"seed", "link"}) => IsMember(saw[c].u)
    /\ ~(Op(c) = "import" /\ pc[c] = "link")
    /\ (Op(c) = "link" /\ pc[c] = "join") => IsMember(U(c)) /\ IsMember(sent[c].relative)
FoundMember(c) == FoundStub(c) /\ FoundForm(c) /\ FoundRelative(c)

\* The member to be hired, the staff whose attendance is written, the row of it.
FoundStaff(c) ==
    /\ (Op(c) = "staff" /\ pc[c] \in {"count", "hire", "tell"}) => IsMember(U(c))
    /\ (Op(c) \in {"checkIn", "checkOut", "manual"} /\ pc[c] = "write") => IsStaff(U(c))
    /\ (Op(c) = "checkOut" /\ pc[c] = "write") =>
           DOMAIN saw[c] = {"u", "row", "open"} /\ IsStaff(saw[c].u)

FoundInv == \A c \in Come : FoundAccount(c) /\ FoundAdmin(c) /\ FoundMember(c) /\ FoundStaff(c)

-----------------------------------------------------------------------------
(* People: accounts, profiles and public ids *)

AccountFields == {"role", "status", "pid", "pw", "fails", "locked"}
ProfileFields == {"pid", "category", "status", "auto", "seeded", "aadhaar", "gone", "by", "context"}

\* An id that a call has drawn is of the profile it was drawn for; no two
\* profiles share an id or an Aadhaar number.
Drawn(u) == members[u].pid[1] \in Calls => members[u].pid[2] = u
OwnIds ==
    \A u, v \in DOMAIN members : u # v =>
        /\ members[u].pid # members[v].pid
        /\ members[u].aadhaar = None \/ members[u].aadhaar # members[v].aadhaar

PeopleInv ==
    /\ users = [u \in DOMAIN users |-> users[u]]
    /\ \A u \in DOMAIN users : DOMAIN users[u] = AccountFields /\ users[u].fails \in Fails
    /\ members = [u \in DOMAIN members |-> members[u]]
    /\ \A u \in DOMAIN members : u \in DOMAIN users /\ DOMAIN members[u] = ProfileFields /\ Drawn(u)
    /\ OwnIds /\ ProfileMatchesAccount

\* Accounts, profiles and staff are never deleted.
Growth ==
    /\ DOMAIN users \subseteq DOMAIN users' /\ DOMAIN members \subseteq DOMAIN members'
    /\ DOMAIN staff \subseteq DOMAIN staff'

\* Steps that give nobody a public id: accounts that come have none.
SameUsers ==
    /\ users' = [u \in DOMAIN users' |-> users'[u]] /\ DOMAIN users \subseteq DOMAIN users'
    /\ \A u \in DOMAIN users' :
           /\ DOMAIN users'[u] = AccountFields /\ users'[u].fails \in Fails
           /\ users'[u].pid = None \/ (u \in DOMAIN users /\ users'[u].pid = users[u].pid)
\* Profiles stay, and keep their ids; those that come have an account.
SameMembers ==
    /\ members' = [u \in DOMAIN members' |-> members'[u]]
    /\ \A u \in DOMAIN members' : u \in DOMAIN users /\ DOMAIN members'[u] = ProfileFields /\ Drawn(u)'
    /\ \A u \in DOMAIN members : u \in DOMAIN members' /\ members'[u].pid = members[u].pid
    /\ OwnIds'

LEMMA SamePeople ==
  ASSUME PeopleInv, SameUsers, SameMembers, DOMAIN staff \subseteq DOMAIN staff'
  PROVE  PeopleInv' /\ Growth
  <1>1. ASSUME NEW u \in DOMAIN users', users'[u].pid # None, u \notin DOMAIN staff'
        PROVE  u \in DOMAIN members' /\ members'[u].pid = users'[u].pid
    <2>1. u \in DOMAIN users /\ users'[u].pid = users[u].pid /\ u \notin DOMAIN staff
      BY <1>1 DEF SameUsers
    <2>2. u \in DOMAIN members /\ members[u].pid = users[u].pid
      BY <1>1, <2>1 DEF PeopleInv, ProfileMatchesAccount
    <2>3. QED
      BY <2>1, <2>2 DEF SameMembers
  <1>2. QED
    BY <1>1 DEF PeopleInv, Growth, ProfileMatchesAccount, SameUsers, SameMembers

LEMMA UsersKept ==
  ASSUME PeopleInv, UNCHANGED users
  PROVE  SameUsers
  BY DEF PeopleInv, SameUsers

LEMMA MembersKept ==
  ASSUME PeopleInv, UNCHANGED members
  PROVE  SameMembers
  BY DEF PeopleInv, SameMembers, OwnIds, Drawn

\* A row is written: its fields stay, and its public id.
LEMMA UserEdited ==
  ASSUME PeopleInv, NEW u, NEW row, users' = [users EXCEPT ![u] = row],
         u \in DOMAIN users => /\ DOMAIN row = AccountFields /\ row.fails \in Fails
                              /\ row.pid = users[u].pid
  PROVE  SameUsers
  <1>1. DOMAIN users' = DOMAIN users /\ users' = [v \in DOMAIN users' |-> users'[v]]
    BY DEF PeopleInv
  <1>2. \A v \in DOMAIN users : users'[v] = IF v = u THEN row ELSE users[v]
    BY DEF PeopleInv
  <1>3. QED
    BY <1>1, <1>2 DEF SameUsers, PeopleInv

LEMMA UserAdded ==
  ASSUME PeopleInv, NEW u, NEW role, NEW status, users' = Put(users, u, Account(role, status))
  PROVE  SameUsers
  <1>1. /\ DOMAIN Account(role, status) = AccountFields /\ Account(role, status).pid = None
        /\ Account(role, status).fails \in Fails
    BY AccountAssumption DEF Account, AccountFields, Fails
  <1>2. /\ users' = [v \in DOMAIN users' |-> users'[v]] /\ DOMAIN users' = DOMAIN users \union {u}
        /\ \A v \in DOMAIN users' : users'[v] = IF v = u THEN Account(role, status) ELSE users[v]
    BY DEF Put
  <1>3. QED
    BY <1>1, <1>2 DEF SameUsers, PeopleInv

LEMMA MemberEdited ==
  ASSUME PeopleInv, NEW u, NEW row, members' = [members EXCEPT ![u] = row],
         u \in DOMAIN members => /\ DOMAIN row = ProfileFields /\ row.pid = members[u].pid
                                /\ row.aadhaar = members[u].aadhaar
  PROVE  SameMembers
  <1>1. DOMAIN members' = DOMAIN members /\ members' = [v \in DOMAIN members' |-> members'[v]]
    BY DEF PeopleInv
  <1>2. \A v \in DOMAIN members : members'[v] = IF v = u THEN row ELSE members[v]
    BY DEF PeopleInv
  <1>3. \A v \in DOMAIN members : /\ members'[v].pid = members[v].pid
                                 /\ members'[v].aadhaar = members[v].aadhaar
                                 /\ DOMAIN members'[v] = ProfileFields
    BY <1>2 DEF PeopleInv
  <1>4. OwnIds'
    BY <1>1, <1>3 DEF PeopleInv, OwnIds
  <1>5. \A v \in DOMAIN members : Drawn(v)'
    BY <1>3 DEF PeopleInv, Drawn
  <1>6. QED
    BY <1>1, <1>3, <1>4, <1>5 DEF SameMembers, PeopleInv

\* A profile comes with the id that its call has drawn for it, and with an
\* Aadhaar number that nobody has, or none.
Newcomer(c, u, row) ==
    /\ u \notin DOMAIN members /\ DOMAIN row = ProfileFields /\ row.pid = <<c, u>>
    /\ row.aadhaar = None \/ \A v \in DOMAIN members : members[v].aadhaar # row.aadhaar

LEMMA OwnIdsCome ==
  ASSUME PeopleInv, NEW c \in Calls, NEW u, NEW row, Newcomer(c, u, row),
         members' = Put(members, u, row)
  PROVE  /\ members' = [v \in DOMAIN members' |-> members'[v]]
         /\ DOMAIN members' = DOMAIN members \union {u}
         /\ \A v \in DOMAIN members' : members'[v] = IF v = u THEN row ELSE members[v]
         /\ OwnIds' /\ \A v \in DOMAIN members' : Drawn(v)'
  <1>1. /\ members' = [v \in DOMAIN members' |-> members'[v]]
        /\ DOMAIN members' = DOMAIN members \union {u}
        /\ \A v \in DOMAIN members' : members'[v] = IF v = u THEN row ELSE members[v]
    BY DEF Put
  <1>2. row.pid = <<c, u>> /\ row.pid[1] = c /\ row.pid[2] = u
    BY DEF Newcomer
  <1>3. \A v \in DOMAIN members : v # u /\ members[v].pid # row.pid
    BY <1>2 DEF PeopleInv, Drawn, Newcomer
  <1>4. \A v \in DOMAIN members : row.aadhaar = None \/ members[v].aadhaar # row.aadhaar
    BY DEF Newcomer
  <1>5. \A v \in DOMAIN members' : Drawn(v)'
    BY <1>1, <1>2 DEF PeopleInv, Drawn
  <1>6. ASSUME NEW v \in DOMAIN members', NEW x \in DOMAIN members', v # x
        PROVE  /\ members'[v].pid # members'[x].pid
               /\ members'[v].aadhaar = None \/ members'[v].aadhaar # members'[x].aadhaar
    <2>1. CASE v = u
      BY <1>1, <1>3, <1>4, <1>6, <2>1
    <2>2. CASE x = u
      <3>1. v \in DOMAIN members /\ members'[v] = members[v] /\ members'[x] = row
        BY <1>1, <1>6, <2>2
      <3>2. QED
        BY <1>3, <1>4, <3>1
    <2>3. CASE v # u /\ x # u
      BY <1>1, <1>6, <2>3 DEF PeopleInv, OwnIds
    <2>4. QED
      BY <2>1, <2>2, <2>3
  <1>7. OwnIds'
    BY <1>6 DEF OwnIds
  <1>8. QED
    BY <1>1, <1>5, <1>7

LEMMA MemberAdded ==
  ASSUME PeopleInv, NEW c \in Calls, NEW u \in DOMAIN users, NEW row, Newcomer(c, u, row),
         members' = Put(members, u, row)
  PROVE  SameMembers
  <1>1. DOMAIN row = ProfileFields /\ u \notin DOMAIN members
    BY DEF Newcomer
  <1>2. /\ members' = [v \in DOMAIN members' |-> members'[v]]
        /\ DOMAIN members' = DOMAIN members \union {u}
        /\ \A v \in DOMAIN members' : members'[v] = IF v = u THEN row ELSE members[v]
        /\ OwnIds' /\ \A v \in DOMAIN members' : Drawn(v)'
    BY OwnIdsCome
  <1>3. \A v \in DOMAIN members' : v \in DOMAIN users /\ DOMAIN members'[v] = ProfileFields
    BY <1>1, <1>2 DEF PeopleInv
  <1>4. QED
    BY <1>1, <1>2, <1>3 DEF SameMembers

\* An account and its profile come together, with one public id.
LEMMA PairComes ==
  ASSUME PeopleInv, UNCHANGED staff, NEW c \in Calls, NEW u, NEW account, NEW profile,
         NewPair(u, account, profile), Newcomer(c, u, profile),
         DOMAIN account = AccountFields, account.fails \in Fails, account.pid = <<c, u>>
  PROVE  PeopleInv' /\ Growth
  <1>1. /\ users' = [v \in DOMAIN users' |-> users'[v]] /\ DOMAIN users' = DOMAIN users \union {u}
        /\ \A v \in DOMAIN users' : users'[v] = IF v = u THEN account ELSE users[v]
    BY DEF NewPair, Put
  <1>2. /\ members' = [v \in DOMAIN members' |-> members'[v]]
        /\ DOMAIN members' = DOMAIN members \union {u}
        /\ \A v \in DOMAIN members' : members'[v] = IF v = u THEN profile ELSE members[v]
        /\ OwnIds' /\ \A v \in DOMAIN members' : Drawn(v)'
    BY OwnIdsCome DEF NewPair
  <1>3. DOMAIN profile = ProfileFields /\ profile.pid = <<c, u>>
    BY DEF Newcomer
  <1>4. ASSUME NEW v \in DOMAIN users', users'[v].pid # None, v \notin DOMAIN staff'
        PROVE  v \in DOMAIN members' /\ members'[v].pid = users'[v].pid
    <2>1. CASE v = u
      BY <1>1, <1>2, <1>3, <2>1
    <2>2. CASE v # u
      BY <1>1, <1>2, <1>4, <2>2 DEF PeopleInv, ProfileMatchesAccount
    <2>3. QED
      BY <2>1, <2>2
  <1>5. \A v \in DOMAIN users' : DOMAIN users'[v] = AccountFields /\ users'[v].fails \in Fails
    BY <1>1 DEF PeopleInv
  <1>6. \A v \in DOMAIN members' : v \in DOMAIN users' /\ DOMAIN members'[v] = ProfileFields
    BY <1>1, <1>2, <1>3 DEF PeopleInv
  <1>7. ProfileMatchesAccount'
    BY <1>4 DEF ProfileMatchesAccount
  <1>8. QED
    BY <1>1, <1>2, <1>5, <1>6, <1>7 DEF PeopleInv, Growth

LEMMA EntryPeople ==
  ASSUME PeopleInv, NEW c, FoundAccount(c), Entry(c), UNCHANGED <<adminVars, memberVars>>
  PROVE  PeopleInv' /\ Growth
  <1>1. UNCHANGED <<members, staff>>
    BY DEF adminVars, memberVars
  <1>2. SUFFICES SameUsers
    BY <1>1, SamePeople, MembersKept
  <1>3. CASE UNCHANGED users
    BY <1>3, UsersKept
  <1>4. CASE SignUp(c)
    BY <1>3, <1>4, UserAdded DEF SignUp
  <1>5. CASE Op(c) \in {"password", "emailPassword"} /\ WrongPassword(c)
    <2> DEFINE n == saw[c].fails + 1
    <2>1. PICK a, b : /\ users' = [users EXCEPT ![U(c)].fails = a, ![U(c)].locked = b]
                      /\ a = IF n >= LOCK_AT THEN 0 ELSE n
      BY <1>5 DEF WrongPassword
    <2>2. a \in Fails
      <3>1. saw[c].fails \in Fails
        BY <1>5 DEF WrongPassword, Move, FoundAccount
      <3>2. QED
        BY <2>1, <3>1, AccountAssumption DEF Fails
    <2> DEFINE row == [users[U(c)] EXCEPT !.fails = a, !.locked = b]
    <2>3. users' = [users EXCEPT ![U(c)] = row]
      BY <2>1
    <2>4. U(c) \in DOMAIN users => /\ DOMAIN row = AccountFields /\ row.fails \in Fails
                                  /\ row.pid = users[U(c)].pid
      BY <2>2 DEF PeopleInv, AccountFields
    <2> HIDE DEF row
    <2>5. QED
      BY <2>3, <2>4, UserEdited
  <1>6. CASE LastLogin(c)
    <2> DEFINE row == [users[U(c)] EXCEPT !.fails = 0, !.locked = FALSE]
    <2>1. users' = users \/ users' = [users EXCEPT ![U(c)].fails = 0, ![U(c)].locked = FALSE]
      BY <1>6 DEF LastLogin
    <2>2. users' = users \/ users' = [users EXCEPT ![U(c)] = row]
      BY <2>1
    <2>3. 0 \in Fails
      BY AccountAssumption DEF Fails
    <2>4. U(c) \in DOMAIN users => /\ DOMAIN row = AccountFields /\ row.fails \in Fails
                                  /\ row.pid = users[U(c)].pid
      BY <2>3 DEF PeopleInv, AccountFields
    <2> HIDE DEF row
    <2>5. QED
      BY <1>3, <2>2, <2>4, UserEdited
  <1>7. CASE PasswordWrite(c)
    <2> DEFINE row == IF Op(c) = "otp"
                      THEN [users[U(c)] EXCEPT !.pw = sent[c].pw, !.fails = 0, !.locked = FALSE]
                      ELSE [users[U(c)] EXCEPT !.pw = sent[c].pw]
    <2>1. users' = [users EXCEPT ![U(c)] = row]
      BY <1>7 DEF PasswordWrite
    <2>2. 0 \in Fails
      BY AccountAssumption DEF Fails
    <2>3. U(c) \in DOMAIN users => /\ DOMAIN row = AccountFields /\ row.fails \in Fails
                                  /\ row.pid = users[U(c)].pid
      BY <2>2 DEF PeopleInv, AccountFields
    <2> HIDE DEF row
    <2>4. QED
      BY <2>1, <2>3, UserEdited
  <1> USE DEF accountVars
  <1>8. CASE CodeRequest(c) \/ CodeSend(c) \/ EmailCodeSend(c) \/ CodeCheck(c) \/ EmailCodeRead(c)
    BY <1>3, <1>8 DEF CodeRequest, CodeSend, EmailCodeSend, CodeCheck, CodeTries, CodeRead, CodeMiss,
                      CodeBurn, EmailCodeRead
  <1>9. CASE CodeBurn(c) \/ OtpUser(c) \/ EmailUser(c) \/ PasswordUser(c) \/ LogFailure(c)
    BY <1>3, <1>9 DEF CodeBurn, OtpUser, EmailUser, PasswordUser, LogFailure
  <1>10. CASE FlagSuspicious(c) \/ IssueTokens(c) \/ RefreshRead(c) \/ Logout(c)
    BY <1>3, <1>10 DEF FlagSuspicious, IssueTokens, RefreshRead, Logout
  <1>11. CASE AccountEnters(c) \/ PasswordChange(c)
    BY <1>3, <1>11 DEF AccountEnters, PasswordChange
  <1>12. QED
    BY <1>4, <1>5, <1>6, <1>7, <1>8, <1>9, <1>10, <1>11 DEF Entry, AccountStep, SignIn

LEMMA AdminPeople ==
  ASSUME PeopleInv, NEW c, AdminStep(c), UNCHANGED memberVars
  PROVE  PeopleInv' /\ Growth
  <1>1. UNCHANGED members
    BY DEF memberVars
  <1>2. ASSUME SameUsers, UNCHANGED staff
        PROVE  PeopleInv' /\ Growth
    BY <1>1, <1>2, SamePeople, MembersKept
  <1>3. CASE UNCHANGED users /\ UNCHANGED staff
    BY <1>2, <1>3, UsersKept
  <1>4. CASE CreateAdminWrite(c)
    <2>1. UNCHANGED staff
      BY <1>4 DEF CreateAdminWrite
    <2>2. UNCHANGED users \/ users' = Put(users, U(c), Account(sent[c].role, "ACTIVE"))
      BY <1>4 DEF CreateAdminWrite
    <2>3. QED
      BY <1>2, <2>1, <2>2, UsersKept, UserAdded
  <1>5. CASE AdminWrite(c)
    <2> DEFINE row == IF Op(c) = "adminStatus" THEN [users[U(c)] EXCEPT !.status = sent[c].status]
                      ELSE IF Op(c) = "adminEdit" THEN [users[U(c)] EXCEPT !.pw = sent[c].pw]
                      ELSE users[U(c)]
    <2>1. users' = [users EXCEPT ![U(c)] = row] /\ UNCHANGED staff
      BY <1>5 DEF AdminWrite
    <2>2. U(c) \in DOMAIN users => /\ DOMAIN row = AccountFields /\ row.fails \in Fails
                               /\ row.pid = users[U(c)].pid
      BY DEF PeopleInv, AccountFields
    <2>3. QED
      BY <1>2, <2>1, <2>2, UserEdited
  <1>6. CASE DeleteAdmin(c)
    <2> DEFINE row == [users[U(c)] EXCEPT !.status = "DELETED"]
    <2>1. UNCHANGED staff
      BY <1>6 DEF DeleteAdmin, adminVars
    <2>2. UNCHANGED users \/ users' = [users EXCEPT ![U(c)].status = "DELETED"]
      BY <1>6 DEF DeleteAdmin
    <2>3. UNCHANGED users \/ users' = [users EXCEPT ![U(c)] = row]
      BY <2>2
    <2>4. U(c) \in DOMAIN users => /\ DOMAIN row = AccountFields /\ row.fails \in Fails
                               /\ row.pid = users[U(c)].pid
      BY DEF PeopleInv, AccountFields
    <2>5. QED
      BY <1>2, <2>1, <2>3, <2>4, UserEdited, UsersKept
  <1> USE DEF accountVars, adminVars
  <1>7. CASE CreateAdminCheck(c) \/ ScopeGrants(c) \/ Credentials(c)
    BY <1>3, <1>7 DEF CreateAdminCheck, ScopeGrants, Credentials
  <1>8. CASE GrantCheck(c) \/ GrantDrop(c) \/ GrantWrite(c)
    BY <1>3, <1>8 DEF GrantCheck, GrantDrop, GrantWrite
  <1>9. CASE AdminEnters(c) \/ AdminRead(c) \/ MyModules(c) \/ ListOrgAdmins(c)
    BY <1>3, <1>9 DEF AdminEnters, AdminRead, MyModules, ListOrgAdmins
  <1>10. QED
    BY <1>4, <1>5, <1>6, <1>7, <1>8, <1>9 DEF AdminStep

\* A registration is one transaction: both rows are written, with one id, when
\* the account is what it was found to be and there is no profile yet.
LEMMA RegisterPair ==
  ASSUME PeopleInv, NEW c
  PROVE  /\ DOMAIN RegisteredAs(c) = AccountFields /\ RegisteredAs(c).pid = <<c, U(c)>>
         /\ RegisteredAs(c).fails \in Fails
         /\ RegisterFits(c) => Newcomer(c, U(c), Registered(c))
  <1> DEFINE was == IF Known(c) THEN users[U(c)] ELSE Account("MEMBER", "ACTIVE")
  <1>1. DOMAIN was = AccountFields /\ was.fails \in Fails
    BY AccountAssumption DEF Known, PeopleInv, Account, AccountFields, Fails
  <1>2. RegisteredAs(c) = [was EXCEPT !.pid = <<c, U(c)>>, !.status = "ACTIVE",
                                      !.role = RoleOf(sent[c].category)]
    BY DEF RegisteredAs
  <1> HIDE DEF was
  <1>3. /\ DOMAIN RegisteredAs(c) = AccountFields /\ RegisteredAs(c).pid = <<c, U(c)>>
        /\ RegisteredAs(c).fails \in Fails
    BY <1>1, <1>2 DEF AccountFields
  <1>4. /\ DOMAIN Registered(c) = ProfileFields /\ Registered(c).pid = <<c, U(c)>>
        /\ Registered(c).aadhaar = sent[c].aadhaar
    BY DEF Registered, Profile, ProfileFields
  <1> HIDE DEF Registered
  <1>5. RegisterFits(c) => Newcomer(c, U(c), Registered(c))
    BY <1>4 DEF RegisterFits, AadhaarTaken, IsMember, Newcomer
  <1>6. QED
    BY <1>3, <1>5

\* A profile without a public id of its account: the account has none, or is
\* one of the staff.
LEMMA StubPeople ==
  ASSUME PeopleInv, NEW c \in Calls, By(c) \in DOMAIN users, NEW category, NEW next,
         StubWrite(c, category, next)
  PROVE  PeopleInv' /\ Growth
  <1>1. UNCHANGED <<users, staff>>
    BY DEF StubWrite, accountVars, adminVars
  <1>2. \/ UNCHANGED members
        \/ /\ By(c) \notin DOMAIN members
           /\ members' = Put(members, By(c), Profile(<<c, By(c)>>, category, "ACTIVE", FALSE))
    BY DEF StubWrite, IsMember
  <1> DEFINE row == Profile(<<c, By(c)>>, category, "ACTIVE", FALSE)
  <1>3. By(c) \notin DOMAIN members => Newcomer(c, By(c), row)
    BY DEF Newcomer, Profile, ProfileFields
  <1> HIDE DEF row
  <1>4. SameMembers
    <2>1. UNCHANGED members \/ (By(c) \notin DOMAIN members /\ members' = Put(members, By(c), row))
      BY <1>2 DEF row
    <2>2. QED
      BY <1>3, <2>1, MembersKept, MemberAdded
  <1>5. QED
    BY <1>1, <1>4, SamePeople, UsersKept

LEMMA MemberSeeded ==
  ASSUME PeopleInv, NEW c, NEW u, NEW next, Seed(c, u, next)
  PROVE  PeopleInv' /\ Growth
  <1> DEFINE row == [members[u] EXCEPT !.seeded = TRUE]
  <1>1. UNCHANGED <<users, staff>> /\ members' = [members EXCEPT ![u].seeded = TRUE]
    BY DEF Seed, accountVars, adminVars
  <1>2. members' = [members EXCEPT ![u] = row]
    BY <1>1
  <1>3. u \in DOMAIN members => /\ DOMAIN row = ProfileFields /\ row.pid = members[u].pid
                              /\ row.aadhaar = members[u].aadhaar
    BY DEF PeopleInv, ProfileFields
  <1>4. QED
    BY <1>1, <1>2, <1>3, MemberEdited, SamePeople, UsersKept

LEMMA FamilyPeople ==
  ASSUME PeopleInv, NEW c \in Calls, FamilyLoop(c)
  PROVE  PeopleInv' /\ Growth
  <1>1. ASSUME UNCHANGED People
        PROVE  PeopleInv' /\ Growth
    BY <1>1, SamePeople, UsersKept, MembersKept DEF People
  <1>2. CASE PairWrite(c)
    <2>1. UNCHANGED staff
      BY <1>2 DEF PairWrite, adminVars
    <2>2. \/ UNCHANGED <<users, members>>
          \/ /\ saw[c].u \notin DOMAIN users
             /\ \E kind : NewPair(saw[c].u, WithPid(RoleOf(kind), "PENDING_OTP", <<c, saw[c].u>>),
                                  Profile(<<c, saw[c].u>>, kind, "INACTIVE", TRUE))
      BY <1>2 DEF PairWrite
    <2>3. ASSUME NEW kind, saw[c].u \notin DOMAIN users,
                 NewPair(saw[c].u, WithPid(RoleOf(kind), "PENDING_OTP", <<c, saw[c].u>>),
                         Profile(<<c, saw[c].u>>, kind, "INACTIVE", TRUE))
          PROVE  PeopleInv' /\ Growth
      <3> DEFINE account == WithPid(RoleOf(kind), "PENDING_OTP", <<c, saw[c].u>>)
                 profile == Profile(<<c, saw[c].u>>, kind, "INACTIVE", TRUE)
      <3>1. DOMAIN account = AccountFields /\ account.pid = <<c, saw[c].u>> /\ account.fails \in Fails
        BY AccountAssumption DEF WithPid, Account, AccountFields, Fails
      <3>2. Newcomer(c, saw[c].u, profile)
        BY <2>3 DEF Profile, ProfileFields, Newcomer, PeopleInv
      <3>3. NewPair(saw[c].u, account, profile)
        BY <2>3
      <3> HIDE DEF account, profile
      <3>4. QED
        BY <2>1, <3>1, <3>2, <3>3, PairComes
    <2>4. QED
      BY <1>1, <2>1, <2>2, <2>3 DEF People
  <1>3. CASE PairSeed(c)
    BY <1>3, MemberSeeded DEF PairSeed
  <1>4. CASE NextRelative(c) \/ LinkWrite(c) \/ Invite(c)
    BY <1>1, <1>4 DEF NextRelative, LinkWrite, Invite, accountVars, adminVars, memberVars, People
  <1>5. QED
    BY <1>2, <1>3, <1>4 DEF FamilyLoop

\* An Aadhaar number that nobody else has is written.
LEMMA AadhaarWritten ==
  ASSUME PeopleInv, NEW c, ~AadhaarTaken(c),
         members' = [members EXCEPT ![U(c)].aadhaar = sent[c].aadhaar]
  PROVE  SameMembers
  <1> DEFINE row == [members[U(c)] EXCEPT !.aadhaar = sent[c].aadhaar]
  <1>1. members' = [members EXCEPT ![U(c)] = row]
    OBVIOUS
  <1>2. U(c) \in DOMAIN members => /\ DOMAIN row = ProfileFields /\ row.pid = members[U(c)].pid
                                  /\ row.aadhaar = sent[c].aadhaar
    BY DEF PeopleInv, ProfileFields
  <1> HIDE DEF row
  <1>3. /\ DOMAIN members' = DOMAIN members /\ members' = [v \in DOMAIN members' |-> members'[v]]
        /\ \A v \in DOMAIN members : members'[v] = IF v = U(c) THEN row ELSE members[v]
    BY <1>1 DEF PeopleInv
  <1>4. \A v \in DOMAIN members : /\ members'[v].pid = members[v].pid
                                 /\ DOMAIN members'[v] = ProfileFields
                                 /\ members'[v].aadhaar = IF v = U(c) THEN sent[c].aadhaar ELSE members[v].aadhaar
    BY <1>2, <1>3 DEF PeopleInv
  <1>5. OwnIds'
    BY <1>3, <1>4 DEF PeopleInv, OwnIds, AadhaarTaken
  <1>6. \A v \in DOMAIN members : Drawn(v)'
    BY <1>4 DEF PeopleInv, Drawn
  <1>7. QED
    BY <1>3, <1>4, <1>5, <1>6 DEF SameMembers, PeopleInv

LEMMA MemberPeople ==
  ASSUME PeopleInv, NEW c \in Calls, FoundMember(c), MemberStep(c)
  PROVE  PeopleInv' /\ Growth
  <1>1. ASSUME UNCHANGED People
        PROVE  PeopleInv' /\ Growth
    BY <1>1, SamePeople, UsersKept, MembersKept DEF People
  <1>2. CASE RegisterWrite(c)
    <2>1. UNCHANGED staff
      BY <1>2 DEF RegisterWrite, adminVars
    <2>2. \/ UNCHANGED <<users, members>>
          \/ RegisterFits(c) /\ NewPair(U(c), RegisteredAs(c), Registered(c))
      BY <1>2 DEF RegisterWrite
    <2>3. QED
      BY <1>1, <2>1, <2>2, RegisterPair, PairComes DEF People
  <1>3. CASE AdminCreateWrite(c)
    <2>1. PICK status, state :
              \/ UNCHANGED <<users, members>>
              \/ /\ ~Known(c) /\ ~AadhaarTaken(c)
                 /\ NewPair(U(c), WithPid(RoleOf(sent[c].category), status, <<c, U(c)>>),
                            [Profile(<<c, U(c)>>, sent[c].category, state, FALSE)
                                EXCEPT !.aadhaar = sent[c].aadhaar, !.by = By(c)])
      BY <1>3 DEF AdminCreateWrite
    <2>2. UNCHANGED staff
      BY <1>3 DEF AdminCreateWrite, adminVars
    <2> DEFINE account == WithPid(RoleOf(sent[c].category), status, <<c, U(c)>>)
               profile == [Profile(<<c, U(c)>>, sent[c].category, state, FALSE)
                              EXCEPT !.aadhaar = sent[c].aadhaar, !.by = By(c)]
    <2>3. DOMAIN account = AccountFields /\ account.pid = <<c, U(c)>> /\ account.fails \in Fails
      BY AccountAssumption DEF WithPid, Account, AccountFields, Fails
    <2>4. DOMAIN profile = ProfileFields /\ profile.pid = <<c, U(c)>> /\ profile.aadhaar = sent[c].aadhaar
      BY DEF Profile, ProfileFields
    <2>5. \/ UNCHANGED <<users, members>>
          \/ ~Known(c) /\ ~AadhaarTaken(c) /\ NewPair(U(c), account, profile)
      BY <2>1
    <2> HIDE DEF account, profile
    <2>6. ~Known(c) /\ ~AadhaarTaken(c) => Newcomer(c, U(c), profile)
      BY <2>4 DEF Known, AadhaarTaken, Newcomer, PeopleInv
    <2>7. QED
      BY <1>1, <2>2, <2>3, <2>5, <2>6, PairComes DEF People
  <1>4. CASE Seed(c, U(c), "issue")
    BY <1>4, MemberSeeded
  <1>5. ASSUME NEW x, NEW y, StubWrite(c, x, y),
               Op(c) \in {"init", "profile", "adminProfile", "relative"}
        PROVE  PeopleInv' /\ Growth
    <2>1. By(c) \in DOMAIN users
      BY <1>5 DEF FoundMember, FoundStub, StubWrite, Move
    <2>2. QED
      BY <1>5, <2>1, StubPeople
  <1>6. CASE InitRole(c)
    <2> DEFINE row == [users[By(c)] EXCEPT !.role = "NON_JAIN_MEMBER"]
    <2>1. UNCHANGED <<members, staff>>
      BY <1>6 DEF InitRole, adminVars, memberVars
    <2>2. UNCHANGED users \/ users' = [users EXCEPT ![By(c)].role = "NON_JAIN_MEMBER"]
      BY <1>6 DEF InitRole
    <2>3. UNCHANGED users \/ users' = [users EXCEPT ![By(c)] = row]
      BY <2>2
    <2>4. By(c) \in DOMAIN users => /\ DOMAIN row = AccountFields /\ row.fails \in Fails
                                /\ row.pid = users[By(c)].pid
      BY DEF PeopleInv, AccountFields
    <2>5. SameUsers
      BY <2>3, <2>4, UserEdited, UsersKept
    <2>6. QED
      BY <2>1, <2>5, SamePeople, MembersKept
  <1>7. CASE ProfileWrite(c)
    <2>1. UNCHANGED <<users, staff>>
      BY <1>7 DEF ProfileWrite, accountVars, adminVars
    <2>2. \/ UNCHANGED members
          \/ ~AadhaarTaken(c) /\ members' = [members EXCEPT ![U(c)].aadhaar = sent[c].aadhaar]
      BY <1>7 DEF ProfileWrite
    <2>3. QED
      BY <2>1, <2>2, AadhaarWritten, SamePeople, UsersKept, MembersKept
  <1>8. CASE MemberWrite(c)
    <2> DEFINE row == IF Op(c) = "memberStatus" THEN [members[U(c)] EXCEPT !.status = sent[c].status]
                      ELSE IF Op(c) = "deleteMember" THEN [members[U(c)] EXCEPT !.gone = TRUE]
                      ELSE [members[U(c)] EXCEPT !.context = IF sent[c].context = None
                                                             THEN saw[c].context ELSE sent[c].context]
    <2>1. UNCHANGED <<users, staff>>
      BY <1>8 DEF MemberWrite, accountVars, adminVars
    <2>2. members' = [members EXCEPT ![U(c)] = row]
      BY <1>8 DEF MemberWrite
    <2>3. U(c) \in DOMAIN members => /\ DOMAIN row = ProfileFields /\ row.pid = members[U(c)].pid
                                 /\ row.aadhaar = members[U(c)].aadhaar
      BY DEF PeopleInv, ProfileFields
    <2>4. QED
      BY <2>1, <2>2, <2>3, SamePeople, UsersKept, MemberEdited
  <1>9. CASE FamilyLoop(c)
    BY <1>9, FamilyPeople
  <1> USE DEF accountVars, adminVars, memberVars, People
  <1>10. CASE RegisterCheck(c) \/ ProfileEnters(c) \/ ProfileCheck(c) \/ SyncClear(c)
    BY <1>1, <1>10 DEF RegisterCheck, ProfileEnters, ProfileCheck, SyncClear
  <1>11. ASSUME NEW x, NEW y, StubRead(c, x, y)
         PROVE  PeopleInv' /\ Growth
    BY <1>1, <1>11 DEF StubRead
  <1>12. CASE RelativeEnters(c) \/ RelativeFind(c) \/ LinkFind(c) \/ LinkJoin(c) \/ LinkNotify(c)
    BY <1>1, <1>12 DEF RelativeEnters, RelativeFind, LinkFind, LinkJoin, LinkNotify
  <1>13. CASE Unlink(c) \/ ImportEnters(c) \/ AdminCreateCheck(c) \/ AdminCreateTell(c)
    BY <1>1, <1>13 DEF Unlink, ImportEnters, AdminCreateCheck, AdminCreateTell
  <1>14. CASE MemberRead(c) \/ ListMembers(c)
    BY <1>1, <1>14 DEF MemberRead, ListMembers
  <1>15. QED
    BY <1>2, <1>3, <1>4, <1>5, <1>6, <1>7, <1>8, <1>9, <1>10, <1>11, <1>12, <1>13, <1>14 DEF MemberStep

\* Only a hire gives an account a number that is not its profile's, and that
\* account is one of the staff from the same transaction on.
LEMMA HirePeople ==
  ASSUME PeopleInv, NEW c, StaffHire(c)
  PROVE  PeopleInv' /\ Growth
  <1> DEFINE row == [users[U(c)] EXCEPT !.role = "STAFF", !.pid = <<"JFST", saw[c].n>>]
  <1>1. UNCHANGED members
    BY DEF StaffHire
  <1>2. \/ UNCHANGED <<users, staff>>
        \/ /\ \E v : staff' = Put(staff, U(c), v)
           /\ users' = [users EXCEPT ![U(c)].role = "STAFF", ![U(c)].pid = <<"JFST", saw[c].n>>]
    BY DEF StaffHire
  <1>3. CASE UNCHANGED <<users, staff>>
    BY <1>1, <1>3, SamePeople, UsersKept, MembersKept
  <1>4. CASE /\ \E v : staff' = Put(staff, U(c), v)
             /\ users' = [users EXCEPT ![U(c)].role = "STAFF", ![U(c)].pid = <<"JFST", saw[c].n>>]
    <2>1. DOMAIN staff' = DOMAIN staff \union {U(c)}
      BY <1>4 DEF Put
    <2>2. users' = [users EXCEPT ![U(c)] = row]
      BY <1>4
    <2>3. U(c) \in DOMAIN users => DOMAIN row = AccountFields /\ row.fails \in Fails
      BY DEF PeopleInv, AccountFields
    <2>4. /\ DOMAIN users' = DOMAIN users /\ users' = [v \in DOMAIN users' |-> users'[v]]
          /\ \A v \in DOMAIN users : users'[v] = IF v = U(c) THEN row ELSE users[v]
      BY <2>2 DEF PeopleInv
    <2> HIDE DEF row
    <2>5. ProfileMatchesAccount'
      BY <1>1, <2>1, <2>4 DEF PeopleInv, ProfileMatchesAccount
    <2>6. OwnIds' /\ \A v \in DOMAIN members : Drawn(v)'
      BY <1>1 DEF PeopleInv, OwnIds, Drawn
    <2>7. QED
      BY <1>1, <2>1, <2>3, <2>4, <2>5, <2>6 DEF PeopleInv, Growth
  <1>5. QED
    BY <1>2, <1>3, <1>4

LEMMA StaffPeople ==
  ASSUME PeopleInv, NEW c \in Calls, StaffStep(c)
  PROVE  PeopleInv' /\ Growth
  <1>1. ASSUME UNCHANGED <<users, members>>, DOMAIN staff \subseteq DOMAIN staff'
        PROVE  PeopleInv' /\ Growth
    BY <1>1, SamePeople, UsersKept, MembersKept
  <1>2. CASE StaffMember(c)
    <2> DEFINE account == WithPid("STAFF", "PENDING_OTP", <<c, U(c)>>)
               profile == Profile(<<c, U(c)>>, sent[c].category, "INACTIVE", TRUE)
    <2>1. /\ UNCHANGED staff
          /\ UNCHANGED <<users, members>> \/ (~Known(c) /\ NewPair(U(c), account, profile))
      BY <1>2 DEF StaffMember
    <2>2. DOMAIN account = AccountFields /\ account.pid = <<c, U(c)>> /\ account.fails \in Fails
      BY AccountAssumption DEF WithPid, Account, AccountFields, Fails
    <2>3. ~Known(c) => Newcomer(c, U(c), profile)
      BY DEF Known, Profile, ProfileFields, Newcomer, PeopleInv
    <2> HIDE DEF account, profile
    <2>4. QED
      BY <1>1, <2>1, <2>2, <2>3, PairComes
  <1>3. CASE StaffHire(c)
    BY <1>3, HirePeople
  <1> USE DEF accountVars, adminVars, memberVars
  <1>4. CASE StaffCheck(c) \/ StaffNumber(c) \/ StaffTell(c)
    BY <1>1, <1>4 DEF StaffCheck, StaffNumber, StaffTell
  <1>5. CASE RegrantCheck(c) \/ RegrantClear(c) \/ RegrantWrite(c)
    BY <1>1, <1>5 DEF RegrantCheck, RegrantClear, RegrantWrite
  <1>6. CASE ShiftRead(c) \/ ShiftWrite(c) \/ Leave(c) \/ PaperRead(c) \/ PaperWrite(c)
    BY <1>1, <1>6 DEF ShiftRead, ShiftWrite, Leave, PaperRead, PaperWrite
  <1>7. QED
    BY <1>2, <1>3, <1>4, <1>5, <1>6 DEF StaffStep

LEMMA PeopleStepInv ==
  ASSUME RequestInv, PeopleInv, FoundInv, [Next]_vars
  PROVE  PeopleInv' /\ Growth
  <1>1. ASSUME UNCHANGED People
        PROVE  PeopleInv' /\ Growth
    BY <1>1, SamePeople, UsersKept, MembersKept DEF People
  <1>2. ASSUME NEW c, SiteStep(c) \/ MonkStep(c) \/ OfficeStep(c)
        PROVE  PeopleInv' /\ Growth
    BY <1>1, <1>2, SiteGoes, MonkGoes, OfficeGoes
  <1>3. ASSUME NEW c, ViharStep(c) \/ WatchStep(c), UNCHANGED memberVars
        PROVE  PeopleInv' /\ Growth
    BY <1>1, <1>3, ViharGoes, WatchGoes DEF memberVars, People
  <1>4. CASE CallStep
    <2>1. \A c \in Busy : c \in Calls /\ FoundAccount(c) /\ FoundMember(c)
      BY DEF Busy, RequestInv, FoundInv
    <2>2. QED
      BY <1>2, <1>3, <1>4, <2>1, EntryPeople, AdminPeople, MemberPeople, StaffPeople DEF CallStep
  <1>5. CASE Elsewhere
    <2>1. CASE LockLapses /\ UNCHANGED <<adminVars, memberVars>>
      <3>1. PICK u \in DOMAIN users : users' = [users EXCEPT ![u].locked = FALSE]
        BY <2>1 DEF LockLapses
      <3> DEFINE row == [users[u] EXCEPT !.locked = FALSE]
      <3>2. users' = [users EXCEPT ![u] = row]
        BY <3>1
      <3>3. DOMAIN row = AccountFields /\ row.fails \in Fails /\ row.pid = users[u].pid
        BY DEF PeopleInv, AccountFields
      <3>4. UNCHANGED <<members, staff>>
        BY <2>1 DEF adminVars, memberVars
      <3>5. QED
        BY <3>2, <3>3, <3>4, UserEdited, SamePeople, MembersKept
    <2>2. CASE UNCHANGED People
      BY <1>1, <2>2
    <2>3. QED
      BY <1>5, <2>1, <2>2 DEF Elsewhere, CodeLapses, FallsSilent, StaffSweep, people, accountVars,
                             adminVars, memberVars, People
  <1>6. CASE UNCHANGED vars
    BY <1>1, <1>6 DEF vars, accountVars, adminVars, memberVars, People
  <1>7. QED
    BY <1>4, <1>5, <1>6 DEF Next
-----------------------------------------------------------------------------
(* What was found stays found *)

\* The operations of each part, as their steps have them.
AccountOps == {"code", "emailCode", "otp", "emailOtp", "google", "password", "emailPassword", "refresh",
               "logout", "setPassword", "changePassword", "register"}
AdministratorOps == {"createAdmin", "deleteAdmin", "myModules", "orgAdmins"} \union AdminOps
MemberOps == {"register", "init", "profile", "adminProfile", "relative", "link", "unlink", "import",
              "adminCreate", "memberStatus", "deleteMember", "switch", "listMembers"}
StaffOps == {"staff", "regrant", "checkIn", "checkOut", "manual", "leave", "decideLeave", "paper"}

\* The form of one's own profile is one's own; an administrator is granted
\* what can be granted.
FormsInv ==
    \A c \in Come : /\ Op(c) = "profile" => U(c) = By(c)
                    /\ Op(c) = "createAdmin" => sent[c].actions \subseteq Grantable

\* Where c goes, and with what.
LEMMA Moved ==
  ASSUME RequestInv, NEW c \in Come
  PROVE  /\ \A from, to : Move(c, from, to) => pc[c] = from /\ pc'[c] = to
         /\ \A to : Goto(c, to) => pc'[c] = to
         /\ \A v : Keep(c, v) => saw'[c] = v
         /\ Forget => saw'[c] = saw[c]
         /\ \A next : Authenticate(c, next) => pc[c] = "start" /\ pc'[c] = IF Enters(c) THEN next ELSE "refused"
         /\ \A org, m, a, next : Permit(c, org, m, a, next) => pc[c] = "start" /\ pc'[c] \in {next, "refused"}
  <1>1. \A to : Goto(c, to) => pc'[c] = to
    BY DEF Goto, RequestInv
  <1>2. \A from, to : Move(c, from, to) => pc[c] = from /\ pc'[c] = to
    BY <1>1 DEF Move
  <1>3. \A v : Keep(c, v) => saw'[c] = v
    BY DEF Keep, RequestInv
  <1>4. Forget => saw'[c] = saw[c]
    BY DEF Forget
  <1>5. \A next : Authenticate(c, next) => pc[c] = "start" /\ pc'[c] = IF Enters(c) THEN next ELSE "refused"
    BY <1>2 DEF Authenticate
  <1>6. \A org, m, a, next : Permit(c, org, m, a, next) => pc[c] = "start" /\ pc'[c] \in {next, "refused"}
    BY <1>2 DEF Permit
  <1>7. QED
    BY <1>1, <1>2, <1>3, <1>4, <1>5, <1>6

LEMMA SentStays ==
  ASSUME UNCHANGED sent, NEW c
  PROVE  Op(c)' = Op(c) /\ U(c)' = U(c) /\ By(c)' = By(c)
  BY DEF Op, U, By

LEMMA FoundStays ==
  ASSUME FoundInv, Growth, UNCHANGED sent, NEW d \in Come, saw'[d] = saw[d], pc'[d] \in {pc[d], "dead"}
  PROVE  FoundAccount(d)' /\ FoundAdmin(d)' /\ FoundMember(d)' /\ FoundStaff(d)'
  <1>1. Op(d)' = Op(d) /\ U(d)' = U(d) /\ By(d)' = By(d)
    BY SentStays
  <1>2. FoundAccount(d) /\ FoundAdmin(d) /\ FoundMember(d) /\ FoundStaff(d)
    BY DEF FoundInv
  <1>3. FoundAccount(d)'
    BY <1>1, <1>2 DEF FoundAccount
  <1>4. FoundAdmin(d)'
    BY <1>1, <1>2 DEF FoundAdmin, Known, Growth
  <1>5. FoundStub(d)' /\ FoundForm(d)'
    BY <1>1, <1>2 DEF FoundMember, FoundStub, FoundForm, IsMember, Growth
  <1>6. FoundRelative(d)'
    BY <1>1, <1>2 DEF FoundMember, FoundRelative, IsMember, Growth
  <1>7. FoundStaff(d)'
    BY <1>1, <1>2 DEF FoundStaff, IsMember, IsStaff, Growth
  <1>8. QED
    BY <1>3, <1>4, <1>5, <1>6, <1>7 DEF FoundMember

\* A request of another part.
LEMMA FoundElsewhere ==
  ASSUME NEW c, UNCHANGED sent
  PROVE  /\ Op(c) \notin AccountOps => FoundAccount(c)'
         /\ Op(c) \notin AdministratorOps => FoundAdmin(c)'
         /\ Op(c) \notin MemberOps => FoundMember(c)'
         /\ Op(c) \notin StaffOps => FoundStaff(c)'
  <1>1. Op(c)' = Op(c)
    BY SentStays
  <1>2. Op(c) \notin AccountOps => FoundAccount(c)'
    BY <1>1 DEF AccountOps, FoundAccount
  <1>3. Op(c) \notin AdministratorOps => FoundAdmin(c)'
    BY <1>1 DEF AdministratorOps, FoundAdmin
  <1>4. Op(c) \notin MemberOps => FoundMember(c)'
    BY <1>1 DEF MemberOps, FoundMember, FoundStub, FoundForm, FoundRelative, FormOps
  <1>5. Op(c) \notin StaffOps => FoundStaff(c)'
    BY <1>1 DEF StaffOps, FoundStaff
  <1>6. QED
    BY <1>2, <1>3, <1>4, <1>5

LEMMA EntryFinds ==
  ASSUME RequestInv, PeopleInv, NEW c \in Come, Entry(c)
  PROVE  FoundAccount(c)'
  <1>1. UNCHANGED sent
    BY AccountGoes DEF Goes
  <1>2. Op(c)' = Op(c)
    BY <1>1, SentStays
  <1>3. CASE PasswordUser(c)
    <2>1. pc'[c] = "wrong" => Known(c)
      BY <1>3, Moved DEF PasswordUser
    <2>2. pc'[c] = "wrong" => saw'[c] = users[U(c)]
      BY <1>3, <2>1, Moved DEF PasswordUser
    <2>3. QED
      BY <2>1, <2>2 DEF FoundAccount, Known, PeopleInv
  <1>4. CASE WrongPassword(c) \/ LogFailure(c) \/ SignIn(c)
    BY <1>4, Moved DEF WrongPassword, LogFailure, SignIn, FlagSuspicious, IssueTokens, LastLogin, FoundAccount
  <1>5. CASE Op(c) \notin {"password", "emailPassword"}
    BY <1>2, <1>5 DEF FoundAccount
  <1>6. QED
    BY <1>3, <1>4, <1>5 DEF Entry, AccountStep

LEMMA AdminFinds ==
  ASSUME RequestInv, FoundInv, Growth, NEW c \in Come, AdminStep(c)
  PROVE  FoundAdmin(c)'
  <1>1. UNCHANGED sent
    BY AdminGoes DEF Goes
  <1>2. Op(c)' = Op(c) /\ U(c)' = U(c)
    BY <1>1, SentStays
  <1>3. FoundAdmin(c) /\ (Known(c) => Known(c)')
    BY <1>2 DEF FoundInv, Known, Growth
  <1>4. CASE Op(c) = "createAdmin"
    <2>1. CASE CreateAdminWrite(c)
      <3>1. ~Known(c) => DOMAIN users' = DOMAIN users \union {U(c)}
        BY <2>1 DEF CreateAdminWrite, Put
      <3>2. Known(c)'
        BY <1>2, <1>3, <3>1 DEF Known
      <3>3. QED
        BY <3>2 DEF FoundAdmin
    <2>2. CASE CreateAdminCheck(c) \/ ScopeGrants(c) \/ Credentials(c)
      BY <1>2, <1>3, <1>4, <2>2, Moved DEF FoundAdmin, CreateAdminCheck, ScopeGrants, Credentials
    <2>3. CASE GrantCheck(c) \/ GrantDrop(c) \/ GrantWrite(c)
      BY <1>2, <1>3, <1>4, <2>3, Moved DEF FoundAdmin, GrantCheck, GrantDrop, GrantWrite
    <2>4. QED
      BY <1>4, <2>1, <2>2, <2>3 DEF AdminStep, AdminOps
  <1>5. CASE Op(c) \in AdminOps
    <2>1. CASE AdminEnters(c) \/ AdminRead(c) \/ AdminWrite(c)
      BY <1>2, <1>3, <1>5, <2>1, Moved DEF FoundAdmin, AdminEnters, AdminRead, AdminWrite
    <2>2. CASE GrantCheck(c) \/ GrantDrop(c) \/ GrantWrite(c)
      BY <1>2, <1>3, <1>5, <2>2, Moved DEF FoundAdmin, GrantCheck, GrantDrop, GrantWrite
    <2>3. QED
      BY <1>5, <2>1, <2>2 DEF AdminStep, AdminOps
  <1>6. QED
    BY <1>2, <1>4, <1>5 DEF FoundAdmin

LEMMA FamilyFinds ==
  ASSUME RequestInv, FoundInv, Growth, NEW c \in Come, FamilyLoop(c), Op(c) \in FormOps \union {"import"}
  PROVE  FoundMember(c)'
  <1>1. UNCHANGED sent
    BY DEF FamilyLoop, NextRelative, PairWrite, PairSeed, Seed, LinkWrite, Invite, Goto, Move
  <1>2. Op(c)' = Op(c) /\ U(c)' = U(c)
    BY <1>1, SentStays
  <1>3. FoundForm(c) /\ FoundRelative(c) /\ \A u : IsMember(u) => IsMember(u)'
    BY DEF FoundInv, FoundMember, IsMember, Growth
  <1>4. /\ pc[c] \in {"next", "pair", "seed", "link", "invite"}
        /\ pc'[c] \in {"tell", "done", "next", "pair", "link", "seed", "failed", "refused", "invite"}
    BY Moved DEF FamilyLoop, NextRelative, NextOf, PairWrite, PairSeed, Seed, LinkWrite, Invite
  <1>5. FoundStub(c)'
    BY <1>4 DEF FoundStub
  <1>6. FoundForm(c)'
    BY <1>2, <1>3, <1>4 DEF FoundForm
  <1>7. FoundRelative(c)'
    <2>1. CASE NextRelative(c)
      <3>1. CASE pc'[c] \in {"tell", "done"}
        BY <1>2, <3>1 DEF FoundRelative, FormOps
      <3>2. CASE pc'[c] \notin {"tell", "done"}
        <4>1. PICK u : pc'[c] = NextOf(c, u) /\ Rest(c, u)
          BY <2>1, <3>2, Moved DEF NextRelative
        <4>2. saw'[c] = [u |-> u, new |-> FALSE, todo |-> saw[c].todo \ {u}]
          BY <4>1, Moved DEF Rest
        <4>3. saw'[c].u = u /\ "u" \in DOMAIN saw'[c]
          BY <4>2
        <4>4. pc'[c] \in {"seed", "link"} => IsMember(u) /\ Op(c) # "import"
          BY <4>1 DEF NextOf
        <4>5. IsMember(u) => IsMember(saw[c].u)'
          BY <1>3, <4>3 DEF IsMember, Growth
        <4>6. QED
          BY <1>2, <4>3, <4>4, <4>5 DEF FoundRelative, FormOps
      <3>3. QED
        BY <3>1, <3>2
    <2>2. CASE PairWrite(c)
      <3>1. pc[c] = "pair" /\ pc'[c] \in {"seed", "next", "failed"}
        BY <2>2, Moved DEF PairWrite
      <3>2. saw'[c] = [saw[c] EXCEPT !.new = TRUE]
        BY <2>2, Moved DEF PairWrite
      <3>3. "u" \in DOMAIN saw[c]
        BY <1>3, <3>1 DEF FoundRelative
      <3>4. "u" \in DOMAIN saw'[c] /\ saw'[c].u = saw[c].u
        BY <3>2, <3>3
      <3>5. pc'[c] = "seed" => saw[c].u \notin DOMAIN users
        BY <2>2, Moved DEF PairWrite
      <3>6. saw[c].u \notin DOMAIN users => DOMAIN members' = DOMAIN members \union {saw[c].u}
        BY <2>2 DEF PairWrite, NewPair, Put
      <3>7. pc'[c] = "seed" => IsMember(saw[c].u)'
        BY <3>4, <3>5, <3>6 DEF IsMember
      <3>8. QED
        BY <1>2, <3>1, <3>4, <3>7 DEF FoundRelative, FormOps
    <2>3. CASE PairSeed(c)
      <3>1. /\ pc[c] = "seed" /\ saw'[c] = saw[c]
            /\ pc'[c] = IF Op(c) = "import" THEN "next" ELSE "link"
        BY <2>3, Moved DEF PairSeed, Seed
      <3>2. "u" \in DOMAIN saw'[c] /\ IsMember(saw[c].u)
        BY <1>3, <3>1 DEF FoundRelative
      <3>3. IsMember(saw[c].u)'
        BY <3>1, <3>2 DEF IsMember, Growth
      <3>4. QED
        BY <1>2, <3>1, <3>2, <3>3 DEF FoundRelative, FormOps
    <2>4. CASE LinkWrite(c) \/ Invite(c)
      <3>1. pc'[c] \in {"refused", "failed", "invite", "done", "next"}
        BY <2>4, Moved DEF LinkWrite, Invite
      <3>2. QED
        BY <1>2, <3>1 DEF FoundRelative, FormOps
    <2>5. QED
      BY <2>1, <2>2, <2>3, <2>4 DEF FamilyLoop
  <1>8. QED
    BY <1>5, <1>6, <1>7 DEF FoundMember

LEMMA MemberFinds ==
  ASSUME RequestInv, FormsInv, FoundInv, Growth, NEW c \in Come, MemberStep(c)
  PROVE  FoundMember(c)'
  <1>1. UNCHANGED sent
    BY MemberGoes DEF Goes
  <1>2. Op(c)' = Op(c) /\ U(c)' = U(c) /\ By(c)' = By(c) /\ sent'[c] = sent[c]
    BY <1>1, SentStays
  <1>3. FoundStub(c) /\ FoundForm(c) /\ FoundRelative(c) /\ \A u : IsMember(u) => IsMember(u)'
    BY DEF FoundInv, FoundMember, IsMember, Growth
  <1>4. Op(c) = "profile" => U(c) = By(c)
    BY DEF FormsInv
  <1>5. Enters(c) => By(c) \in DOMAIN users'
    BY DEF Enters, By, Growth
  <1>6. By(c) \in DOMAIN users => By(c) \in DOMAIN users'
    BY DEF Growth
  <1>7. CASE Op(c) = "init"
    <2>1. FoundForm(c)' /\ FoundRelative(c)'
      BY <1>2, <1>7 DEF FoundForm, FoundRelative, FormOps
    <2>2. pc'[c] = "stub" => Enters(c)
      BY <1>7, Moved DEF MemberStep, StubRead, StubWrite, InitRole, FormOps
    <2>3. QED
      BY <1>2, <1>5, <1>7, <2>1, <2>2 DEF FoundStub, FoundMember
  <1>8. CASE Op(c) \in {"profile", "adminProfile"} /\ (ProfileEnters(c) \/ ProfileCheck(c) \/ ProfileWrite(c) \/ SyncClear(c))
    <2>1. CASE ProfileEnters(c)
      <3>1. pc'[c] \in {"stub", "edit", "refused"}
        BY <2>1, Moved DEF ProfileEnters
      <3>2. pc'[c] = "stub" => Enters(c) /\ Op(c) = "profile"
        BY <2>1, Moved DEF ProfileEnters
      <3>3. pc'[c] = "edit" => IsMember(U(c))
        BY <1>4, <2>1, Moved DEF ProfileEnters
      <3>4. FoundStub(c)'
        BY <1>2, <1>4, <1>5, <3>1, <3>2 DEF FoundStub
      <3>5. FoundForm(c)' /\ FoundRelative(c)'
        BY <1>2, <1>3, <1>8, <3>1, <3>3 DEF FoundForm, FoundRelative
      <3>6. QED
        BY <3>4, <3>5 DEF FoundMember
    <2>2. CASE ProfileCheck(c) \/ ProfileWrite(c) \/ SyncClear(c)
      <3>1. /\ pc[c] \in {"edit", "write", "clear"}
            /\ pc'[c] \in {"refused", "write", "failed", "done", "clear", "next"}
        BY <2>2, Moved DEF ProfileCheck, ProfileWrite, SyncClear
      <3>2. FoundStub(c)' /\ FoundRelative(c)'
        BY <1>2, <1>8, <3>1 DEF FoundStub, FoundRelative
      <3>3. FoundForm(c)'
        BY <1>2, <1>3, <1>8, <3>1 DEF FoundForm, FormOps
      <3>4. QED
        BY <3>2, <3>3 DEF FoundMember
    <2>3. QED
      BY <1>8, <2>1, <2>2
  <1>9. ASSUME NEW category, NEW next, StubWrite(c, category, next), next \in {"edit", "find"},
               Op(c) \in {"profile", "adminProfile", "relative"}
        PROVE  FoundMember(c)'
    <2>1. pc[c] = "stub" /\ pc'[c] \in {"failed", next}
      BY <1>9, Moved DEF StubWrite
    <2>2. IsMember(By(c))'
      <3>1. CASE IsMember(By(c))
        BY <1>2, <1>3, <3>1 DEF IsMember, Growth
      <3>2. CASE ~IsMember(By(c))
        <4>1. DOMAIN members' = DOMAIN members \union {By(c)}
          BY <1>9, <3>2 DEF StubWrite, Put
        <4>2. QED
          BY <1>2, <4>1 DEF IsMember
      <3>3. QED
        BY <3>1, <3>2
    <2>3. U(c) = By(c)
      BY <1>3, <1>9, <2>1 DEF FoundStub
    <2>4. FoundStub(c)' /\ FoundRelative(c)'
      BY <1>2, <1>9, <2>1 DEF FoundStub, FoundRelative
    <2>5. FoundForm(c)'
      BY <1>2, <2>2, <2>3 DEF FoundForm, IsMember
    <2>6. QED
      BY <2>4, <2>5 DEF FoundMember
  <1>10. CASE Op(c) \in FormOps \union {"import"} /\ FamilyLoop(c)
    BY <1>10, FamilyFinds
  <1>11. CASE Op(c) = "relative" /\ (RelativeEnters(c) \/ RelativeFind(c))
    <2>1. CASE RelativeEnters(c)
      <3>1. pc'[c] \in {"stub", "find", "refused"}
        BY <2>1, Moved DEF RelativeEnters
      <3>2. pc'[c] = "stub" => Enters(c) /\ U(c) = By(c)
        BY <2>1, Moved DEF RelativeEnters
      <3>3. pc'[c] = "find" => IsMember(U(c))
        BY <2>1, Moved DEF RelativeEnters
      <3>4. FoundStub(c)'
        BY <1>2, <1>5, <3>1, <3>2 DEF FoundStub
      <3>5. FoundForm(c)' /\ FoundRelative(c)'
        BY <1>2, <1>3, <1>11, <3>1, <3>3 DEF FoundForm, FoundRelative
      <3>6. QED
        BY <3>4, <3>5 DEF FoundMember
    <2>2. CASE RelativeFind(c)
      <3>1. pc[c] = "find" /\ pc'[c] \in {"pair", "link", "refused"}
        BY <2>2, Moved DEF RelativeFind
      <3>2. saw'[c] = [u |-> sent[c].relative, new |-> FALSE]
        BY <2>2, Moved DEF RelativeFind
      <3>3. pc'[c] = "link" => IsMember(saw'[c].u)
        BY <2>2, <3>2, Moved DEF RelativeFind
      <3>4. FoundStub(c)'
        BY <1>2, <3>1 DEF FoundStub
      <3>5. FoundForm(c)'
        BY <1>2, <1>3, <1>11, <3>1 DEF FoundForm, FormOps
      <3>6. "u" \in DOMAIN saw'[c]
        BY <3>2
      <3>7. pc'[c] \in {"seed", "link"} => IsMember(saw[c].u)'
        BY <1>3, <3>1, <3>3 DEF IsMember, Growth
      <3>8. FoundRelative(c)'
        BY <1>2, <1>11, <3>6, <3>7 DEF FoundRelative
      <3>9. QED
        BY <3>4, <3>5, <3>8 DEF FoundMember
    <2>3. QED
      BY <1>11, <2>1, <2>2
  <1>12. CASE Op(c) = "link"
    <2>1. pc'[c] = "join" => IsMember(U(c)) /\ IsMember(sent[c].relative)
      BY <1>12, Moved DEF MemberStep, LinkFind, LinkJoin, LinkNotify, FormOps
    <2>2. FoundStub(c)' /\ FoundForm(c)'
      BY <1>2, <1>12 DEF FoundStub, FoundForm, FormOps
    <2>3. FoundRelative(c)'
      BY <1>2, <1>3, <1>12, <2>1 DEF FoundRelative, FormOps, IsMember, Growth
    <2>4. QED
      BY <2>2, <2>3 DEF FoundMember
  <1>13. CASE Op(c) = "import" /\ ImportEnters(c)
    <2>1. pc'[c] \in {"next", "refused"}
      BY <1>13, Moved DEF ImportEnters
    <2>2. QED
      BY <1>2, <1>13, <2>1 DEF FoundMember, FoundStub, FoundForm, FoundRelative, FormOps
  <1>14. CASE Op(c) = "adminCreate" /\ (AdminCreateCheck(c) \/ AdminCreateWrite(c) \/ SyncClear(c) \/ AdminCreateTell(c))
    <2>1. CASE AdminCreateCheck(c) \/ AdminCreateTell(c)
      <3>1. pc'[c] \in {"refused", "failed", "create", "done"}
        BY <2>1, Moved DEF AdminCreateCheck, AdminCreateTell
      <3>2. QED
        BY <1>2, <1>14, <3>1 DEF FoundMember, FoundStub, FoundForm, FoundRelative, FormOps
    <2>2. CASE AdminCreateWrite(c)
      <3>1. pc'[c] \in {"failed", "tell", "clear"}
        BY <2>2, Moved DEF AdminCreateWrite
      <3>2. ~Known(c) /\ ~AadhaarTaken(c) => DOMAIN members' = DOMAIN members \union {U(c)}
        BY <2>2 DEF AdminCreateWrite, NewPair, Put
      <3>3. ~(~Known(c) /\ ~AadhaarTaken(c)) => pc'[c] = "failed"
        BY <2>2, Moved DEF AdminCreateWrite
      <3>4. FoundForm(c)'
        BY <1>2, <3>1, <3>2, <3>3 DEF FoundForm, IsMember
      <3>5. QED
        BY <1>2, <1>14, <3>1, <3>4 DEF FoundMember, FoundStub, FoundRelative, FormOps
    <2>3. CASE SyncClear(c)
      <3>1. pc[c] = "clear" /\ pc'[c] = "next"
        BY <2>3, Moved DEF SyncClear
      <3>2. QED
        BY <1>2, <1>3, <1>14, <3>1 DEF FoundMember, FoundStub, FoundForm, FoundRelative, FormOps
    <2>4. QED
      BY <1>14, <2>1, <2>2, <2>3
  <1>15. CASE Op(c) \in {"register", "unlink", "memberStatus", "deleteMember", "switch", "listMembers"}
    BY <1>2, <1>15 DEF FoundMember, FoundStub, FoundForm, FoundRelative, FormOps
  <1>16. QED
    BY <1>7, <1>8, <1>9, <1>10, <1>11, <1>12, <1>13, <1>14, <1>15 DEF MemberStep, FormOps

\* A registration is of members and of accounts, and nothing is kept of it.
LEMMA RegisterFinds ==
  ASSUME NEW c, UNCHANGED sent, Op(c) = "register"
  PROVE  FoundAccount(c)' /\ FoundMember(c)'
  <1>1. Op(c)' = "register"
    BY SentStays
  <1>2. QED
    BY <1>1 DEF FoundAccount, FoundMember, FoundStub, FoundForm, FoundRelative, FormOps

\* Grants, organizations, credentials, links, staff and attendance are of
\* accounts, members and staff that are there.
Admitted ==
    /\ \A r \in overrides : r.actions \subseteq Grantable /\ r.u \in DOMAIN users
    /\ \A t \in tenants : t[1] \in DOMAIN users
    /\ credited \subseteq DOMAIN users
Linked == \A l \in links : {l[1], l[2]} \subseteq DOMAIN members
Staffed ==
    /\ DOMAIN staff \subseteq DOMAIN members
    /\ \A s \in DOMAIN staff : DOMAIN staff[s] = {"n", "org", "grants"}
    /\ \A s, t \in DOMAIN staff : s # t => staff[s].n # staff[t].n
Attended == \A s \in shifts : DOMAIN s = {"u", "row", "open"} /\ IsStaff(s.u)
RollsInv == Admitted /\ Linked /\ Staffed /\ Attended

LEMMA StaffFinds ==
  ASSUME RequestInv, FoundInv, RollsInv, Growth, NEW c \in Come, StaffStep(c)
  PROVE  FoundStaff(c)'
  <1>1. UNCHANGED sent
    BY StaffGoes DEF Goes
  <1>2. Op(c)' = Op(c) /\ U(c)' = U(c)
    BY <1>1, SentStays
  <1>3. FoundStaff(c)
    BY DEF FoundInv
  <1>4. /\ IsMember(U(c)) => IsMember(U(c))'
        /\ IsStaff(U(c)) => IsStaff(U(c))'
    BY <1>2 DEF IsMember, IsStaff, Growth
  <1>5. CASE Op(c) = "staff"
    <2>1. CASE StaffMember(c)
      <3>1. ~Known(c) => DOMAIN members' = DOMAIN members \union {U(c)}
        BY <2>1 DEF StaffMember, NewPair, Put
      <3>2. pc'[c] = IF Known(c) THEN "failed" ELSE "count"
        BY <2>1, Moved DEF StaffMember
      <3>3. QED
        BY <1>2, <1>5, <3>1, <3>2 DEF FoundStaff, IsMember
    <2>2. CASE StaffCheck(c)
      <3>1. pc'[c] \in {"count", "refused", "create"}
        BY <2>2, Moved DEF StaffCheck
      <3>2. pc'[c] = "count" => IsMember(U(c))
        BY <2>2, Moved DEF StaffCheck
      <3>3. QED
        BY <1>2, <1>4, <1>5, <3>1, <3>2 DEF FoundStaff
    <2>3. CASE StaffNumber(c) \/ StaffHire(c) \/ StaffTell(c)
      <3>1. pc[c] \in {"count", "hire", "tell"}
        BY <2>3, Moved DEF StaffNumber, StaffHire, StaffTell
      <3>2. QED
        BY <1>2, <1>3, <1>4, <1>5, <3>1 DEF FoundStaff
    <2>4. QED
      BY <1>5, <2>1, <2>2, <2>3 DEF StaffStep
  <1>6. CASE Op(c) \in {"checkIn", "checkOut", "manual"}
    <2>1. CASE ShiftRead(c)
      <3>1. pc'[c] \in {"write", "refused"}
        BY <2>1, Moved DEF ShiftRead
      <3>2. pc'[c] = "write" => /\ IsStaff(U(c))
                                /\ Op(c) = "checkOut" => OpenShifts(U(c)) # {}
        BY <2>1, Moved DEF ShiftRead
      <3>3. Op(c) = "checkOut" /\ OpenShifts(U(c)) # {} => saw'[c] \in shifts
        BY <2>1, Moved DEF ShiftRead, OpenShifts
      <3>4. saw'[c] \in shifts => DOMAIN saw'[c] = {"u", "row", "open"} /\ IsStaff(saw[c].u)'
        BY DEF RollsInv, Attended, IsStaff, Growth
      <3>5. QED
        BY <1>2, <1>4, <1>6, <3>1, <3>2, <3>3, <3>4 DEF FoundStaff
    <2>2. CASE ShiftWrite(c)
      <3>1. pc'[c] = "done"
        BY <2>2, Moved DEF ShiftWrite
      <3>2. QED
        BY <1>2, <1>6, <3>1 DEF FoundStaff
    <2>3. QED
      BY <1>6, <2>1, <2>2 DEF StaffStep
  <1>7. CASE Op(c) \in {"regrant", "leave", "decideLeave", "paper"}
    BY <1>2, <1>7 DEF FoundStaff
  <1>8. QED
    BY <1>5, <1>6, <1>7 DEF StaffStep

\* Each step is of one part, and what it is about is that part's.
LEMMA PartsApart ==
  ASSUME NEW c
  PROVE  /\ Entry(c) => Op(c) \in AccountOps /\ Op(c) \notin AdministratorOps \union StaffOps
                        /\ (Op(c) \in MemberOps => Op(c) = "register")
         /\ AdminStep(c) => Op(c) \in AdministratorOps /\ Op(c) \notin AccountOps \union MemberOps \union StaffOps
         /\ MemberStep(c) => Op(c) \in MemberOps /\ Op(c) \notin AdministratorOps \union StaffOps
                             /\ (Op(c) \in AccountOps => Op(c) = "register")
         /\ StaffStep(c) => Op(c) \in StaffOps /\ Op(c) \notin AccountOps \union AdministratorOps \union MemberOps
         /\ SiteStep(c) \/ MonkStep(c) \/ OfficeStep(c) \/ WatchStep(c) \/ ViharStep(c)
                => Op(c) \notin AccountOps \union AdministratorOps \union MemberOps \union StaffOps
  <1> USE DEF AccountOps, AdministratorOps, AdminOps, MemberOps, StaffOps
  <1>1. Entry(c) => Op(c) \in AccountOps /\ Op(c) \notin AdministratorOps \union StaffOps
                    /\ (Op(c) \in MemberOps => Op(c) = "register")
    BY DEF Entry, AccountStep
  <1>2. AdminStep(c) => Op(c) \in AdministratorOps /\ Op(c) \notin AccountOps \union MemberOps \union StaffOps
    BY DEF AdminStep
  <1>3. MemberStep(c) => Op(c) \in MemberOps /\ Op(c) \notin AdministratorOps \union StaffOps
                         /\ (Op(c) \in AccountOps => Op(c) = "register")
    BY DEF MemberStep
  <1>4. StaffStep(c) => Op(c) \in StaffOps /\ Op(c) \notin AccountOps \union AdministratorOps \union MemberOps
    BY DEF StaffStep
  <1>5. SiteStep(c) => Op(c) \notin AccountOps \union AdministratorOps \union MemberOps \union StaffOps
    BY DEF SiteStep
  <1>6. MonkStep(c) => Op(c) \notin AccountOps \union AdministratorOps \union MemberOps \union StaffOps
    BY DEF MonkStep
  <1>7. OfficeStep(c) => Op(c) \notin AccountOps \union AdministratorOps \union MemberOps \union StaffOps
    BY DEF OfficeStep
  <1>8. WatchStep(c) \/ ViharStep(c) => Op(c) \notin AccountOps \union AdministratorOps \union MemberOps \union StaffOps
    BY DEF WatchStep, ViharStep
  <1>9. QED
    BY <1>1, <1>2, <1>3, <1>4, <1>5, <1>6, <1>7, <1>8

\* Whose step it is: a request of one of the parts, or none, but for a death.
Parted(c) ==
    \/ Entry(c) \/ AdminStep(c) \/ MemberStep(c) \/ StaffStep(c) \/ SiteStep(c) \/ MonkStep(c)
    \/ OfficeStep(c) \/ WatchStep(c) \/ ViharStep(c)

LEMMA StepsPart ==
  ASSUME [Next]_vars
  PROVE  \/ \E c \in Come : Parted(c) /\ Goes(c)
         \/ UNCHANGED request \/ \E c \in Come : Die(c)
  <1>1. CASE CallStep
    BY <1>1, AccountGoes, AdminGoes, MemberGoes, StaffGoes, SiteGoes, MonkGoes, OfficeGoes, WatchGoes, ViharGoes
       DEF CallStep, Busy, Parted
  <1>2. CASE Elsewhere
    BY <1>2 DEF Elsewhere
  <1>3. CASE UNCHANGED vars
    BY <1>3 DEF vars, request
  <1>4. QED
    BY <1>1, <1>2, <1>3 DEF Next

LEMMA FoundStepInv ==
  ASSUME RequestInv, FormsInv, PeopleInv, RollsInv, FoundInv, Growth, [Next]_vars
  PROVE  FoundInv'
  <1>1. CASE UNCHANGED request
    <2>1. Come' = Come /\ UNCHANGED <<sent, pc, saw>>
      BY <1>1 DEF request, Come
    <2>2. QED
      BY <2>1, FoundStays DEF FoundInv
  <1>2. ASSUME NEW c \in Come, Goes(c),
               FoundAccount(c)' /\ FoundAdmin(c)' /\ FoundMember(c)' /\ FoundStaff(c)'
        PROVE  FoundInv'
    <2>1. /\ Come' = Come /\ UNCHANGED sent
          /\ \A d \in Come \ {c} : pc'[d] = pc[d] /\ saw'[d] = saw[d]
      BY <1>2, RequestsGo DEF Goes
    <2>2. \A d \in Come \ {c} : FoundAccount(d)' /\ FoundAdmin(d)' /\ FoundMember(d)' /\ FoundStaff(d)'
      BY <2>1, FoundStays
    <2>3. QED
      BY <1>2, <2>1, <2>2 DEF FoundInv
  <1>3. ASSUME NEW c \in Come, Die(c)
        PROVE  FoundInv'
    <2>1. Goes(c) /\ UNCHANGED <<sent, saw>> /\ pc'[c] = "dead"
      BY <1>3, DeathGoes DEF Goes, RequestInv
    <2>2. FoundAccount(c)' /\ FoundAdmin(c)' /\ FoundMember(c)' /\ FoundStaff(c)'
      BY <2>1, FoundStays
    <2>3. QED
      BY <1>2, <2>1, <2>2
  <1>4. ASSUME NEW c \in Come, Parted(c), Goes(c)
        PROVE  FoundInv'
    <2>1. UNCHANGED sent
      BY <1>4 DEF Goes
    <2>2. FoundAccount(c)'
      BY <1>4, <2>1, EntryFinds, RegisterFinds, FoundElsewhere, PartsApart DEF Parted
    <2>3. FoundAdmin(c)'
      BY <1>4, <2>1, AdminFinds, FoundElsewhere, PartsApart DEF Parted
    <2>4. FoundMember(c)'
      BY <1>4, <2>1, MemberFinds, RegisterFinds, FoundElsewhere, PartsApart DEF Parted
    <2>5. FoundStaff(c)'
      BY <1>4, <2>1, StaffFinds, FoundElsewhere, PartsApart DEF Parted
    <2>6. QED
      BY <1>2, <1>4, <2>2, <2>3, <2>4, <2>5
  <1>5. QED
    BY <1>1, <1>3, <1>4, StepsPart

-----------------------------------------------------------------------------
(* Grants, links, staff and attendance *)

LEMMA AdmittedStay ==
  ASSUME Admitted, Growth, UNCHANGED <<overrides, tenants, credited>>
  PROVE  Admitted'
  BY DEF Admitted, Growth

LEMMA LinkedStay ==
  ASSUME Linked, Growth, links' \subseteq links
  PROVE  Linked'
  BY DEF Linked, Growth

LEMMA StaffedStay ==
  ASSUME Staffed, Growth, UNCHANGED staff
  PROVE  Staffed'
  BY DEF Staffed, Growth

LEMMA AttendedStay ==
  ASSUME Attended, Growth, UNCHANGED shifts
  PROVE  Attended'
  BY DEF Attended, IsStaff, Growth

\* An override is of the account it was asked for.
LEMMA AdminRolls ==
  ASSUME RequestInv, FormsInv, FoundInv, RollsInv, Growth, NEW c \in Come, AdminStep(c),
         UNCHANGED <<memberVars, staffVars>>
  PROVE  RollsInv'
  <1>1. UNCHANGED <<links, shifts>>
    BY DEF memberVars, staffVars
  <1>2. UNCHANGED staff
    <2> USE DEF adminVars
    <2>1. CASE CreateAdminCheck(c) \/ CreateAdminWrite(c) \/ ScopeGrants(c) \/ Credentials(c)
      BY <2>1 DEF CreateAdminCheck, CreateAdminWrite, ScopeGrants, Credentials
    <2>2. CASE GrantCheck(c) \/ GrantDrop(c) \/ GrantWrite(c)
      BY <2>2 DEF GrantCheck, GrantDrop, GrantWrite
    <2>3. CASE AdminEnters(c) \/ AdminRead(c) \/ AdminWrite(c)
      BY <2>3 DEF AdminEnters, AdminRead, AdminWrite
    <2>4. CASE DeleteAdmin(c) \/ MyModules(c) \/ ListOrgAdmins(c)
      BY <2>4 DEF DeleteAdmin, MyModules, ListOrgAdmins
    <2>5. QED
      BY <2>1, <2>2, <2>3, <2>4 DEF AdminStep
  <1>3. SUFFICES Admitted'
    BY <1>1, <1>2, LinkedStay, StaffedStay, AttendedStay DEF RollsInv
  <1>4. Admitted
    BY DEF RollsInv
  <1>5. CASE UNCHANGED <<overrides, tenants, credited>>
    BY <1>4, <1>5, AdmittedStay
  <1>6. FoundAdmin(c)
    BY DEF FoundInv
  <1>7. CASE Op(c) = "createAdmin" /\ CreateAdminWrite(c)
    <2>1. UNCHANGED <<overrides, credited>>
      BY <1>7 DEF CreateAdminWrite
    <2>2. CASE Known(c)
      BY <1>5, <1>7, <2>1, <2>2 DEF CreateAdminWrite
    <2>3. CASE ~Known(c)
      <3>1. tenants' = tenants \union {<<U(c), sent[c].org>>} /\ DOMAIN users' = DOMAIN users \union {U(c)}
        BY <1>7, <2>3 DEF CreateAdminWrite, Put
      <3>2. \A t \in tenants' : t[1] \in DOMAIN users'
        BY <1>4, <3>1 DEF Admitted
      <3>3. QED
        BY <1>4, <2>1, <3>2 DEF Admitted, Growth
    <2>4. QED
      BY <2>2, <2>3
  <1>8. CASE Op(c) = "createAdmin" /\ ScopeGrants(c)
    <2>1. U(c) \in DOMAIN users
      BY <1>6, <1>8 DEF FoundAdmin, ScopeGrants, Move, Known
    <2>2. sent[c].actions \subseteq Grantable
      BY <1>8 DEF FormsInv
    <2>3. \A r \in overrides' : r \in overrides \/ (r.actions \subseteq Grantable /\ r.u = U(c))
      BY <1>8, <2>2 DEF ScopeGrants, Override
    <2>4. UNCHANGED <<tenants, credited>>
      BY <1>8 DEF ScopeGrants
    <2>5. QED
      BY <1>4, <2>1, <2>3, <2>4 DEF Admitted, Growth
  <1>9. CASE Op(c) \in {"createAdmin"} \union AdminOps /\ GrantWrite(c)
    <2>1. U(c) \in DOMAIN users
      BY <1>6, <1>9 DEF FoundAdmin, GrantWrite, Move, Known
    <2>2. \A r \in overrides' : r \in overrides \/ (r.actions \subseteq Grantable /\ r.u = U(c))
      BY <1>9 DEF GrantWrite, Override
    <2>3. UNCHANGED <<tenants, credited>>
      BY <1>9 DEF GrantWrite
    <2>4. QED
      BY <1>4, <2>1, <2>2, <2>3 DEF Admitted, Growth
  <1>10. CASE Op(c) = "createAdmin" /\ Credentials(c)
    <2>1. U(c) \in DOMAIN users
      BY <1>6, <1>10 DEF FoundAdmin, Credentials, Move, Known
    <2>2. credited' = credited \union {U(c)} /\ UNCHANGED <<overrides, tenants>>
      BY <1>10 DEF Credentials
    <2>3. QED
      BY <1>4, <2>1, <2>2 DEF Admitted, Growth
  <1>11. CASE Op(c) \in AdminOps /\ AdminWrite(c)
    <2>1. U(c) \in DOMAIN users
      BY <1>6, <1>11 DEF FoundAdmin, AdminWrite, Move, Known
    <2>2. tenants' \subseteq tenants \union {<<U(c), sent[c].org>>} /\ UNCHANGED <<overrides, credited>>
      BY <1>11 DEF AdminWrite
    <2>3. \A t \in tenants' : t[1] \in DOMAIN users
      BY <1>4, <2>1, <2>2 DEF Admitted
    <2>4. QED
      BY <1>4, <2>2, <2>3 DEF Admitted, Growth
  <1>12. CASE CreateAdminCheck(c) \/ GrantCheck(c) \/ GrantDrop(c) \/ AdminEnters(c) \/ AdminRead(c)
    BY <1>5, <1>12 DEF CreateAdminCheck, GrantCheck, GrantDrop, AdminEnters, AdminRead, adminVars
  <1>13. CASE DeleteAdmin(c) \/ MyModules(c) \/ ListOrgAdmins(c)
    BY <1>5, <1>13 DEF DeleteAdmin, MyModules, ListOrgAdmins, adminVars
  <1>14. QED
    BY <1>7, <1>8, <1>9, <1>10, <1>11, <1>12, <1>13 DEF AdminStep

\* A link is made of two members.
LEMMA MemberRolls ==
  ASSUME RequestInv, FoundInv, RollsInv, Growth, NEW c \in Come, MemberStep(c), UNCHANGED staffVars
  PROVE  RollsInv'
  <1> DEFINE New(l) == l[1] \in DOMAIN members /\ l[2] \in DOMAIN members
  <1> USE DEF adminVars, memberVars
  <1>1. SUFFICES UNCHANGED adminVars /\ \A l \in links' : l \in links \/ New(l)
    <2>1. ASSUME UNCHANGED adminVars, \A l \in links' : l \in links \/ New(l)
          PROVE  RollsInv'
      <3>1. Linked'
        BY <2>1 DEF RollsInv, Linked, Growth
      <3>2. UNCHANGED <<overrides, tenants, credited, staff, shifts>>
        BY <2>1 DEF staffVars
      <3>3. QED
        BY <3>1, <3>2, AdmittedStay, StaffedStay, AttendedStay DEF RollsInv
    <2>2. QED
      BY <2>1
  <1>2. FoundForm(c) /\ FoundRelative(c)
    BY DEF FoundInv, FoundMember
  <1>3. CASE RegisterCheck(c) \/ RegisterWrite(c) \/ Seed(c, U(c), "issue")
    BY <1>3 DEF RegisterCheck, RegisterWrite, Seed
  <1>4. ASSUME NEW x, NEW y, StubRead(c, x, y) \/ StubWrite(c, x, y)
        PROVE  UNCHANGED adminVars /\ UNCHANGED links
    BY <1>4 DEF StubRead, StubWrite
  <1>5. CASE InitRole(c) \/ ProfileEnters(c) \/ ProfileCheck(c) \/ ProfileWrite(c) \/ SyncClear(c)
    BY <1>5 DEF InitRole, ProfileEnters, ProfileCheck, ProfileWrite, SyncClear
  <1>6. CASE Op(c) \in FormOps \union {"import"} /\ FamilyLoop(c)
    <2>1. CASE LinkWrite(c)
      <3>1. IsMember(U(c)) /\ IsMember(saw[c].u)
        BY <1>2, <1>6, <2>1 DEF LinkWrite, Move, FoundForm, FoundRelative
      <3>2. links' = links \union {<<U(c), saw[c].u>>} /\ UNCHANGED adminVars
        BY <2>1 DEF LinkWrite
      <3>3. QED
        BY <3>1, <3>2 DEF IsMember
    <2>2. CASE NextRelative(c) \/ PairWrite(c) \/ PairSeed(c) \/ Invite(c)
      BY <2>2 DEF NextRelative, PairWrite, PairSeed, Seed, Invite
    <2>3. QED
      BY <1>6, <2>1, <2>2 DEF FamilyLoop
  <1>7. CASE RelativeEnters(c) \/ RelativeFind(c) \/ LinkFind(c) \/ LinkNotify(c) \/ Unlink(c) \/ ImportEnters(c)
    BY <1>7 DEF RelativeEnters, RelativeFind, LinkFind, LinkNotify, Unlink, ImportEnters
  <1>8. CASE Op(c) = "link" /\ LinkJoin(c)
    <2>1. IsMember(U(c)) /\ IsMember(sent[c].relative)
      BY <1>2, <1>8 DEF LinkJoin, Move, FoundRelative
    <2>2. links' = links \union {<<U(c), sent[c].relative>>} /\ UNCHANGED adminVars
      BY <1>8 DEF LinkJoin
    <2>3. QED
      BY <2>1, <2>2 DEF IsMember
  <1>9. CASE AdminCreateCheck(c) \/ AdminCreateWrite(c) \/ AdminCreateTell(c)
    BY <1>9 DEF AdminCreateCheck, AdminCreateWrite, AdminCreateTell
  <1>10. CASE MemberRead(c) \/ MemberWrite(c) \/ ListMembers(c)
    BY <1>10 DEF MemberRead, MemberWrite, ListMembers
  <1>11. QED
    BY <1>3, <1>4, <1>5, <1>6, <1>7, <1>8, <1>9, <1>10 DEF MemberStep, FormOps

\* Who is hired is a member, with a number that nobody of the staff has.
LEMMA HireRolls ==
  ASSUME RequestInv, FoundInv, PeopleInv, RollsInv, Growth, NEW c \in Come, Op(c) = "staff", StaffHire(c)
  PROVE  RollsInv'
  <1>1. UNCHANGED <<links, shifts, overrides, credited>>
    BY DEF StaffHire, restOfStaff, staffVars
  <1>2. U(c) \in DOMAIN members /\ U(c) \in DOMAIN users
    BY DEF StaffHire, Move, FoundInv, FoundStaff, IsMember, PeopleInv
  <1> DEFINE free == ~IsStaff(U(c)) /\ \A s \in DOMAIN staff : staff[s].n # saw[c].n
  <1>3. CASE ~free
    <2>1. UNCHANGED <<staff, tenants>>
      BY <1>3 DEF StaffHire
    <2>2. QED
      BY <1>1, <2>1, AdmittedStay, LinkedStay, StaffedStay, AttendedStay DEF RollsInv
  <1>4. CASE free
    <2> DEFINE row == [n |-> saw[c].n, org |-> sent[c].org, grants |-> sent[c].grants]
    <2>1. staff' = Put(staff, U(c), row) /\ tenants' = tenants \union {<<U(c), sent[c].org>>}
      BY <1>4 DEF StaffHire
    <2>2. DOMAIN row = {"n", "org", "grants"} /\ row.n = saw[c].n
      OBVIOUS
    <2> HIDE DEF row
    <2>3. /\ DOMAIN staff' = DOMAIN staff \union {U(c)}
          /\ \A s \in DOMAIN staff' : staff'[s] = IF s = U(c) THEN row ELSE staff[s]
      BY <2>1 DEF Put
    <2>4. DOMAIN staff' \subseteq DOMAIN members' /\ \A s \in DOMAIN staff' : DOMAIN staff'[s] = {"n", "org", "grants"}
      BY <1>2, <2>2, <2>3 DEF RollsInv, Staffed, Growth
    <2>5. \A s \in DOMAIN staff : s # U(c) /\ staff[s].n # row.n
      BY <1>4, <2>2 DEF IsStaff
    <2>6. \A s, t \in DOMAIN staff' : s # t => staff'[s].n # staff'[t].n
      BY <2>3, <2>5 DEF RollsInv, Staffed
    <2>7. Staffed'
      BY <2>4, <2>6 DEF Staffed
    <2>8. \A t \in tenants' : t[1] \in DOMAIN users
      BY <1>2, <2>1 DEF RollsInv, Admitted
    <2>9. Admitted'
      BY <1>1, <2>8 DEF RollsInv, Admitted, Growth
    <2>10. QED
      BY <1>1, <2>7, <2>9, LinkedStay, AttendedStay DEF RollsInv
  <1>5. QED
    BY <1>3, <1>4

LEMMA Regranted ==
  ASSUME Staffed, Growth, NEW u, NEW g, staff' = [staff EXCEPT ![u].grants = g]
  PROVE  Staffed'
  <1> DEFINE row == [staff[u] EXCEPT !.grants = g]
  <1>1. staff' = [staff EXCEPT ![u] = row]
    OBVIOUS
  <1>2. u \in DOMAIN staff => DOMAIN row = {"n", "org", "grants"} /\ row.n = staff[u].n
    BY DEF Staffed
  <1> HIDE DEF row
  <1>3. DOMAIN staff' = DOMAIN staff /\ \A s \in DOMAIN staff : staff'[s] = IF s = u THEN row ELSE staff[s]
    BY <1>1
  <1>4. \A s \in DOMAIN staff : DOMAIN staff'[s] = {"n", "org", "grants"} /\ staff'[s].n = staff[s].n
    BY <1>2, <1>3 DEF Staffed
  <1>5. QED
    BY <1>3, <1>4 DEF Staffed, Growth

\* Attendance is written for one of the staff.
LEMMA ShiftRolls ==
  ASSUME RequestInv, FoundInv, RollsInv, Growth, NEW c \in Come, Op(c) \in {"checkIn", "checkOut", "manual"},
         ShiftWrite(c)
  PROVE  Attended'
  <1>1. IsStaff(U(c)) /\ (Op(c) = "checkOut" => DOMAIN saw[c] = {"u", "row", "open"} /\ IsStaff(saw[c].u))
    BY DEF ShiftWrite, Move, FoundInv, FoundStaff
  <1> DEFINE new == [u |-> U(c), row |-> c, open |-> Op(c) = "checkIn"]
             out == [saw[c] EXCEPT !.open = FALSE]
  <1>2. DOMAIN new = {"u", "row", "open"} /\ new.u = U(c)
    OBVIOUS
  <1>3. Op(c) = "checkOut" => DOMAIN out = {"u", "row", "open"} /\ out.u = saw[c].u
    BY <1>1
  <1>4. \A s \in shifts' : s \in shifts \/ s = new \/ (Op(c) = "checkOut" /\ s = out)
    BY DEF ShiftWrite
  <1> HIDE DEF new, out
  <1>5. QED
    BY <1>1, <1>2, <1>3, <1>4 DEF RollsInv, Attended, IsStaff, Growth

LEMMA StaffRolls ==
  ASSUME RequestInv, FoundInv, PeopleInv, RollsInv, Growth, NEW c \in Come, StaffStep(c)
  PROVE  RollsInv'
  <1>1. CASE UNCHANGED <<adminVars, links, shifts>>
    BY <1>1, AdmittedStay, LinkedStay, StaffedStay, AttendedStay DEF RollsInv, adminVars
  <1>2. CASE Op(c) = "staff" /\ StaffHire(c)
    BY <1>2, HireRolls
  <1>3. CASE Op(c) = "staff" /\ StaffTell(c)
    <2>1. credited' = credited \union {U(c)} /\ UNCHANGED <<overrides, tenants, staff, links, shifts>>
      BY <1>3 DEF StaffTell, memberVars, staffVars
    <2>2. U(c) \in DOMAIN users
      BY <1>3 DEF StaffTell, Move, FoundInv, FoundStaff, IsMember, PeopleInv
    <2>3. Admitted'
      BY <2>1, <2>2 DEF RollsInv, Admitted, Growth
    <2>4. QED
      BY <2>1, <2>3, LinkedStay, StaffedStay, AttendedStay DEF RollsInv
  <1>4. CASE RegrantClear(c) \/ RegrantWrite(c)
    <2>1. UNCHANGED <<overrides, tenants, credited, links, shifts>>
      BY <1>4 DEF RegrantClear, RegrantWrite, memberVars, staffVars
    <2>2. UNCHANGED staff \/ \E g : staff' = [staff EXCEPT ![U(c)].grants = g]
      BY <1>4 DEF RegrantClear, RegrantWrite
    <2>3. Staffed'
      BY <2>2, StaffedStay, Regranted DEF RollsInv
    <2>4. QED
      BY <2>1, <2>3, AdmittedStay, LinkedStay, AttendedStay DEF RollsInv
  <1>5. CASE Op(c) \in {"checkIn", "checkOut", "manual"} /\ ShiftWrite(c)
    <2>1. UNCHANGED <<adminVars, links>>
      BY <1>5 DEF ShiftWrite, memberVars
    <2>2. QED
      BY <1>5, <2>1, ShiftRolls, AdmittedStay, LinkedStay, StaffedStay DEF RollsInv, adminVars
  <1> USE DEF memberVars, staffVars, adminVars, restOfStaff
  <1>6. CASE StaffCheck(c) \/ StaffMember(c) \/ StaffNumber(c) \/ RegrantCheck(c)
    BY <1>1, <1>6 DEF StaffCheck, StaffMember, StaffNumber, RegrantCheck
  <1>7. CASE ShiftRead(c) \/ Leave(c) \/ PaperRead(c) \/ PaperWrite(c)
    BY <1>1, <1>7 DEF ShiftRead, Leave, PaperRead, PaperWrite
  <1>8. QED
    BY <1>2, <1>3, <1>4, <1>5, <1>6, <1>7 DEF StaffStep

LEMMA RollsStepInv ==
  ASSUME RequestInv, FormsInv, FoundInv, PeopleInv, RollsInv, Growth, [Next]_vars
  PROVE  RollsInv'
  <1>1. ASSUME UNCHANGED <<adminVars, memberVars, staffVars>> \/ UNCHANGED <<adminVars, links, shifts>>
        PROVE  RollsInv'
    BY <1>1, AdmittedStay, LinkedStay, StaffedStay, AttendedStay DEF RollsInv, adminVars, memberVars, staffVars
  <1>2. CASE CallStep
    <2>1. PICK c \in Busy :
              \/ UNCHANGED <<adminVars, memberVars, staffVars>>
              \/ AdminStep(c) /\ UNCHANGED <<memberVars, staffVars>>
              \/ MemberStep(c) /\ UNCHANGED staffVars
              \/ StaffStep(c)
              \/ (SiteStep(c) \/ MonkStep(c) \/ OfficeStep(c)) /\ UNCHANGED staffVars
              \/ (ViharStep(c) \/ WatchStep(c)) /\ UNCHANGED <<memberVars, staffVars>>
      BY <1>2 DEF CallStep
    <2>2. c \in Come
      BY DEF Busy
    <2>3. SiteStep(c) \/ MonkStep(c) \/ OfficeStep(c) => UNCHANGED <<adminVars, memberVars>>
      BY SiteGoes, MonkGoes, OfficeGoes DEF society, laity
    <2>4. ViharStep(c) \/ WatchStep(c) => UNCHANGED adminVars
      BY ViharGoes, WatchGoes DEF people
    <2>5. QED
      BY <1>1, <2>1, <2>2, <2>3, <2>4, AdminRolls, MemberRolls, StaffRolls
  <1>3. CASE Elsewhere
    <2>1. UNCHANGED <<adminVars, links, shifts>>
      BY <1>3 DEF Elsewhere, FallsSilent, StaffSweep, people, memberVars, staffVars
    <2>2. QED
      BY <1>1, <2>1
  <1>4. CASE UNCHANGED vars
    BY <1>1, <1>4 DEF vars
  <1>5. QED
    BY <1>2, <1>3, <1>4 DEF Next

-----------------------------------------------------------------------------
(* Lists of lists: what FlattenSeq makes of a sequence of sequences over S   *)

\* g holds the flattened beginnings of seqs, up to the n-th.
Flattens(g, seqs, n) ==
    g = [i \in 1 .. n |-> IF i = 1 THEN seqs[i] ELSE g[i-1] \o seqs[i]]

\* A set of numbers up to n that is not empty has a least.
LEMMA LeastNumber ==
  ASSUME NEW n \in Nat, NEW T, T # {}, T \subseteq 1 .. n
  PROVE  \E i \in T : \A j \in T : i <= j
  <1> DEFINE N == 1 .. n
             Up == {1 .. i : i \in T}
  <1>1. Up # {}
    OBVIOUS
  <1>2. Up \subseteq SUBSET N
    <2>1. \A i \in T : 1 .. i \subseteq N
      OBVIOUS
    <2>2. QED
      BY <2>1
  <1>3. PICK V \in Up : \A W \in Up : W \subseteq V => W = V
    <2>1. IsFiniteSet(N)
      BY FS_Interval
    <2> HIDE DEF Up, N
    <2>2. QED
      BY <1>1, <1>2, <2>1, SmallestSubset
  <1>4. PICK i \in T : V = 1 .. i
    OBVIOUS
  <1>5. ASSUME NEW j \in T, ~(i <= j)
        PROVE  FALSE
    <2>1. 1 .. j \subseteq 1 .. i /\ i \in 1 .. i /\ i \notin 1 .. j
      BY <1>5
    <2>2. 1 .. j \in Up
      OBVIOUS
    <2>3. QED
      BY <1>3, <1>4, <2>1, <2>2
  <1>6. QED
    BY <1>5

\* Such a g exists: else there is a least n without one, and the g of n - 1
\* goes one further.
LEMMA FlattensExist ==
  ASSUME NEW seqs, NEW n \in Nat \ {0}
  PROVE  \E g : Flattens(g, seqs, n)
  <1> DEFINE Without == {m \in 1 .. n : ~ \E g : Flattens(g, seqs, m)}
  <1> SUFFICES ASSUME Without # {} PROVE FALSE
    OBVIOUS
  <1>1. PICK m \in Without : \A j \in Without : m <= j
    <2>1. Without \subseteq 1 .. n
      OBVIOUS
    <2> HIDE DEF Without
    <2>2. QED
      BY <2>1, LeastNumber
  <1>2. CASE m = 1
    <2>1. Flattens([i \in 1 .. 1 |-> seqs[i]], seqs, 1)
      BY DEF Flattens
    <2>2. QED
      BY <1>1, <1>2, <2>1
  <1>3. CASE m # 1
    <2>1. m - 1 \in 1 .. n /\ m - 1 \notin Without
      BY <1>1, <1>3
    <2>2. PICK g : Flattens(g, seqs, m - 1)
      BY <2>1
    <2> DEFINE h == [i \in 1 .. m |-> IF i = m THEN g[m-1] \o seqs[m] ELSE g[i]]
    <2>3. \A i \in 1 .. m - 1 : g[i] = IF i = 1 THEN seqs[i] ELSE g[i-1] \o seqs[i]
      BY <2>2 DEF Flattens
    <2>4. \A i \in 1 .. m - 1 : h[i] = g[i]
      OBVIOUS
    <2>5. h[m] = g[m-1] \o seqs[m] /\ h = [i \in 1 .. m |-> h[i]]
      <3>1. m \in 1 .. m
        OBVIOUS
      <3>2. QED
        BY <3>1
    <2> HIDE DEF h
    <2>6. ASSUME NEW i \in 1 .. m
          PROVE  h[i] = IF i = 1 THEN seqs[i] ELSE h[i-1] \o seqs[i]
      <3>1. CASE i = m
        <4>1. m - 1 \in 1 .. m - 1
          BY <1>3
        <4>2. h[m-1] = g[m-1]
          BY <2>4, <4>1
        <4>3. QED
          BY <1>3, <2>5, <3>1, <4>2
      <3>2. CASE i # m
        <4>1. i \in 1 .. m - 1 /\ (i # 1 => i - 1 \in 1 .. m - 1)
          BY <3>2
        <4>2. QED
          BY <2>3, <2>4, <4>1
      <3>3. QED
        BY <3>1, <3>2
    <2>7. Flattens(h, seqs, m)
      BY <2>5, <2>6 DEF Flattens
    <2>8. QED
      BY <1>1, <2>7
  <1>4. QED
    BY <1>2, <1>3

LEMMA FlattensSequences ==
  ASSUME NEW S, NEW n \in Nat \ {0}, NEW seqs \in [1 .. n -> Seq(S)], NEW g, Flattens(g, seqs, n)
  PROVE  \A i \in 1 .. n : g[i] \in Seq(S)
  <1> DEFINE Strays == {i \in 1 .. n : g[i] \notin Seq(S)}
  <1> SUFFICES ASSUME Strays # {} PROVE FALSE
    OBVIOUS
  <1>1. PICK m \in Strays : \A j \in Strays : m <= j
    <2>1. Strays \subseteq 1 .. n
      OBVIOUS
    <2> HIDE DEF Strays
    <2>2. QED
      BY <2>1, LeastNumber
  <1>2. g[m] = IF m = 1 THEN seqs[m] ELSE g[m-1] \o seqs[m]
    BY DEF Flattens
  <1>3. m # 1 => m - 1 \in 1 .. n /\ m - 1 \notin Strays
    BY <1>1
  <1>4. m # 1 => g[m-1] \o seqs[m] \in Seq(S)
    BY <1>3, ConcatProperties
  <1>5. QED
    BY <1>2, <1>4

LEMMA FlattenedSequence ==
  ASSUME NEW S, NEW seqs \in Seq(Seq(S))
  PROVE  FlattenSeq(seqs) \in Seq(S)
  <1>1. CASE Len(seqs) = 0
    <2>1. seqs = <<>>
      BY <1>1
    <2>2. QED
      BY <1>1, <2>1 DEF FlattenSeq
  <1>2. CASE Len(seqs) # 0
    <2> DEFINE n == Len(seqs)
               g == CHOOSE f : Flattens(f, seqs, n)
    <2>1. n \in Nat \ {0} /\ seqs \in [1 .. n -> Seq(S)]
      BY <1>2
    <2>2. Flattens(g, seqs, n)
      <3> HIDE DEF n
      <3>1. \E f : Flattens(f, seqs, n)
        BY <2>1, FlattensExist
      <3>2. QED
        BY <3>1
    <2>3. FlattenSeq(seqs) = g[n]
      BY <1>2 DEF FlattenSeq, Flattens
    <2> HIDE DEF n, g
    <2>4. n \in 1 .. n
      BY <2>1
    <2>5. g[n] \in Seq(S)
      BY <2>1, <2>2, <2>4, FlattensSequences
    <2>6. QED
      BY <2>3, <2>5
  <1>3. QED
    BY <1>1, <1>2

-----------------------------------------------------------------------------
(* Roads and journeys *)

\* A recorded event that has read its journey and route, and has yet to write.
Recording(c) == Op(c) = "event" /\ pc[c] \in {"event", "stops", "pointer"}

RoadsInv ==
    /\ routes = [r \in DOMAIN routes |-> routes[r]]
    /\ journeys = [j \in DOMAIN journeys |-> journeys[j]]
    /\ \A r \in DOMAIN routes : "stops" \in DOMAIN routes[r] /\ routes[r].stops \in Seq(StopMarks)
    /\ \A j \in DOMAIN journeys :
           /\ DOMAIN journeys[j] = {"route", "at", "over"} /\ journeys[j].at \in Nat \ {0}
           /\ RouteOf(j) \in DOMAIN routes

\* What a request is about to make is not there yet, and its route is.
Fresh(c) ==
    /\ Op(c) = "route" /\ pc[c] = "start" => c \notin DOMAIN routes
    /\ Op(c) = "journey" /\ pc[c] \in {"start", "find", "create"} => c \notin DOMAIN journeys
    /\ Op(c) = "journey" /\ pc[c] \in {"find", "create"} => sent[c].route \in DOMAIN routes

\* On a route whose events come one by one, what an event has read is so still;
\* once it has written the stops, the one it read as current is completed.
Current(c) ==
    LET r == saw[c].route  at == saw[c].at IN
    /\ journeys[J(c)].at = at /\ Len(routes[r].stops) = Len(saw[c].stops)
    /\ pc[c] # "pointer" => routes[r].stops = saw[c].stops
    /\ pc[c] = "pointer" /\ at \in 1 .. Len(routes[r].stops) => routes[r].stops[at] = "COMPLETED"

Read(c) ==
    Recording(c) =>
        /\ J(c) \in DOMAIN journeys /\ DOMAIN saw[c] = {"route", "at", "stops"}
        /\ saw[c].route = RouteOf(J(c)) /\ saw[c].at \in Nat \ {0} /\ saw[c].stops \in Seq(StopMarks)
        /\ saw[c].route \notin blurred => Current(c)

Passed(j) ==
    \A i \in 1 .. journeys[j].at - 1 : /\ i <= Len(routes[RouteOf(j)].stops)
                                       /\ routes[RouteOf(j)].stops[i] = "COMPLETED"

TravelInv ==
    /\ RoadsInv
    /\ \A c \in Come : Fresh(c) /\ Read(c)
    /\ \A c, d \in Come : c # d /\ Recording(c) /\ Recording(d) /\ saw[c].route = saw[d].route
                              => saw[c].route \in blurred
    /\ \A i, j \in DOMAIN journeys : i # j /\ RouteOf(i) = RouteOf(j) => RouteOf(j) \in blurred
    /\ \A j \in DOMAIN journeys : RouteOf(j) \notin blurred => Passed(j)

\* What a step of no traveller leaves as it is.
Ways == <<routes, journeys, blurred>>

LEMMA TravelStays ==
  ASSUME RequestInv, TravelInv, Apart(TravelOps), UNCHANGED Ways
  PROVE  TravelInv'
  <1>1. UNCHANGED <<routes, journeys, blurred, sent>> /\ Come' = Come
    BY DEF Ways, Apart
  <1>2. ASSUME NEW c \in Come, Op(c) \in TravelOps
        PROVE  saw'[c] = saw[c] /\ pc'[c] \in {pc[c], "dead"}
    BY <1>2 DEF Apart
  <1>3. \A c \in Come : Fresh(c)'
    BY <1>1, <1>2 DEF TravelInv, Fresh, Op, TravelOps
  <1>4. \A c \in Come : Recording(c)' => Recording(c) /\ pc'[c] = pc[c] /\ saw'[c] = saw[c]
    BY <1>1, <1>2 DEF Recording, Op, TravelOps
  <1>5. \A c \in Come : Read(c)'
    BY <1>1, <1>4 DEF TravelInv, Read, Current, J, RouteOf
  <1>6. RoadsInv'
    BY <1>1 DEF TravelInv, RoadsInv, RouteOf
  <1>7. \A c, d \in Come : c # d /\ Recording(c)' /\ Recording(d)' /\ saw'[c].route = saw'[d].route
                               => saw'[c].route \in blurred
    BY <1>4 DEF TravelInv
  <1>8. QED
    BY <1>1, <1>3, <1>5, <1>6, <1>7 DEF TravelInv, RouteOf, Passed

\* A step of c that changes no route and no journey: only what c is about to do.
LEMMA TravelOwn ==
  ASSUME RequestInv, TravelInv, NEW c \in Come, Goes(c), UNCHANGED Ways,
         Fresh(c)', Recording(c)' => Recording(c) /\ Read(c)' /\ saw'[c] = saw[c]
  PROVE  TravelInv'
  <1>1. UNCHANGED <<routes, journeys, blurred, sent>>
    BY DEF Ways, Goes
  <1>2. Come' = Come /\ \A d \in Come \ {c} : pc'[d] = pc[d] /\ saw'[d] = saw[d]
    BY RequestsGo
  <1>3. \A d \in Come \ {c} : Fresh(d)' /\ Read(d)' /\ (Recording(d)' => Recording(d) /\ saw'[d] = saw[d])
    BY <1>1, <1>2 DEF TravelInv, Fresh, Read, Recording, Current, J, RouteOf, Op
  <1>4. Read(c)'
    BY DEF Read
  <1>5. RoadsInv'
    BY <1>1 DEF TravelInv, RoadsInv, RouteOf
  <1>6. \A d \in Come : Recording(d)' => Recording(d) /\ saw'[d] = saw[d]
    BY <1>3
  <1>7. \A i, d \in Come : i # d /\ Recording(i)' /\ Recording(d)' /\ saw'[i].route = saw'[d].route
                               => saw'[i].route \in blurred
    BY <1>6 DEF TravelInv
  <1>8. QED
    BY <1>1, <1>2, <1>3, <1>4, <1>5, <1>7 DEF TravelInv, RouteOf, Passed

\* The steps of a traveller that leave the roads as they are.
LEMMA QuietTravel ==
  ASSUME RequestInv, TravelInv, NEW c \in Come, Goes(c),
         \/ Op(c) \in {"routeEdit", "journey"} /\ RouteRead(c)
         \/ Op(c) = "journey" /\ (JourneyFind(c) \/ JourneyTell(c))
         \/ Op(c) = "event" /\ (EventCreate(c) \/ DelayRaise(c) \/ JourneyTell(c))
  PROVE  TravelInv'
  <1>1. UNCHANGED Ways /\ UNCHANGED sent /\ UNCHANGED saw
    BY DEF RouteRead, JourneyFind, JourneyTell, EventCreate, DelayRaise, Ways, viharVars, Goes, Forget
  <1>2. Fresh(c) /\ Read(c)
    BY DEF TravelInv
  <1>3. CASE Op(c) \in {"routeEdit", "journey"} /\ RouteRead(c)
    <2>1. pc[c] = "start" /\ pc'[c] \in {"refused", "find", "write"}
      BY <1>3 DEF RouteRead, Permit, Move, Goto, RequestInv
    <2>2. pc'[c] = "find" => sent[c].route \in DOMAIN routes
      BY <1>3 DEF RouteRead, Permit, Move, Goto, RequestInv
    <2>3. Fresh(c)'
      BY <1>1, <1>2, <1>3, <2>1, <2>2 DEF Fresh, Op, Ways
    <2>4. ~Recording(c)'
      BY <1>1, <1>3 DEF Recording, Op
    <2>5. QED
      BY <1>1, <2>3, <2>4, TravelOwn
  <1>4. CASE Op(c) = "journey" /\ JourneyFind(c)
    <2>1. pc[c] = "find" /\ pc'[c] \in {"refused", "create"}
      BY <1>4 DEF JourneyFind, Move, Goto, RequestInv
    <2>2. Fresh(c)'
      BY <1>1, <1>2, <1>4, <2>1 DEF Fresh, Op, Ways
    <2>3. ~Recording(c)'
      BY <1>1, <1>4 DEF Recording, Op
    <2>4. QED
      BY <1>1, <2>2, <2>3, TravelOwn
  <1>5. CASE Op(c) \in {"journey", "event"} /\ JourneyTell(c)
    <2>1. pc'[c] = "done"
      BY <1>5 DEF JourneyTell, Move, Goto, RequestInv
    <2>2. Fresh(c)' /\ ~Recording(c)'
      BY <1>1, <1>5, <2>1 DEF Fresh, Recording, Op
    <2>3. QED
      BY <1>1, <2>2, TravelOwn
  <1>6. CASE Op(c) = "event" /\ EventCreate(c)
    <2>1. pc[c] = "event" /\ pc'[c] \in {"stops", "done"}
      BY <1>6 DEF EventCreate, Move, Goto, RequestInv
    <2>2. Fresh(c)' /\ Recording(c)
      BY <1>1, <1>6, <2>1 DEF Fresh, Recording, Op
    <2>3. Read(c)'
      BY <1>1, <1>2, <2>1, <2>2 DEF Read, Recording, Current, J, RouteOf, Ways
    <2>4. QED
      BY <1>1, <2>2, <2>3, TravelOwn
  <1>7. CASE Op(c) = "event" /\ DelayRaise(c)
    <2>1. pc'[c] \in {"done", "alert"}
      BY <1>7 DEF DelayRaise, Move, Goto, RequestInv
    <2>2. Fresh(c)' /\ ~Recording(c)'
      BY <1>1, <1>7, <2>1 DEF Fresh, Recording, Op
    <2>3. QED
      BY <1>1, <2>2, TravelOwn
  <1>8. QED
    BY <1>3, <1>4, <1>5, <1>6, <1>7

\* A step that changes the roads: what it has to keep of the others.
LEMMA TravelOthers ==
  ASSUME RequestInv, NEW c \in Come, Goes(c), RoadsInv', Fresh(c)', Read(c)',
         \A d \in Come \ {c} : Fresh(d) /\ Read(d) => Fresh(d)' /\ Read(d)',
         TravelInv, blurred \subseteq blurred',
         Recording(c)' /\ saw'[c].route \notin blurred' =>
             \A d \in Come \ {c} : Recording(d) => saw[d].route # saw'[c].route,
         \A i, j \in (DOMAIN journeys)' : i # j /\ RouteOf(i)' = RouteOf(j)' => RouteOf(i)' \in blurred',
         \A j \in (DOMAIN journeys)' : RouteOf(j)' \notin blurred' => Passed(j)'
  PROVE  TravelInv'
  <1>1. /\ Come' = Come /\ UNCHANGED sent
        /\ \A d \in Come \ {c} : pc'[d] = pc[d] /\ saw'[d] = saw[d]
    BY RequestsGo DEF Goes
  <1>2. \A d \in Come : Fresh(d)' /\ Read(d)'
    BY DEF TravelInv
  <1>3. \A d \in Come \ {c} : Recording(d)' <=> Recording(d)
    BY <1>1 DEF Recording, Op
  <1>4. ASSUME NEW i \in Come, NEW d \in Come, i # d, Recording(i)', Recording(d)', saw'[i].route = saw'[d].route
        PROVE  saw'[i].route \in blurred'
    <2>1. CASE i = c
      BY <1>1, <1>3, <1>4, <2>1
    <2>2. CASE d = c
      BY <1>1, <1>3, <1>4, <2>2
    <2>3. CASE i # c /\ d # c
      BY <1>1, <1>3, <1>4, <2>3 DEF TravelInv
    <2>4. QED
      BY <2>1, <2>2, <2>3
  <1>5. QED
    BY <1>1, <1>2, <1>4 DEF TravelInv

\* The stops of a route are written back: by an edit, or by an event that has
\* read them and leaves what is behind it as it was.
LEMMA StopsWritten ==
  ASSUME RequestInv, TravelInv, NEW c \in Come, Goes(c), NEW r, NEW s \in Seq(StopMarks),
         routes' = [routes EXCEPT ![r].stops = s], UNCHANGED journeys, blurred \subseteq blurred',
         r \in blurred' \/ /\ Recording(c) /\ pc[c] = "stops" /\ saw[c].route = r
                           /\ Len(s) = Len(saw[c].stops)
                           /\ \A i \in 1 .. saw[c].at - 1 : s[i] = saw[c].stops[i],
         Fresh(c)', Read(c)', Recording(c)' => Recording(c) /\ saw'[c] = saw[c]
  PROVE  TravelInv'
  <1>1. /\ Come' = Come /\ UNCHANGED sent
        /\ \A d \in Come \ {c} : pc'[d] = pc[d] /\ saw'[d] = saw[d]
    BY RequestsGo DEF Goes
  <1>2. /\ DOMAIN routes' = DOMAIN routes /\ routes' = [q \in DOMAIN routes' |-> routes'[q]]
        /\ \A q \in DOMAIN routes \ {r} : routes'[q] = routes[q]
        /\ r \in DOMAIN routes => routes'[r] = [routes[r] EXCEPT !.stops = s]
    BY DEF TravelInv, RoadsInv
  <1>3. r \in DOMAIN routes => "stops" \in DOMAIN routes'[r] /\ routes'[r].stops = s
    BY <1>2 DEF TravelInv, RoadsInv
  <1>4. RoadsInv'
    BY <1>2, <1>3 DEF TravelInv, RoadsInv, RouteOf
  <1>5. ASSUME NEW d \in Come \ {c}, Fresh(d), Read(d)
        PROVE  Fresh(d)' /\ Read(d)'
    <2>1. Fresh(d)'
      BY <1>1, <1>2, <1>5 DEF Fresh, Op
    <2>2. SUFFICES ASSUME Recording(d)
                   PROVE  Read(d)'
      BY <1>1, <2>1 DEF Recording, Read, Op
    <2>3. saw[d].route \in DOMAIN routes
      BY <1>5, <2>2 DEF Read, TravelInv, RoadsInv
    <2>4. saw[d].route = r => r \in blurred'
      BY <2>2 DEF TravelInv
    <2>5. CASE saw[d].route \in blurred'
      BY <1>1, <1>5, <2>1, <2>2, <2>5 DEF Read, J, RouteOf
    <2>6. CASE saw[d].route \notin blurred'
      <3>1. routes'[saw[d].route] = routes[saw[d].route] /\ Current(d)
        BY <1>2, <1>5, <2>2, <2>3, <2>4, <2>6 DEF Read
      <3>2. Current(d)'
        BY <1>1, <3>1 DEF Current, J
      <3>3. QED
        BY <1>1, <1>5, <2>1, <2>2, <3>2 DEF Read, J, RouteOf
    <2>7. QED
      BY <2>1, <2>5, <2>6
  <1>6. ASSUME NEW j \in DOMAIN journeys, RouteOf(j) \notin blurred'
        PROVE  Passed(j)'
    <2>1. Passed(j) /\ RouteOf(j) \in DOMAIN routes
      BY <1>6 DEF TravelInv, RoadsInv
    <2>2. CASE RouteOf(j) # r
      BY <1>2, <2>1, <2>2 DEF Passed, RouteOf
    <2>3. CASE RouteOf(j) = r
      <3>1. /\ Recording(c) /\ pc[c] = "stops" /\ saw[c].route = r /\ Len(s) = Len(saw[c].stops)
            /\ \A i \in 1 .. saw[c].at - 1 : s[i] = saw[c].stops[i]
        BY <1>6, <2>3
      <3>2. J(c) \in DOMAIN journeys /\ RouteOf(J(c)) = r /\ Current(c)
        BY <1>6, <2>3, <3>1 DEF TravelInv, Read
      <3>3. j = J(c)
        BY <1>6, <2>3, <3>2 DEF TravelInv
      <3>4. journeys[j].at = saw[c].at /\ routes[r].stops = saw[c].stops
        BY <3>1, <3>2, <3>3 DEF Current
      <3>5. routes'[r].stops = s
        BY <1>3, <2>1, <2>3
      <3>6. \A i \in 1 .. journeys[j].at - 1 : i <= Len(s) /\ s[i] = "COMPLETED"
        BY <2>1, <2>3, <3>1, <3>4 DEF Passed
      <3>7. QED
        BY <2>3, <3>5, <3>6 DEF Passed, RouteOf
    <2>4. QED
      BY <2>2, <2>3
  <1>7. \A i, j \in DOMAIN journeys' : i # j /\ RouteOf(i)' = RouteOf(j)' => RouteOf(i)' \in blurred'
    BY DEF TravelInv, RouteOf
  <1>8. Recording(c)' /\ saw'[c].route \notin blurred' =>
             \A d \in Come \ {c} : Recording(d) => saw[d].route # saw'[c].route
    BY DEF TravelInv
  <1>9. \A j \in DOMAIN journeys' : RouteOf(j)' \notin blurred' => Passed(j)'
    BY <1>6 DEF RouteOf
  <1>10. QED
    BY <1>4, <1>5, <1>7, <1>8, <1>9, TravelOthers

LEMMA RouteTravel ==
  ASSUME RequestInv, TravelInv, NEW c \in Come, Goes(c), Op(c) = "route", CreateRoute(c)
  PROVE  TravelInv'
  <1> DEFINE row == [monk |-> sent[c].monk, stops |-> [i \in 1 .. sent[c].stops |-> "PENDING"]]
  <1>1. /\ UNCHANGED <<journeys, blurred, sent, saw>> /\ pc[c] = "start" /\ pc'[c] \in {"done", "refused"}
        /\ routes' = routes \/ routes' = Put(routes, c, row)
    BY DEF CreateRoute, Permit, Move, Goto, Forget, RequestInv
  <1>2. Fresh(c)' /\ ~Recording(c)' /\ ~Recording(c)
    BY <1>1 DEF Fresh, Recording, Op
  <1>3. CASE routes' = routes
    BY <1>1, <1>2, <1>3, TravelOwn DEF Ways
  <1>4. CASE routes' = Put(routes, c, row)
    <2>1. c \notin DOMAIN routes
      BY <1>1 DEF TravelInv, Fresh
    <2>2. row.stops \in Seq(StopMarks) /\ "stops" \in DOMAIN row
      <3>1. sent[c].stops \in Nat
        BY TrackingAssumption DEF RequestInv, Op
      <3>2. [i \in 1 .. sent[c].stops |-> "PENDING"] \in Seq(StopMarks)
        BY <3>1 DEF StopMarks
      <3>3. QED
        BY <3>2
    <2> HIDE DEF row
    <2>3. /\ DOMAIN routes' = DOMAIN routes \union {c} /\ routes' = [q \in DOMAIN routes' |-> routes'[q]]
          /\ routes'[c] = row /\ \A q \in DOMAIN routes : routes'[q] = routes[q]
      BY <1>4, <2>1 DEF Put
    <2>4. RoadsInv'
      BY <1>1, <2>2, <2>3 DEF TravelInv, RoadsInv, RouteOf
    <2>5. /\ Come' = Come
          /\ \A d \in Come \ {c} : pc'[d] = pc[d] /\ saw'[d] = saw[d]
      BY RequestsGo
    <2>6. ASSUME NEW d \in Come \ {c}, Fresh(d), Read(d)
          PROVE  Fresh(d)' /\ Read(d)'
      <3>1. Fresh(d)'
        BY <1>1, <2>3, <2>5, <2>6 DEF Fresh, Op
      <3>2. SUFFICES ASSUME Recording(d)
                     PROVE  Read(d)'
        BY <1>1, <2>5, <3>1 DEF Recording, Read, Op
      <3>3. saw[d].route \in DOMAIN routes
        BY <2>6, <3>2 DEF Read, TravelInv, RoadsInv
      <3>4. QED
        BY <1>1, <2>3, <2>5, <2>6, <3>2, <3>3 DEF Read, Current, J, RouteOf
    <2>7. \A j \in DOMAIN journeys' : RouteOf(j)' \notin blurred' => Passed(j)'
      BY <1>1, <2>3 DEF TravelInv, RoadsInv, Passed, RouteOf
    <2>8. \A i, j \in DOMAIN journeys' : i # j /\ RouteOf(i)' = RouteOf(j)' => RouteOf(i)' \in blurred'
      BY <1>1 DEF TravelInv, RouteOf
    <2>9. Read(c)'
      BY <1>2 DEF Read
    <2>10. QED
      BY <1>1, <1>2, <2>4, <2>6, <2>7, <2>8, <2>9, TravelOthers
  <1>5. QED
    BY <1>1, <1>3, <1>4

LEMMA RouteEditTravel ==
  ASSUME RequestInv, TravelInv, NEW c \in Come, Goes(c), Op(c) = "routeEdit", RouteWrite(c)
  PROVE  TravelInv'
  <1> DEFINE s == [i \in 1 .. sent[c].stops |-> "NONE"]
  <1>1. /\ UNCHANGED <<journeys, sent, saw>> /\ pc'[c] = "done"
        /\ routes' = [routes EXCEPT ![sent[c].route].stops = s]
        /\ blurred' = blurred \union {sent[c].route}
    BY DEF RouteWrite, Move, Goto, Forget, RequestInv
  <1>2. s \in Seq(StopMarks)
    <2>1. sent[c].stops \in Nat
      BY TrackingAssumption DEF RequestInv, Op
    <2>2. QED
      BY <2>1 DEF StopMarks
  <1>3. Fresh(c)' /\ ~Recording(c)'
    BY <1>1 DEF Fresh, Recording, Op
  <1>4. Read(c)'
    BY <1>3 DEF Read
  <1> HIDE DEF s
  <1>5. QED
    BY <1>1, <1>2, <1>3, <1>4, StopsWritten

LEMMA JourneyTravel ==
  ASSUME RequestInv, TravelInv, NEW c \in Come, Goes(c), Op(c) = "journey", JourneyCreate(c)
  PROVE  TravelInv'
  <1> DEFINE r == sent[c].route
             row == [route |-> r, at |-> 1, over |-> FALSE]
  <1>1. /\ UNCHANGED <<routes, sent, saw>> /\ pc[c] = "create" /\ pc'[c] = "tell"
        /\ journeys' = Put(journeys, c, row) /\ blurred \subseteq blurred'
        /\ \A j \in DOMAIN journeys : RouteOf(j) = r => r \in blurred'
    BY DEF JourneyCreate, Move, Goto, Forget, RequestInv
  <1>2. Fresh(c)' /\ ~Recording(c)' /\ ~Recording(c)
    BY <1>1 DEF Fresh, Recording, Op
  <1>3. c \notin DOMAIN journeys /\ r \in DOMAIN routes
    BY <1>1 DEF TravelInv, Fresh
  <1>4. DOMAIN row = {"route", "at", "over"} /\ row.route = r /\ row.at = 1
    OBVIOUS
  <1> HIDE DEF row
  <1>5. /\ DOMAIN journeys' = DOMAIN journeys \union {c} /\ journeys' = [j \in DOMAIN journeys' |-> journeys'[j]]
        /\ journeys'[c] = row /\ \A j \in DOMAIN journeys : journeys'[j] = journeys[j]
    BY <1>1, <1>3 DEF Put
  <1>6. RoadsInv'
    BY <1>1, <1>3, <1>4, <1>5 DEF TravelInv, RoadsInv, RouteOf
  <1>7. Come' = Come /\ \A d \in Come \ {c} : pc'[d] = pc[d] /\ saw'[d] = saw[d]
    BY RequestsGo
  <1>8. ASSUME NEW d \in Come \ {c}, Fresh(d), Read(d)
        PROVE  Fresh(d)' /\ Read(d)'
    <2>1. Fresh(d)'
      BY <1>1, <1>5, <1>7, <1>8 DEF Fresh, Op
    <2>2. Read(d)'
      BY <1>1, <1>5, <1>7, <1>8 DEF Read, Recording, Current, J, RouteOf, Op
    <2>3. QED
      BY <2>1, <2>2
  <1>9. \A i, j \in DOMAIN journeys' : i # j /\ RouteOf(i)' = RouteOf(j)' => RouteOf(i)' \in blurred'
    BY <1>1, <1>4, <1>5 DEF TravelInv, RouteOf
  <1>10. \A j \in DOMAIN journeys' : RouteOf(j)' \notin blurred' => Passed(j)'
    BY <1>1, <1>4, <1>5 DEF TravelInv, Passed, RouteOf
  <1>11. Read(c)'
    BY <1>2 DEF Read
  <1>12. QED
    BY <1>1, <1>2, <1>6, <1>8, <1>9, <1>10, <1>11, TravelOthers

\* Events that overlap on a route are noted when the later of them reads it.
LEMMA EventTravel ==
  ASSUME RequestInv, TravelInv, NEW c \in Come, Goes(c), Op(c) = "event", EventRead(c)
  PROVE  TravelInv'
  <1>1. /\ UNCHANGED <<routes, journeys, sent>> /\ pc[c] = "start"
        /\ pc'[c] \in {"event", "refused"} /\ blurred \subseteq blurred'
        /\ pc'[c] = "event" => J(c) \in DOMAIN journeys
    BY DEF EventRead, Permit, Move, Goto, RequestInv
  <1>2. Fresh(c)' /\ ~Recording(c)
    BY <1>1 DEF Fresh, Recording, Op
  <1>3. CASE J(c) \notin DOMAIN journeys
    <2>1. UNCHANGED Ways /\ ~Recording(c)'
      BY <1>1, <1>3 DEF EventRead, Ways, Recording
    <2>2. QED
      BY <1>2, <2>1, TravelOwn
  <1>4. CASE J(c) \in DOMAIN journeys
    <2> DEFINE r == RouteOf(J(c))
               seen == [route |-> r, at |-> journeys[J(c)].at, stops |-> routes[r].stops]
    <2>1. saw' = [saw EXCEPT ![c] = seen]
      BY <1>4 DEF EventRead, Keep
    <2>2. saw'[c] = seen
      BY <2>1 DEF RequestInv
    <2>3. (\E d \in Open \ {c} : Op(d) = "event" /\ saw[d] # <<>> /\ saw[d].route = r) => r \in blurred'
      BY <1>4 DEF EventRead
    <2>4. ASSUME NEW d \in Come \ {c}, Recording(d), saw[d].route = r
          PROVE  r \in blurred'
      <3>1. DOMAIN saw[d] = {"route", "at", "stops"}
        BY <2>4 DEF TravelInv, Read
      <3>2. saw[d] # <<>>
        <4>1. "route" \in DOMAIN saw[d] /\ "route" \notin DOMAIN <<>>
          BY <3>1
        <4>2. QED
          BY <4>1
      <3>3. d \in Open \ {c} /\ Op(d) = "event"
        BY <2>4 DEF Recording, Open, Ended
      <3>4. QED
        BY <2>3, <2>4, <3>2, <3>3
    <2>5. DOMAIN seen = {"route", "at", "stops"} /\ seen.route = r /\ seen.at = journeys[J(c)].at /\ seen.stops = routes[r].stops
      OBVIOUS
    <2> HIDE DEF seen
    <2>6. Read(c)'
      BY <1>1, <1>4, <2>2, <2>5 DEF Read, Recording, Current, TravelInv, RoadsInv, J, RouteOf, Op
    <2>7. Come' = Come /\ \A d \in Come \ {c} : pc'[d] = pc[d] /\ saw'[d] = saw[d]
      BY RequestsGo
    <2>8. \A d \in Come \ {c} : Fresh(d) /\ Read(d) => Fresh(d)' /\ Read(d)'
      BY <1>1, <2>7 DEF Fresh, Read, Recording, Current, J, RouteOf, Op
    <2>9. RoadsInv'
      BY <1>1 DEF TravelInv, RoadsInv, RouteOf
    <2>10. Recording(c)' /\ saw'[c].route \notin blurred' =>
               \A d \in Come \ {c} : Recording(d) => saw[d].route # saw'[c].route
      BY <2>2, <2>4, <2>5
    <2>11. \A i, j \in DOMAIN journeys' : i # j /\ RouteOf(i)' = RouteOf(j)' => RouteOf(i)' \in blurred'
      BY <1>1 DEF TravelInv, RouteOf
    <2>12. \A j \in DOMAIN journeys' : RouteOf(j)' \notin blurred' => Passed(j)'
      BY <1>1 DEF TravelInv, Passed, RouteOf
    <2>13. QED
      BY <1>1, <1>2, <2>6, <2>8, <2>9, <2>10, <2>11, <2>12, TravelOthers
  <1>5. QED
    BY <1>3, <1>4

\* The stops first, then the journey: a death between the two loses nothing.
LEMMA MarkTravel ==
  ASSUME RequestInv, TravelInv, NEW c \in Come, Goes(c), Op(c) = "event",
         pc[c] = "stops", NEW mark \in StopMarks, mark = "COMPLETED" \/ pc'[c] = "raise",
         pc'[c] \in {"pointer", "raise"}, pc'[c] = "pointer" => UNCHANGED saw,
         routes' = [routes EXCEPT ![saw[c].route].stops = Marked(c, mark)],
         UNCHANGED <<journeys, blurred>>
  PROVE  TravelInv'
  <1>1. /\ Recording(c) /\ Read(c) /\ J(c) \in DOMAIN journeys /\ saw[c].route = RouteOf(J(c))
        /\ saw[c].at \in Nat \ {0} /\ saw[c].stops \in Seq(StopMarks)
    BY DEF Recording, TravelInv, Read
  <1>2. Marked(c, mark) \in Seq(StopMarks) /\ Len(Marked(c, mark)) = Len(saw[c].stops)
    BY <1>1 DEF Marked
  <1>3. \A i \in 1 .. Len(saw[c].stops) :
            Marked(c, mark)[i] = IF i = saw[c].at THEN mark ELSE saw[c].stops[i]
    BY <1>1 DEF Marked
  <1>4. saw[c].route \notin blurred => /\ Current(c) /\ saw[c].at - 1 <= Len(saw[c].stops)
    BY <1>1 DEF Read, Current, TravelInv, Passed
  <1>5. saw[c].route \notin blurred => \A i \in 1 .. saw[c].at - 1 : Marked(c, mark)[i] = saw[c].stops[i]
    BY <1>1, <1>3, <1>4
  <1>6. UNCHANGED sent /\ Fresh(c)'
    BY DEF Fresh, Op, Goes
  <1>7. saw[c].route \in DOMAIN routes /\ routes'[saw[c].route].stops = Marked(c, mark)
    BY <1>1 DEF TravelInv, RoadsInv
  <1>8. Read(c)'
    BY <1>1, <1>2, <1>3, <1>4, <1>6, <1>7 DEF Read, Recording, Current, J, RouteOf, Op
  <1>9. Recording(c)' => saw'[c] = saw[c]
    BY DEF Recording
  <1> DEFINE r == saw[c].route
             s == Marked(c, mark)
  <1>10. QED
    BY <1>1, <1>2, <1>5, <1>6, <1>8, <1>9, StopsWritten

LEMMA MoveTravel ==
  ASSUME RequestInv, TravelInv, NEW c \in Come, Goes(c), Op(c) = "event",
         pc[c] = "pointer", pc'[c] = "tell", journeys' = MoveOn(c), UNCHANGED <<routes, blurred, saw>>
  PROVE  TravelInv'
  <1> DEFINE j == J(c)
             row == IF saw[c].at >= Len(saw[c].stops)
                    THEN [journeys[j] EXCEPT !.at = saw[c].at, !.over = TRUE]
                    ELSE [journeys[j] EXCEPT !.at = saw[c].at + 1]
  <1>1. /\ Recording(c) /\ Read(c) /\ j \in DOMAIN journeys /\ saw[c].route = RouteOf(j)
        /\ saw[c].at \in Nat \ {0} /\ saw[c].stops \in Seq(StopMarks)
    BY DEF Recording, TravelInv, Read
  <1>2. journeys' = [journeys EXCEPT ![j] = row]
    BY DEF MoveOn
  <1>3. /\ DOMAIN row = {"route", "at", "over"} /\ row.route = RouteOf(j)
        /\ row.at = IF saw[c].at >= Len(saw[c].stops) THEN saw[c].at ELSE saw[c].at + 1
    BY <1>1 DEF TravelInv, RoadsInv, RouteOf
  <1> HIDE DEF row
  <1>4. /\ DOMAIN journeys' = DOMAIN journeys /\ journeys' = [i \in DOMAIN journeys' |-> journeys'[i]]
        /\ \A i \in DOMAIN journeys : journeys'[i] = IF i = j THEN row ELSE journeys[i]
    BY <1>2 DEF TravelInv, RoadsInv
  <1>5. \A i \in DOMAIN journeys : RouteOf(i)' = RouteOf(i)
    BY <1>3, <1>4 DEF RouteOf
  <1>6. row.at \in Nat \ {0}
    BY <1>1, <1>3
  <1>7. RoadsInv'
    BY <1>3, <1>4, <1>5, <1>6 DEF TravelInv, RoadsInv
  <1>8. UNCHANGED sent /\ Come' = Come /\ \A d \in Come \ {c} : pc'[d] = pc[d] /\ saw'[d] = saw[d]
    BY RequestsGo DEF Goes
  <1>9. Fresh(c)' /\ ~Recording(c)'
    BY <1>8 DEF Fresh, Recording, Op
  <1>10. ASSUME NEW d \in Come \ {c}, Fresh(d), Read(d)
         PROVE  Fresh(d)' /\ Read(d)'
    <2>1. Fresh(d)'
      BY <1>4, <1>8, <1>10 DEF Fresh, Op
    <2>2. SUFFICES ASSUME Recording(d)
                   PROVE  Read(d)'
      BY <1>8, <2>1 DEF Recording, Read, Op
    <2>3. J(d) \in DOMAIN journeys /\ saw[d].route = RouteOf(J(d))
      BY <1>10, <2>2 DEF Read
    <2>4. saw[d].route = saw[c].route => saw[d].route \in blurred
      BY <1>1, <2>2 DEF TravelInv
    <2>5. CASE saw[d].route \in blurred
      BY <1>4, <1>5, <1>8, <1>10, <2>2, <2>3, <2>5 DEF Read, J
    <2>6. CASE saw[d].route \notin blurred
      <3>1. J(d) # j /\ Current(d)
        BY <1>1, <1>10, <2>2, <2>3, <2>4, <2>6 DEF Read
      <3>2. Current(d)'
        BY <1>4, <1>8, <2>3, <3>1 DEF Current, J
      <3>3. QED
        BY <1>4, <1>5, <1>8, <1>10, <2>2, <2>3, <3>2 DEF Read, J
    <2>7. QED
      BY <2>5, <2>6
  <1>11. \A i, k \in DOMAIN journeys' : i # k /\ RouteOf(i)' = RouteOf(k)' => RouteOf(i)' \in blurred'
    BY <1>4, <1>5 DEF TravelInv
  <1>12. ASSUME NEW i \in DOMAIN journeys, RouteOf(i) \notin blurred
         PROVE  Passed(i)'
    <2>1. Passed(i)
      BY <1>12 DEF TravelInv
    <2>2. CASE i # j
      BY <1>4, <1>5, <2>1, <2>2 DEF Passed
    <2>3. CASE i = j
      <3>1. Current(c) /\ Len(routes[RouteOf(j)].stops) = Len(saw[c].stops)
        BY <1>1, <1>12, <2>3 DEF Read, Current
      <3>2. journeys[j].at = saw[c].at
        BY <3>1 DEF Current
      <3>3. Len(saw[c].stops) \in Nat
        BY <1>1
      <3>4. saw[c].at \in 1 .. Len(saw[c].stops) => routes[RouteOf(j)].stops[saw[c].at] = "COMPLETED"
        BY <1>1, <3>1 DEF Current
      <3>5. journeys'[i].at = row.at
        BY <1>4, <2>3
      <3>6. \A n \in 1 .. row.at - 1 : n <= Len(saw[c].stops) /\ routes[RouteOf(j)].stops[n] = "COMPLETED"
        <4>1. \A n \in 1 .. saw[c].at - 1 : n <= Len(saw[c].stops) /\ routes[RouteOf(j)].stops[n] = "COMPLETED"
          BY <2>1, <2>3, <3>1, <3>2 DEF Passed
        <4>2. QED
          BY <1>1, <1>3, <3>3, <3>4, <4>1
      <3>7. QED
        BY <1>5, <2>3, <3>1, <3>5, <3>6 DEF Passed
    <2>4. QED
      BY <2>2, <2>3
  <1>13. \A i \in DOMAIN journeys' : RouteOf(i)' \notin blurred' => Passed(i)'
    BY <1>4, <1>5, <1>12
  <1>14. Read(c)'
    BY <1>9 DEF Read
  <1>15. QED
    BY <1>7, <1>9, <1>10, <1>11, <1>13, <1>14, TravelOthers

LEMMA ViharTravel ==
  ASSUME RequestInv, TravelInv, NEW c \in Come, ViharStep(c)
  PROVE  TravelInv'
  <1>1. Goes(c)
    BY ViharGoes
  <1>2. CASE Op(c) = "event" /\ Arrival(c)
    <2>1. UNCHANGED saw /\ UNCHANGED blurred
      BY <1>2 DEF Arrival, Forget
    <2>2. CASE Move(c, "stops", "pointer") /\ UNCHANGED journeys /\
               routes' = [routes EXCEPT ![saw[c].route].stops = Marked(c, "COMPLETED")]
      <3>1. pc[c] = "stops" /\ pc'[c] = "pointer"
        BY <2>2 DEF Move, Goto, RequestInv
      <3>2. "COMPLETED" \in StopMarks
        BY DEF StopMarks
      <3>3. QED
        BY <1>1, <1>2, <2>1, <2>2, <3>1, <3>2, MarkTravel
    <2>3. CASE Move(c, "pointer", "tell") /\ journeys' = MoveOn(c) /\ UNCHANGED routes
      <3>1. pc[c] = "pointer" /\ pc'[c] = "tell"
        BY <2>3 DEF Move, Goto, RequestInv
      <3>2. QED
        BY <1>1, <1>2, <2>1, <2>3, <3>1, MoveTravel
    <2>4. QED
      BY <1>2, <2>2, <2>3 DEF Arrival
  <1>3. CASE Op(c) = "event" /\ Delay(c)
    <2>1. /\ pc[c] = "stops" /\ pc'[c] = "raise" /\ UNCHANGED <<journeys, blurred>>
          /\ routes' = [routes EXCEPT ![saw[c].route].stops = Marked(c, "DELAYED")]
      BY <1>3 DEF Delay, Move, Goto, RequestInv
    <2>2. "DELAYED" \in StopMarks
      BY DEF StopMarks
    <2>3. QED
      BY <1>1, <1>3, <2>1, <2>2, MarkTravel
  <1>4. CASE Op(c) = "event" /\ (EventRead(c) \/ EventCreate(c) \/ DelayRaise(c) \/ JourneyTell(c))
    BY <1>1, <1>4, EventTravel, QuietTravel
  <1>5. CASE Op(c) = "journey" /\ (RouteRead(c) \/ JourneyFind(c) \/ JourneyCreate(c) \/ JourneyTell(c))
    BY <1>1, <1>5, JourneyTravel, QuietTravel
  <1>6. CASE Op(c) = "route" /\ CreateRoute(c)
    BY <1>1, <1>6, RouteTravel
  <1>7. CASE Op(c) = "routeEdit" /\ (RouteRead(c) \/ RouteWrite(c))
    BY <1>1, <1>7, RouteEditTravel, QuietTravel
  <1>8. CASE \/ Op(c) = "entry" /\ EntryCreate(c)
             \/ Op(c) \in {"entryEdit", "entryDelete"} /\ (EntryRead(c) \/ EntryWrite(c))
             \/ Op(c) \in {"routes", "journeys", "active", "timeline", "liveMap", "entries"} /\ TrackingRead(c)
    <2>1. UNCHANGED Ways
      BY <1>8 DEF EntryCreate, EntryRead, EntryWrite, TrackingRead, Ways, viharVars
    <2>2. Op(c) \notin TravelOps
      BY <1>8 DEF TravelOps
    <2>3. QED
      BY <1>1, <2>1, <2>2, GoesApart, TravelStays
  <1>9. QED
    BY <1>2, <1>3, <1>4, <1>5, <1>6, <1>7, <1>8 DEF ViharStep

LEMMA TravelStepInv ==
  ASSUME RequestInv, TravelInv, [Next]_vars
  PROVE  TravelInv'
  <1>1. ASSUME NEW c \in Come, Goes(c), Op(c) \notin TravelOps, UNCHANGED viharVars
        PROVE  TravelInv'
    BY <1>1, GoesApart, TravelStays DEF viharVars, Ways
  <1>2. ASSUME UNCHANGED request \/ \E c \in Come : Die(c), UNCHANGED viharVars
        PROVE  TravelInv'
    BY <1>2, QuietApart, TravelStays DEF viharVars, Ways
  <1>3. CASE CallStep
    <2>1. PICK c \in Busy :
              \/ /\ UNCHANGED viharVars
                 /\ \/ Entry(c) \/ AdminStep(c) \/ MemberStep(c) \/ StaffStep(c) \/ SiteStep(c)
                    \/ MonkStep(c) \/ OfficeStep(c) \/ WatchStep(c)
              \/ ViharStep(c)
      BY <1>3 DEF CallStep
    <2>2. c \in Come
      BY DEF Busy
    <2>3. CASE Entry(c) \/ AdminStep(c) \/ MemberStep(c) \/ StaffStep(c) \/ SiteStep(c)
               \/ MonkStep(c) \/ OfficeStep(c) \/ WatchStep(c)
      <3>1. Goes(c) /\ Op(c) \notin TravelOps
        BY <2>3, AccountGoes, AdminGoes, MemberGoes, StaffGoes, SiteGoes, MonkGoes, OfficeGoes, WatchGoes
           DEF Other
      <3>2. QED
        BY <1>1, <2>1, <2>2, <3>1, ViharTravel
    <2>4. QED
      BY <2>1, <2>2, <2>3, ViharTravel
  <1>4. CASE Elsewhere
    BY <1>2, <1>4 DEF Elsewhere
  <1>5. CASE UNCHANGED vars
    BY <1>2, <1>5 DEF vars, viharVars, request
  <1>6. QED
    BY <1>3, <1>4, <1>5 DEF Next

-----------------------------------------------------------------------------
(* Whose step it is, and what it leaves to the others                        *)

\* The tables of the sites, but for the desk, where others write too.
Grounds == <<sites, buildings, wings, rooms, reviews, chances, offers>>

\* What is not of accounts, members and staff.
Works == <<watchVars, viharVars, Grounds, monkVars, officeVars>>

LEMMA OfficeGrounds ==
  ASSUME NEW c, OfficeStep(c)
  PROVE  UNCHANGED Grounds
  <1> USE DEF base, siteVars, Grounds, Show
  <1>1. CASE HallEnters(c) \/ HallWrite(c) \/ HallBook(c) \/ HallStatus(c)
    BY <1>1 DEF HallEnters, HallWrite, HallBook, HallStatus
  <1>2. CASE HallList(c)
    BY <1>2 DEF HallList
  <1>3. CASE CaseEnters(c) \/ CaseNumber(c) \/ CaseCreate(c) \/ DecideEnters(c) \/ DecideWrite(c) \/ CaseList(c)
    BY <1>3 DEF CaseEnters, CaseNumber, CaseCreate, DecideEnters, DecideWrite, CaseList
  <1>4. CASE Tell(c, "done") \/ Tell(c, "types")
    BY <1>4 DEF Tell
  <1>5. CASE BulletinCreate(c) \/ BulletinCard(c) \/ Audience(c) \/ BulletinEdit(c)
    BY <1>5 DEF BulletinCreate, BulletinCard, Audience, BulletinEdit
  <1>6. CASE LetterSend(c) \/ LetterDelete(c) \/ LetterList(c)
    BY <1>6 DEF LetterSend, LetterDelete, LetterList
  <1>7. CASE TithiEnters(c) \/ TithiEntry(c) \/ Choose(c) \/ DailyRead(c)
    BY <1>7 DEF TithiEnters, TithiEntry, Choose, DailyRead
  <1>8. CASE ShelfPut(c) \/ ShelfWrite(c) \/ ShelfList(c)
    BY <1>8 DEF ShelfPut, ShelfWrite, ShelfList
  <1>9. CASE AdCreate(c) \/ AdRead(c) \/ AdWrite(c) \/ AdClick(c)
    BY <1>9 DEF AdCreate, AdRead, AdWrite, AdClick
  <1>10. QED
    BY <1>1, <1>2, <1>3, <1>4, <1>5, <1>6, <1>7, <1>8, <1>9 DEF OfficeStep

\* A step is of a request of one part, and leaves the tables of the others.
Turn(c) ==
    \/ (Entry(c) \/ AdminStep(c) \/ MemberStep(c) \/ StaffStep(c)) /\ UNCHANGED Works
    \/ SiteStep(c) /\ UNCHANGED <<watchVars, viharVars, monkVars, officeVars>>
    \/ MonkStep(c) /\ UNCHANGED <<watchVars, viharVars, Grounds, officeVars>>
    \/ OfficeStep(c) /\ UNCHANGED <<watchVars, viharVars, Grounds, monkVars>>
    \/ (ViharStep(c) \/ (WatchStep(c) /\ UNCHANGED viharVars)) /\ UNCHANGED <<Grounds, monkVars, officeVars>>

LEMMA TurnsTaken ==
  ASSUME [Next]_vars
  PROVE  \/ \E c \in Come : Goes(c) /\ Turn(c)
         \/ /\ UNCHANGED request \/ \E c \in Come : Die(c)
            /\ FallsSilent \/ UNCHANGED watchVars
            /\ UNCHANGED <<viharVars, Grounds, monkVars, officeVars>>
  <1>1. UNCHANGED siteVars => UNCHANGED Grounds
    BY DEF siteVars, Grounds
  <1>2. CASE CallStep
    <2>1. PICK c \in Come :
              \/ (Entry(c) \/ AdminStep(c) \/ MemberStep(c) \/ StaffStep(c))
                 /\ UNCHANGED <<watchVars, viharVars, siteVars, monkVars, officeVars>>
              \/ SiteStep(c) /\ UNCHANGED <<watchVars, viharVars, monkVars, officeVars>>
              \/ MonkStep(c) /\ UNCHANGED <<watchVars, viharVars, siteVars, officeVars>>
              \/ OfficeStep(c) /\ UNCHANGED <<watchVars, viharVars, monkVars>>
              \/ (ViharStep(c) \/ (WatchStep(c) /\ UNCHANGED viharVars)) /\ UNCHANGED <<siteVars, monkVars, officeVars>>
      BY <1>2 DEF CallStep, Busy
    <2>2. Goes(c)
      BY <2>1, AccountGoes, AdminGoes, MemberGoes, StaffGoes, SiteGoes, MonkGoes, OfficeGoes, WatchGoes, ViharGoes
    <2>3. Turn(c)
      BY <1>1, <2>1, OfficeGrounds DEF Turn, Works
    <2>4. QED
      BY <2>2, <2>3
  <1>3. CASE Elsewhere
    BY <1>1, <1>3 DEF Elsewhere
  <1>4. CASE UNCHANGED vars
    BY <1>1, <1>4 DEF vars, request
  <1>5. QED
    BY <1>2, <1>3, <1>4 DEF Next

\* Nobody goes on; one may die.
LEMMA AllStay ==
  ASSUME RequestInv, UNCHANGED request \/ \E c \in Come : Die(c)
  PROVE  Come' = Come /\ UNCHANGED sent /\ \A d \in Come : saw'[d] = saw[d] /\ pc'[d] \in {pc[d], "dead"}
  <1>1. CASE UNCHANGED request
    BY <1>1 DEF request, Come
  <1>2. ASSUME NEW c \in Come, Die(c)
        PROVE  Come' = Come /\ UNCHANGED sent /\ \A d \in Come : saw'[d] = saw[d] /\ pc'[d] \in {pc[d], "dead"}
    <2>1. Goes(c) /\ UNCHANGED <<sent, saw>> /\ pc'[c] = "dead"
      BY <1>2, DeathGoes DEF Goes, RequestInv
    <2>2. QED
      BY <2>1, RequestsGo
  <1>3. QED
    BY <1>1, <1>2

\* Forms are as they were sent.
LEMMA FormsStay ==
  ASSUME RequestInv, FormsInv, [Next]_vars
  PROVE  FormsInv' /\ Come' = Come /\ UNCHANGED sent
  <1>1. Come' = Come /\ UNCHANGED sent
    <2>1. CASE UNCHANGED request
      BY <2>1 DEF request, Come
    <2>2. ASSUME NEW c \in Come, Goes(c)
          PROVE  Come' = Come /\ UNCHANGED sent
      BY <2>2, RequestsGo DEF Goes
    <2>3. QED
      BY <2>1, <2>2, StepsPart, DeathGoes
  <1>2. QED
    BY <1>1, SentStays DEF FormsInv

-----------------------------------------------------------------------------
(* Tokens and codes *)

\* A session that is revoked has no token, and no other session has none.
TokenInv == \A k \in DOMAIN sessions : sessions[k].revoked <=> sessions[k].token = None

LEMMA TokenStepInv ==
  ASSUME RequestInv, TokenInv, [Next]_vars
  PROVE  TokenInv'
  <1>1. CASE UNCHANGED Sessions
    BY <1>1 DEF Sessions, TokenInv
  <1>2. ASSUME NEW c \in Come, Entry(c)
        PROVE  TokenInv'
    <2>1. CASE RefreshRead(c)
      BY <1>1, <2>1 DEF RefreshRead, Sessions, accountVars
    <2>2. CASE IssueTokens(c)
      <3>1. c # None
        BY <1>2, AccountAssumption DEF RequestInv
      <3> DEFINE row == [token |-> c, revoked |-> FALSE]
      <3>2. sessions' = Put(sessions, Key(c), row)
        BY <2>2 DEF IssueTokens
      <3>3. row.revoked <=> row.token = None
        BY <3>1
      <3> HIDE DEF row
      <3>4. QED
        BY <3>2, <3>3 DEF Put, TokenInv
    <2>3. CASE Logout(c)
      <3> DEFINE row == [token |-> None, revoked |-> TRUE]
      <3>1. sessions' = IF Key(c) \in DOMAIN sessions THEN [sessions EXCEPT ![Key(c)] = row] ELSE sessions
        BY <2>3 DEF Logout
      <3>2. row.revoked <=> row.token = None
        OBVIOUS
      <3> HIDE DEF row
      <3>3. QED
        BY <3>1, <3>2 DEF TokenInv
    <2>4. QED
      BY <1>1, <1>2, <2>1, <2>2, <2>3, EntrySessions
  <1>3. ASSUME NEW c \in Come, Parted(c), ~Entry(c)
        PROVE  UNCHANGED Sessions
    BY <1>3, AdminGoes, MemberGoes, StaffGoes, SiteGoes, MonkGoes, OfficeGoes, ViharGoes, WatchGoes DEF Parted
  <1>4. CASE CallStep
    BY <1>1, <1>2, <1>3, <1>4 DEF CallStep, Busy, Parted
  <1>5. CASE Elsewhere
    BY <1>1, <1>5 DEF Elsewhere, CodeLapses, LockLapses, FallsSilent, StaffSweep, people, accountVars, Sessions
  <1>6. CASE UNCHANGED vars
    BY <1>1, <1>6 DEF vars, accountVars, Sessions
  <1>7. QED
    BY <1>4, <1>5, <1>6 DEF Next

\* A code counts its wrong tries.
CodeFields == {"code", "tries", "cooldown"}
CodeInv == \A u \in DOMAIN codes : DOMAIN codes[u] = CodeFields /\ codes[u].tries \in Nat

\* A row is written as another one is.
LEMMA CodeWritten ==
  ASSUME CodeInv, NEW u, NEW row, u \in DOMAIN codes => DOMAIN row = CodeFields /\ row.tries \in Nat,
         codes' = [codes EXCEPT ![u] = row]
  PROVE  CodeInv'
  BY DEF CodeInv

LEMMA EntryCodes ==
  ASSUME CodeInv, NEW c, Entry(c)
  PROVE  CodeInv'
  <1>1. CASE UNCHANGED codes
    BY <1>1 DEF CodeInv
  <1>2. CASE CodeSend(c)
    <2> DEFINE row == [code |-> c, tries |-> 0, cooldown |-> TRUE]
    <2>1. codes' = [codes EXCEPT ![U(c)] = row]
      BY <1>2 DEF CodeSend
    <2>2. DOMAIN row = CodeFields /\ row.tries \in Nat
      BY DEF CodeFields
    <2> HIDE DEF row
    <2>3. QED
      BY <2>1, <2>2, CodeWritten
  <1>3. CASE EmailCodeSend(c)
    <2> DEFINE row == [codes[U(c)] EXCEPT !.code = c]
    <2>1. codes' = [codes EXCEPT ![U(c)] = row]
      BY <1>3 DEF EmailCodeSend
    <2>2. U(c) \in DOMAIN codes => DOMAIN row = CodeFields /\ row.tries \in Nat
      BY DEF CodeInv, CodeFields
    <2> HIDE DEF row
    <2>3. QED
      BY <2>1, <2>2, CodeWritten
  <1>4. CASE CodeMiss(c)
    <2> DEFINE row == [codes[U(c)] EXCEPT !.tries = codes[U(c)].tries + 1]
    <2>1. codes' = [codes EXCEPT ![U(c)] = row]
      BY <1>4 DEF CodeMiss
    <2>2. U(c) \in DOMAIN codes => DOMAIN row = CodeFields /\ row.tries \in Nat
      BY DEF CodeInv, CodeFields
    <2> HIDE DEF row
    <2>3. QED
      BY <2>1, <2>2, CodeWritten
  <1>5. CASE CodeBurn(c)
    <2> DEFINE row == [NoCode EXCEPT !.cooldown = codes[U(c)].cooldown]
    <2>1. codes' = [codes EXCEPT ![U(c)] = row]
      BY <1>5 DEF CodeBurn
    <2>2. DOMAIN row = CodeFields /\ row.tries \in Nat
      BY DEF NoCode, CodeFields
    <2> HIDE DEF row
    <2>3. QED
      BY <2>1, <2>2, CodeWritten
  <1>6. CASE CodeRequest(c) \/ CodeTries(c) \/ CodeRead(c) \/ EmailCodeRead(c) \/ OtpUser(c) \/ EmailUser(c) \/ SignUp(c)
    BY <1>1, <1>6 DEF CodeRequest, CodeTries, CodeRead, EmailCodeRead, OtpUser, EmailUser, SignUp, accountVars
  <1>7. CASE PasswordUser(c) \/ WrongPassword(c) \/ LogFailure(c) \/ SignIn(c) \/ IssueTokens(c)
    BY <1>1, <1>7 DEF PasswordUser, WrongPassword, LogFailure, SignIn, FlagSuspicious, IssueTokens, LastLogin, accountVars
  <1>8. CASE RefreshRead(c) \/ Logout(c) \/ AccountEnters(c) \/ PasswordChange(c) \/ PasswordWrite(c)
    BY <1>1, <1>8 DEF RefreshRead, Logout, AccountEnters, PasswordChange, PasswordWrite, accountVars
  <1>9. QED
    BY <1>2, <1>3, <1>4, <1>5, <1>6, <1>7, <1>8 DEF Entry, AccountStep, CodeCheck

LEMMA OtherCodes ==
  ASSUME NEW c, AdminStep(c) \/ MemberStep(c) \/ StaffStep(c)
  PROVE  UNCHANGED codes
  <1> USE DEF accountVars, restOfStaff, restOfAccounts
  <1>1. CASE CreateAdminCheck(c) \/ CreateAdminWrite(c) \/ ScopeGrants(c) \/ Credentials(c)
    BY <1>1 DEF CreateAdminCheck, CreateAdminWrite, ScopeGrants, Credentials
  <1>2. CASE GrantCheck(c) \/ GrantDrop(c) \/ GrantWrite(c) \/ AdminEnters(c) \/ AdminRead(c) \/ AdminWrite(c)
    BY <1>2 DEF GrantCheck, GrantDrop, GrantWrite, AdminEnters, AdminRead, AdminWrite
  <1>3. CASE DeleteAdmin(c) \/ MyModules(c) \/ ListOrgAdmins(c)
    BY <1>3 DEF DeleteAdmin, MyModules, ListOrgAdmins
  <1>4. CASE AdminStep(c)
    BY <1>1, <1>2, <1>3, <1>4 DEF AdminStep
  <1>5. CASE RegisterCheck(c) \/ RegisterWrite(c) \/ (Seed(c, U(c), "issue") /\ Forget)
    BY <1>5 DEF RegisterCheck, RegisterWrite, Seed
  <1>6. ASSUME NEW x, NEW y, StubRead(c, x, y) \/ StubWrite(c, x, y)
        PROVE  UNCHANGED codes
    BY <1>6 DEF StubRead, StubWrite
  <1>7. CASE InitRole(c) \/ ProfileEnters(c) \/ ProfileCheck(c) \/ ProfileWrite(c) \/ SyncClear(c)
    BY <1>7 DEF InitRole, ProfileEnters, ProfileCheck, ProfileWrite, SyncClear
  <1>8. CASE FamilyLoop(c)
    BY <1>8 DEF FamilyLoop, NextRelative, PairWrite, PairSeed, Seed, LinkWrite, Invite, Rest
  <1>9. CASE RelativeEnters(c) \/ RelativeFind(c) \/ LinkFind(c) \/ LinkJoin(c) \/ LinkNotify(c) \/ Unlink(c) \/ ImportEnters(c)
    BY <1>9 DEF RelativeEnters, RelativeFind, LinkFind, LinkJoin, LinkNotify, Unlink, ImportEnters
  <1>10. CASE AdminCreateCheck(c) \/ AdminCreateWrite(c) \/ AdminCreateTell(c)
    BY <1>10 DEF AdminCreateCheck, AdminCreateWrite, AdminCreateTell
  <1>11. CASE MemberRead(c) \/ MemberWrite(c) \/ ListMembers(c)
    BY <1>11 DEF MemberRead, MemberWrite, ListMembers
  <1>12. CASE MemberStep(c)
    BY <1>5, <1>6, <1>7, <1>8, <1>9, <1>10, <1>11, <1>12 DEF MemberStep
  <1>13. CASE StaffCheck(c) \/ StaffMember(c) \/ StaffNumber(c) \/ StaffHire(c) \/ StaffTell(c)
    BY <1>13 DEF StaffCheck, StaffMember, StaffNumber, StaffHire, StaffTell
  <1>14. CASE RegrantCheck(c) \/ RegrantClear(c) \/ RegrantWrite(c)
    BY <1>14 DEF RegrantCheck, RegrantClear, RegrantWrite
  <1>15. CASE ShiftRead(c) \/ ShiftWrite(c) \/ Leave(c) \/ PaperRead(c) \/ PaperWrite(c)
    BY <1>15 DEF ShiftRead, ShiftWrite, Leave, PaperRead, PaperWrite
  <1>16. CASE StaffStep(c)
    BY <1>13, <1>14, <1>15, <1>16 DEF StaffStep
  <1>17. QED
    BY <1>4, <1>12, <1>16

LEMMA CodeStepInv ==
  ASSUME CodeInv, [Next]_vars
  PROVE  CodeInv'
  <1>1. CASE UNCHANGED codes
    BY <1>1 DEF CodeInv
  <1>2. ASSUME NEW c, SiteStep(c) \/ MonkStep(c) \/ OfficeStep(c) \/ ViharStep(c) \/ WatchStep(c)
        PROVE  UNCHANGED codes
    BY <1>2, SiteGoes, MonkGoes, OfficeGoes, ViharGoes, WatchGoes DEF society, laity, people, accountVars
  <1>3. CASE CallStep
    BY <1>1, <1>2, <1>3, EntryCodes, OtherCodes DEF CallStep
  <1>4. CASE CodeLapses
    <2>1. PICK u \in DOMAIN codes :
              codes' = [codes EXCEPT ![u] = IF codes[u].cooldown THEN [codes[u] EXCEPT !.cooldown = FALSE] ELSE NoCode]
      BY <1>4 DEF CodeLapses
    <2> DEFINE row == IF codes[u].cooldown THEN [codes[u] EXCEPT !.cooldown = FALSE] ELSE NoCode
    <2>2. DOMAIN row = CodeFields /\ row.tries \in Nat
      BY DEF NoCode, CodeFields, CodeInv
    <2>3. codes' = [codes EXCEPT ![u] = row]
      BY <2>1
    <2> HIDE DEF row
    <2>4. QED
      BY <2>2, <2>3, CodeWritten
  <1>5. CASE Elsewhere
    BY <1>1, <1>4, <1>5 DEF Elsewhere, LockLapses, FallsSilent, StaffSweep, people, accountVars
  <1>6. CASE UNCHANGED vars
    BY <1>1, <1>6 DEF vars, accountVars
  <1>7. QED
    BY <1>3, <1>5, <1>6 DEF Next

-----------------------------------------------------------------------------
(* Devices and alerts *)

DeviceFields == {"monk", "signal", "sims"}
AlarmFields == {"type", "monk", "device"}
AlertTypes == {"SOS", "OFFLINE", "LOW_BATTERY", "ROUTE_DELAY"}
Raised(a, D) == a.type \in AlertTypes /\ a.device \in D \union {None}

\* What there is to raise: of one of the devices D, or of none.
Alarm(a, D) == DOMAIN a = AlarmFields /\ Raised(a, D)
Alarms(s, D) == \E S : s \in Seq(S) /\ \A a \in S : Alarm(a, D)

DeviceRows ==
    /\ IsFiniteSet(DOMAIN devices)
    /\ \A d \in DOMAIN devices : /\ DOMAIN devices[d] = DeviceFields /\ devices[d].signal \in Signals
                                 /\ IsFiniteSet(devices[d].sims)
AlertRows == \A x \in alerts : DOMAIN x = AlarmFields \union {"row", "resolved"} /\ Raised(x, DOMAIN devices)

\* Who is raising alerts has some to raise; who writes one has it.
Alarming(c) ==
    Op(c) \in {"sos", "sweep", "event"} /\ pc[c] \in {"raise", "alert"} =>
        /\ Alarms(saw[c].todo, DOMAIN devices)
        /\ pc[c] = "alert" \/ Op(c) = "event" => saw[c].todo # <<>>

WatchInv == DeviceRows /\ AlertRows /\ \A c \in Come : Alarming(c)

\* Devices are never deleted.
MoreDevices == DOMAIN devices \subseteq DOMAIN devices'

LEMMA AlarmStays ==
  ASSUME NEW D, NEW E, D \subseteq E
  PROVE  /\ \A a : Raised(a, D) => Raised(a, E)
         /\ \A s : Alarms(s, D) => Alarms(s, E)
  <1>1. \A a : Raised(a, D) => Raised(a, E)
    BY DEF Raised
  <1>2. \A a : Alarm(a, D) => Alarm(a, E)
    BY <1>1 DEF Alarm
  <1>3. ASSUME NEW s, Alarms(s, D)
        PROVE  Alarms(s, E)
    <2>1. PICK S : s \in Seq(S) /\ \A a \in S : Alarm(a, D)
      BY <1>3 DEF Alarms
    <2>2. \A a \in S : Alarm(a, E)
      BY <1>2, <2>1
    <2>3. QED
      BY <2>1, <2>2 DEF Alarms
  <1>4. QED
    BY <1>1, <1>3

LEMMA AlarmingStays ==
  ASSUME MoreDevices, UNCHANGED sent, NEW d, Alarming(d), saw'[d] = saw[d], pc'[d] \in {pc[d], "dead"}
  PROVE  Alarming(d)'
  <1>1. Op(d)' = Op(d)
    BY SentStays
  <1>2. Alarms(saw[d].todo, DOMAIN devices) => Alarms(saw[d].todo, DOMAIN devices')
    BY AlarmStays DEF MoreDevices
  <1>3. QED
    BY <1>1, <1>2 DEF Alarming

LEMMA AlertsStay ==
  ASSUME MoreDevices, AlertRows, UNCHANGED alerts
  PROVE  AlertRows'
  <1>1. \A x \in alerts : Raised(x, DOMAIN devices')
    BY AlarmStays DEF AlertRows, MoreDevices
  <1>2. QED
    BY <1>1 DEF AlertRows

\* Of a list that is not empty, the first alarm can be raised, and the rest is a list.
LEMMA FirstAlarm ==
  ASSUME NEW D, NEW s, Alarms(s, D), s # <<>>
  PROVE  Alarm(Head(s), D) /\ Alarms(Tail(s), D)
  <1>1. PICK S : s \in Seq(S) /\ \A a \in S : Alarm(a, D)
    BY DEF Alarms
  <1>2. Head(s) \in S /\ Tail(s) \in Seq(S)
    BY <1>1, HeadTailProperties
  <1>3. Alarm(Head(s), D)
    BY <1>1, <1>2
  <1>4. Alarms(Tail(s), D)
    <2>1. \A t \in Seq(S) : Alarms(t, D)
      BY <1>1 DEF Alarms
    <2>2. QED
      BY <1>2, <2>1
  <1>5. QED
    BY <1>3, <1>4

LEMMA OneAlarm ==
  ASSUME NEW D, NEW a, Alarm(a, D)
  PROVE  Alarms(<<a>>, D) /\ <<a>> # <<>>
  <1>1. <<a>> \in Seq({a})
    OBVIOUS
  <1>2. \A b \in {a} : Alarm(b, D)
    OBVIOUS
  <1>3. \A s \in Seq({a}) : Alarms(s, D)
    BY <1>2 DEF Alarms
  <1>4. QED
    BY <1>1, <1>3

\* The row of an alert that is raised.
LEMMA AlertWritten ==
  ASSUME MoreDevices, AlertRows, NEW a, Alarm(a, DOMAIN devices), NEW r,
         alerts' = alerts \union {Updated(a, [row |-> r, resolved |-> FALSE])}
  PROVE  AlertRows'
  <1> DEFINE x == Updated(a, [row |-> r, resolved |-> FALSE])
  <1>1. DOMAIN x = AlarmFields \union {"row", "resolved"} /\ x.type = a.type /\ x.device = a.device
    BY DEF Updated, Alarm, AlarmFields
  <1>2. Raised(x, DOMAIN devices)
    BY <1>1 DEF Raised, Alarm
  <1> HIDE DEF x
  <1>3. \A y \in alerts \union {x} : DOMAIN y = AlarmFields \union {"row", "resolved"} /\ Raised(y, DOMAIN devices')
    BY <1>1, <1>2, AlarmStays DEF AlertRows, MoreDevices
  <1>4. alerts' = alerts \union {x}
    BY DEF x
  <1>5. QED
    BY <1>3, <1>4 DEF AlertRows

\* What the sweep wants: alarms of the devices that are there.
LEMMA WantedAlarms ==
  ASSUME DeviceRows, NEW order \in SetToSeqs(DOMAIN devices)
  PROVE  Alarms(FlattenSeq([i \in DOMAIN order |-> Wanted(order[i])]), DOMAIN devices)
  <1> DEFINE Of(d) == {Alert("OFFLINE", devices[d].monk, d), Alert("LOW_BATTERY", devices[d].monk, d),
                       Alert("OFFLINE", None, d)}
             S == UNION {Of(d) : d \in DOMAIN devices}
             n == Cardinality(DOMAIN devices)
  <1>1. \A a \in S : Alarm(a, DOMAIN devices)
    BY DEF Alarm, Raised, Alert, AlarmFields, AlertTypes
  <1>2. ASSUME NEW d \in DOMAIN devices
        PROVE  Wanted(d) \in Seq(S)
    <2> DEFINE first == CASE devices[d].signal = "silent" -> <<Alert("OFFLINE", devices[d].monk, d)>>
                          [] devices[d].signal = "low"    -> <<Alert("LOW_BATTERY", devices[d].monk, d)>>
                          [] OTHER                        -> <<>>
               cards == [i \in 1 .. Cardinality(devices[d].sims) |-> Alert("OFFLINE", None, d)]
    <2>1. Of(d) \subseteq S
      OBVIOUS
    <2>2. Cardinality(devices[d].sims) \in Nat
      BY FS_CardinalityType DEF DeviceRows
    <2> HIDE DEF S
    <2>3. cards \in Seq(S)
      BY <2>1, <2>2
    <2>4. first \in Seq(S)
      <3>1. CASE devices[d].signal = "silent"
        BY <2>1, <3>1
      <3>2. CASE devices[d].signal = "low"
        BY <2>1, <3>2
      <3>3. CASE devices[d].signal \notin {"silent", "low"}
        BY <3>3
      <3>4. QED
        BY <3>1, <3>2, <3>3
    <2>5. Wanted(d) = first \o cards
      BY DEF Wanted
    <2> HIDE DEF first, cards
    <2>6. QED
      BY <2>3, <2>4, <2>5, ConcatProperties
  <1>3. n \in Nat /\ order \in [1 .. n -> DOMAIN devices]
    BY FS_CardinalityType DEF DeviceRows, SetToSeqs
  <1> HIDE DEF S, n
  <1>4. [i \in DOMAIN order |-> Wanted(order[i])] \in Seq(Seq(S))
    BY <1>2, <1>3
  <1>5. FlattenSeq([i \in DOMAIN order |-> Wanted(order[i])]) \in Seq(S)
    BY <1>4, FlattenedSequence
  <1>6. QED
    BY <1>1, <1>5 DEF Alarms

LEMMA RaiseAlerts ==
  ASSUME RequestInv, WatchInv, NEW c \in Come, Op(c) \in {"sos", "sweep"}, Raise(c)
  PROVE  DeviceRows' /\ AlertRows' /\ Alarming(c)' /\ MoreDevices
  <1>1. UNCHANGED devices /\ Op(c)' = Op(c) /\ Alarming(c)
    <2>1. UNCHANGED devices /\ UNCHANGED sent
      BY DEF Raise, RaiseFind, RaiseWrite, watchVars, Move, Goto
    <2>2. QED
      BY <2>1, SentStays DEF WatchInv
  <1>2. DeviceRows' /\ MoreDevices
    BY <1>1 DEF WatchInv, DeviceRows, MoreDevices
  <1> DEFINE todo == saw[c].todo
  <1>3. CASE RaiseFind(c)
    <2>1. pc[c] = "raise" /\ UNCHANGED alerts
      BY <1>3 DEF RaiseFind, watchVars
    <2>2. Alarms(todo, DOMAIN devices)
      BY <1>1, <2>1 DEF Alarming
    <2>3. AlertRows'
      BY <1>2, <2>1, AlertsStay DEF WatchInv
    <2>4. CASE todo = <<>>
      <3>1. pc'[c] = "done"
        BY <1>3, <2>4, Moved DEF RaiseFind
      <3>2. QED
        BY <1>2, <2>3, <3>1 DEF Alarming
    <2>5. CASE todo # <<>>
      <3>1. \/ pc'[c] = "raise" /\ saw'[c] = [todo |-> Tail(todo)]
            \/ pc'[c] = "alert" /\ saw'[c] = saw[c]
        BY <1>3, <2>5, Moved DEF RaiseFind
      <3>2. Alarms(Tail(todo), DOMAIN devices') /\ Alarms(todo, DOMAIN devices')
        BY <1>2, <2>2, <2>5, FirstAlarm, AlarmStays DEF MoreDevices
      <3>3. CASE pc'[c] = "raise" /\ saw'[c] = [todo |-> Tail(todo)]
        <4>1. saw'[c].todo = Tail(todo)
          BY <3>3
        <4>2. Op(c)' # "event"
          BY <1>1
        <4> HIDE DEF todo
        <4>3. Alarms(saw'[c].todo, DOMAIN devices')
          BY <3>2, <4>1
        <4>4. QED
          BY <1>2, <2>3, <3>3, <4>2, <4>3 DEF Alarming
      <3>4. CASE pc'[c] = "alert" /\ saw'[c] = saw[c]
        <4>1. Alarms(saw'[c].todo, DOMAIN devices') /\ saw'[c].todo # <<>>
          BY <2>5, <3>2, <3>4
        <4>2. QED
          BY <1>2, <2>3, <3>4, <4>1 DEF Alarming
      <3>5. QED
        BY <3>1, <3>3, <3>4
    <2>6. QED
      BY <2>4, <2>5
  <1>4. CASE RaiseWrite(c)
    <2>1. /\ pc[c] = "alert" /\ pc'[c] = "raise" /\ saw'[c] = [todo |-> Tail(todo)]
          /\ alerts' = alerts \union {Updated(Head(todo), [row |-> <<c, Len(todo)>>, resolved |-> FALSE])}
      BY <1>4, Moved DEF RaiseWrite
    <2>2. Alarm(Head(todo), DOMAIN devices) /\ Alarms(Tail(todo), DOMAIN devices)
      BY <1>1, <2>1, FirstAlarm DEF Alarming
    <2>3. AlertRows'
      BY <1>2, <2>1, <2>2, AlertWritten DEF WatchInv
    <2>4. saw'[c].todo = Tail(todo) /\ Op(c)' # "event"
      BY <1>1, <2>1
    <2> HIDE DEF todo
    <2>5. Alarms(saw'[c].todo, DOMAIN devices')
      BY <1>2, <2>2, <2>4, AlarmStays DEF MoreDevices
    <2>6. QED
      BY <1>2, <2>1, <2>3, <2>4, <2>5 DEF Alarming
  <1>5. QED
    BY <1>3, <1>4 DEF Raise

\* A device is written as another one is.
LEMMA DeviceWritten ==
  ASSUME DeviceRows, NEW d, NEW row,
         d \in DOMAIN devices => /\ DOMAIN row = DeviceFields /\ row.signal \in Signals
                                 /\ IsFiniteSet(row.sims),
         devices' = [devices EXCEPT ![d] = row]
  PROVE  DeviceRows' /\ MoreDevices
  BY DEF DeviceRows, MoreDevices

LEMMA WatchWatch ==
  ASSUME RequestInv, WatchInv, NEW c \in Come, WatchStep(c)
  PROVE  DeviceRows' /\ AlertRows' /\ Alarming(c)' /\ MoreDevices
  <1>1. Op(c)' = Op(c) /\ DeviceRows /\ AlertRows
    <2>1. UNCHANGED sent
      BY WatchGoes DEF Goes
    <2>2. QED
      BY <2>1, SentStays DEF WatchInv
  <1>2. UNCHANGED devices => DeviceRows' /\ MoreDevices
    BY <1>1 DEF DeviceRows, MoreDevices
  <1>3. Op(c) \notin {"sos", "sweep", "event"} => Alarming(c)'
    BY <1>1 DEF Alarming
  <1>4. CASE Op(c) \in {"sos", "sweep"} /\ Raise(c)
    BY <1>4, RaiseAlerts
  <1>5. CASE Op(c) = "sos" /\ Sos(c)
    <2> DEFINE a == Alert("SOS", sent[c].monk, None)
    <2>1. saw'[c] = [todo |-> <<a>>] /\ pc'[c] \in {"raise", "refused"} /\ UNCHANGED <<devices, alerts>>
      BY <1>5, Moved DEF Sos, watchVars
    <2>2. Alarm(a, DOMAIN devices)
      BY DEF Alert, Alarm, Raised, AlarmFields, AlertTypes
    <2> HIDE DEF a
    <2>3. Alarms(saw'[c].todo, DOMAIN devices')
      BY <1>2, <2>1, <2>2, OneAlarm, AlarmStays DEF MoreDevices
    <2>4. QED
      BY <1>1, <1>2, <1>5, <2>1, <2>3, AlertsStay DEF Alarming
  <1>6. CASE Op(c) = "sweep" /\ SweepRead(c)
    <2>1. PICK order \in SetToSeqs(DOMAIN devices) :
              Keep(c, [todo |-> FlattenSeq([i \in DOMAIN order |-> Wanted(order[i])])])
      BY <1>6 DEF SweepRead
    <2> DEFINE all == FlattenSeq([i \in DOMAIN order |-> Wanted(order[i])])
    <2>2. saw'[c] = [todo |-> all] /\ pc'[c] = "raise" /\ UNCHANGED <<devices, alerts>>
      BY <1>6, <2>1, Moved DEF SweepRead, watchVars
    <2>3. Alarms(all, DOMAIN devices)
      BY <1>1, WantedAlarms
    <2> HIDE DEF all
    <2>4. Alarms(saw'[c].todo, DOMAIN devices')
      BY <1>2, <2>2, <2>3, AlarmStays DEF MoreDevices
    <2>5. QED
      BY <1>1, <1>2, <1>6, <2>2, <2>4, AlertsStay DEF Alarming
  <1>7. CASE Op(c) = "resolve" /\ Resolve(c)
    <2> DEFINE mine == {x \in alerts : x.row[1] = sent[c].alert}
    <2>1. UNCHANGED devices
      BY <1>7 DEF Resolve
    <2>2. alerts' = alerts \/ alerts' = (alerts \ mine) \union {[x EXCEPT !.resolved = TRUE] : x \in mine}
      BY <1>7 DEF Resolve
    <2>3. ASSUME NEW x \in mine
          PROVE  LET y == [x EXCEPT !.resolved = TRUE] IN
                 DOMAIN y = AlarmFields \union {"row", "resolved"} /\ Raised(y, DOMAIN devices)
      <3>1. DOMAIN x = AlarmFields \union {"row", "resolved"} /\ Raised(x, DOMAIN devices)
        BY <1>1 DEF AlertRows
      <3>2. QED
        BY <3>1 DEF Raised, AlarmFields
    <2> HIDE DEF mine
    <2>4. \A y \in alerts' : DOMAIN y = AlarmFields \union {"row", "resolved"} /\ Raised(y, DOMAIN devices)
      BY <1>1, <2>2, <2>3 DEF AlertRows
    <2>5. AlertRows'
      BY <1>2, <2>1, <2>4, AlarmStays DEF MoreDevices, AlertRows
    <2>6. QED
      BY <1>2, <1>3, <1>7, <2>1, <2>5
  <1>8. CASE Op(c) = "alerts" /\ ListAlerts(c)
    BY <1>1, <1>2, <1>3, <1>8, AlertsStay DEF ListAlerts, watchVars
  <1>9. CASE Op(c) = "ping" /\ PingWrite(c)
    <2> DEFINE d == sent[c].device
               row == [devices[d] EXCEPT !.signal = IF sent[c].low THEN "low" ELSE "ok"]
    <2>1. devices' = [devices EXCEPT ![d] = row] /\ UNCHANGED alerts
      BY <1>9 DEF PingWrite
    <2>2. d \in DOMAIN devices => DOMAIN row = DeviceFields /\ row.signal \in Signals /\ IsFiniteSet(row.sims)
      <3>1. d \in DOMAIN devices => DOMAIN row = DeviceFields /\ row.signal \in Signals /\ row.sims = devices[d].sims
        BY <1>1 DEF DeviceRows, DeviceFields, Signals
      <3>2. QED
        BY <1>1, <3>1 DEF DeviceRows
    <2> HIDE DEF d, row
    <2>3. DeviceRows' /\ MoreDevices
      BY <1>1, <2>1, <2>2, DeviceWritten
    <2>4. QED
      BY <1>1, <1>3, <1>9, <2>1, <2>3, AlertsStay
  <1>10. CASE Op(c) = "device" /\ RegisterDevice(c)
    <2> DEFINE row == [monk |-> sent[c].monk, signal |-> "none", sims |-> {}]
    <2>1. devices' \in {devices, Put(devices, c, row)} /\ UNCHANGED alerts
      BY <1>10 DEF RegisterDevice
    <2>2. DOMAIN row = DeviceFields /\ row.signal \in Signals /\ IsFiniteSet(row.sims)
      BY FS_EmptySet DEF DeviceFields, Signals
    <2> HIDE DEF row
    <2>3. CASE devices' = Put(devices, c, row)
      <3>1. DOMAIN devices' = DOMAIN devices \union {c}
        BY <2>3 DEF Put
      <3>2. IsFiniteSet(DOMAIN devices')
        BY <1>1, <3>1, FS_AddElement DEF DeviceRows
      <3>3. \A d \in DOMAIN devices' : devices'[d] = row \/ (d \in DOMAIN devices /\ devices'[d] = devices[d])
        BY <2>3 DEF Put
      <3>4. DeviceRows' /\ MoreDevices
        BY <1>1, <2>2, <3>1, <3>2, <3>3 DEF DeviceRows, MoreDevices
      <3>5. QED
        BY <1>1, <1>3, <1>10, <2>1, <3>4, AlertsStay
    <2>4. QED
      BY <1>1, <1>2, <1>3, <1>10, <2>1, <2>3, AlertsStay
  <1>11. CASE Op(c) \in {"assignDevice", "sim"} /\ DeviceWrite(c)
    <2> DEFINE d == sent[c].device
               row == IF Op(c) = "assignDevice" THEN [devices[d] EXCEPT !.monk = sent[c].monk]
                      ELSE [devices[d] EXCEPT !.sims = devices[d].sims \union {c}]
    <2>1. devices' = [devices EXCEPT ![d] = row] /\ UNCHANGED alerts
      <3>1. CASE Op(c) = "assignDevice"
        BY <1>11, <3>1 DEF DeviceWrite
      <3>2. CASE Op(c) # "assignDevice"
        BY <1>11, <3>2 DEF DeviceWrite
      <3>3. QED
        BY <3>1, <3>2
    <2>2. d \in DOMAIN devices => DOMAIN row = DeviceFields /\ row.signal \in Signals /\ IsFiniteSet(row.sims)
      <3>1. d \in DOMAIN devices => /\ DOMAIN row = DeviceFields /\ row.signal \in Signals
                                    /\ row.sims \in {devices[d].sims, devices[d].sims \union {c}}
        BY <1>1 DEF DeviceRows, DeviceFields
      <3>2. d \in DOMAIN devices => IsFiniteSet(devices[d].sims) /\ IsFiniteSet(devices[d].sims \union {c})
        BY <1>1, FS_AddElement DEF DeviceRows
      <3> HIDE DEF row
      <3>3. QED
        BY <3>1, <3>2
    <2> HIDE DEF d, row
    <2>3. DeviceRows' /\ MoreDevices
      BY <1>1, <2>1, <2>2, DeviceWritten
    <2>4. QED
      BY <1>1, <1>3, <1>11, <2>1, <2>3, AlertsStay
  <1>12. CASE \/ Op(c) = "ping" /\ PingRead(c) 
              \/ Op(c) \in {"assignDevice", "sim"} /\ DeviceRead(c)
              \/ Op(c) = "devices" /\ ListDevices(c)
    BY <1>1, <1>2, <1>3, <1>12, AlertsStay DEF PingRead, DeviceRead, ListDevices, watchVars
  <1>13. QED
    BY <1>4, <1>5, <1>6, <1>7, <1>8, <1>9, <1>10, <1>11, <1>12 DEF WatchStep

\* Who travels raises an alert when he is late.
LEMMA ViharWatch ==
  ASSUME RequestInv, WatchInv, NEW c \in Come, ViharStep(c)
  PROVE  DeviceRows' /\ AlertRows' /\ Alarming(c)' /\ MoreDevices
  <1>1. Op(c)' = Op(c) /\ DeviceRows /\ AlertRows /\ Alarming(c)
    <2>1. UNCHANGED sent
      BY ViharGoes DEF Goes
    <2>2. QED
      BY <2>1, SentStays DEF WatchInv
  <1>2. UNCHANGED devices => DeviceRows' /\ MoreDevices
    BY <1>1 DEF DeviceRows, MoreDevices
  <1>3. Op(c) # "event" => Op(c) \notin {"sos", "sweep", "event"}
    BY DEF ViharStep
  <1>4. CASE Op(c) # "event"
    <2>1. UNCHANGED <<devices, alerts>>
      BY <1>4 DEF ViharStep, CreateRoute, RouteRead, RouteWrite, JourneyFind, JourneyCreate, JourneyTell,
                  EntryCreate, EntryRead, EntryWrite, TrackingRead, watchVars
    <2>2. QED
      BY <1>1, <1>2, <1>3, <1>4, <2>1, AlertsStay DEF Alarming
  <1>5. CASE EventRead(c) \/ EventCreate(c) \/ Arrival(c) \/ JourneyTell(c)
    <2>1. UNCHANGED <<devices, alerts>>
      BY <1>5 DEF EventRead, EventCreate, Arrival, JourneyTell, watchVars
    <2>2. pc'[c] \in {"event", "refused", "stops", "done", "pointer", "tell"}
      BY <1>5, Moved DEF EventRead, EventCreate, Arrival, JourneyTell
    <2>3. QED
      BY <1>1, <1>2, <2>1, <2>2, AlertsStay DEF Alarming
  <1>6. CASE Delay(c)
    <2> DEFINE a == Alert("ROUTE_DELAY", routes[saw[c].route].monk, None)
    <2>1. saw'[c] = [route |-> saw[c].route, todo |-> <<a>>] /\ UNCHANGED <<devices, alerts>>
      BY <1>6, Moved DEF Delay, watchVars
    <2>2. Alarm(a, DOMAIN devices)
      BY DEF Alert, Alarm, Raised, AlarmFields, AlertTypes
    <2> HIDE DEF a
    <2>3. saw'[c].todo = <<a>>
      BY <2>1
    <2>4. Alarms(saw'[c].todo, DOMAIN devices') /\ saw'[c].todo # <<>>
      BY <1>2, <2>1, <2>2, <2>3, OneAlarm, AlarmStays DEF MoreDevices
    <2>5. QED
      BY <1>1, <1>2, <2>1, <2>4, AlertsStay DEF Alarming
  <1>7. CASE Op(c) = "event" /\ DelayRaise(c)
    <2> DEFINE a == Head(saw[c].todo)
    <2>1. pc[c] \in {"raise", "alert"} /\ saw'[c] = saw[c] /\ UNCHANGED devices
      BY <1>7, Moved DEF DelayRaise
    <2>2. Alarms(saw[c].todo, DOMAIN devices) /\ saw[c].todo # <<>>
      BY <1>1, <1>7, <2>1 DEF Alarming
    <2>3. Alarms(saw'[c].todo, DOMAIN devices') /\ saw'[c].todo # <<>>
      BY <1>2, <2>1, <2>2, AlarmStays DEF MoreDevices
    <2>4. Alarm(a, DOMAIN devices)
      BY <2>2, FirstAlarm
    <2>5. alerts' = alerts \/ alerts' = alerts \union {Updated(a, [row |-> <<c, 1>>, resolved |-> FALSE])}
      BY <1>7 DEF DelayRaise
    <2> HIDE DEF a
    <2>6. AlertRows'
      BY <1>1, <1>2, <2>1, <2>4, <2>5, AlertsStay, AlertWritten
    <2>7. QED
      BY <1>2, <2>1, <2>3, <2>6 DEF Alarming
  <1>8. QED
    BY <1>4, <1>5, <1>6, <1>7 DEF ViharStep

LEMMA WatchStepInv ==
  ASSUME RequestInv, WatchInv, [Next]_vars
  PROVE  WatchInv'
  <1>1. ASSUME NEW c \in Come, Goes(c), DeviceRows', AlertRows', Alarming(c)', MoreDevices
        PROVE  WatchInv'
    <2>1. /\ Come' = Come /\ UNCHANGED sent
          /\ \A d \in Come \ {c} : pc'[d] = pc[d] /\ saw'[d] = saw[d]
      BY <1>1, RequestsGo DEF Goes
    <2>2. \A d \in Come \ {c} : Alarming(d)'
      BY <1>1, <2>1, AlarmingStays DEF WatchInv
    <2>3. QED
      BY <1>1, <2>1, <2>2 DEF WatchInv
  <1>2. ASSUME NEW c \in Come, Goes(c), Turn(c)
        PROVE  WatchInv'
    <2>1. CASE WatchStep(c) \/ ViharStep(c)
      BY <1>1, <1>2, <2>1, WatchWatch, ViharWatch
    <2>2. CASE ~(WatchStep(c) \/ ViharStep(c))
      <3>1. UNCHANGED <<devices, alerts>>
        BY <1>2, <2>2 DEF Turn, Works, watchVars
      <3>2. MoreDevices /\ DeviceRows'
        BY <3>1 DEF MoreDevices, DeviceRows, WatchInv
      <3>3. AlertRows'
        BY <3>1, <3>2, AlertsStay DEF WatchInv
      <3>4. Op(c) \notin {"sos", "sweep", "event"}
        BY <1>2, <2>2 DEF Turn, Entry, AccountStep, AdminStep, AdminOps, MemberStep, StaffStep, SiteStep,
                          MonkStep, OfficeStep
      <3>5. Op(c)' = Op(c)
        BY <1>2, SentStays DEF Goes
      <3>6. Alarming(c)'
        BY <3>4, <3>5 DEF Alarming
      <3>7. QED
        BY <1>1, <1>2, <3>2, <3>3, <3>6
    <2>3. QED
      BY <2>1, <2>2
  <1>3. CASE /\ UNCHANGED request \/ \E c \in Come : Die(c)
             /\ FallsSilent \/ UNCHANGED watchVars
    <2>1. DeviceRows' /\ MoreDevices /\ UNCHANGED alerts
      <3>1. CASE UNCHANGED watchVars
        BY <3>1 DEF watchVars, WatchInv, DeviceRows, MoreDevices
      <3>2. CASE FallsSilent
        <4>1. PICK d \in DOMAIN devices : devices' = [devices EXCEPT ![d].signal = "silent"]
          BY <3>2 DEF FallsSilent
        <4> DEFINE row == [devices[d] EXCEPT !.signal = "silent"]
        <4>2. devices' = [devices EXCEPT ![d] = row] /\ UNCHANGED alerts
          BY <3>2, <4>1 DEF FallsSilent
        <4>3. DOMAIN row = DeviceFields /\ row.signal \in Signals /\ row.sims = devices[d].sims
          BY DEF WatchInv, DeviceRows, DeviceFields, Signals
        <4>4. IsFiniteSet(row.sims)
          BY <4>3 DEF WatchInv, DeviceRows
        <4> HIDE DEF row
        <4>5. QED
          BY <4>2, <4>3, <4>4, DeviceWritten DEF WatchInv
      <3>3. QED
        BY <1>3, <3>1, <3>2
    <2>2. AlertRows'
      BY <2>1, AlertsStay DEF WatchInv
    <2>3. Come' = Come /\ UNCHANGED sent /\ \A d \in Come : saw'[d] = saw[d] /\ pc'[d] \in {pc[d], "dead"}
      BY <1>3, AllStay
    <2>4. \A d \in Come : Alarming(d)'
      BY <2>1, <2>3, AlarmingStays DEF WatchInv
    <2>5. QED
      BY <2>1, <2>2, <2>3, <2>4 DEF WatchInv
  <1>4. QED
    BY <1>2, <1>3, TurnsTaken

-----------------------------------------------------------------------------
(* Events of journeys: an event is recorded of a journey that is there, and  *)
(* journeys stay                                                              *)

EventsInv == \A e \in events : e[1] \in DOMAIN journeys

LEMMA EventsStepInv ==
  ASSUME RequestInv, TravelInv, EventsInv, [Next]_vars
  PROVE  EventsInv'
  <1>1. CASE UNCHANGED events /\ DOMAIN journeys \subseteq DOMAIN journeys'
    BY <1>1 DEF EventsInv
  <1>2. CASE UNCHANGED viharVars
    BY <1>1, <1>2 DEF viharVars
  <1>3. ASSUME NEW c \in Come, ViharStep(c)
        PROVE  EventsInv'
    <2>1. CASE CreateRoute(c) \/ RouteRead(c) \/ RouteWrite(c) \/ JourneyFind(c) \/ JourneyTell(c)
      BY <1>1, <2>1 DEF CreateRoute, RouteRead, RouteWrite, JourneyFind, JourneyTell, viharVars
    <2>2. CASE JourneyCreate(c)
      BY <1>1, <2>2 DEF JourneyCreate, Put
    <2>3. CASE EventRead(c) \/ Delay(c) \/ DelayRaise(c)
      BY <1>1, <2>3 DEF EventRead, Delay, DelayRaise, viharVars
    <2>4. CASE Arrival(c)
      BY <1>1, <2>4 DEF Arrival, MoveOn
    <2>5. CASE EntryCreate(c) \/ EntryRead(c) \/ EntryWrite(c) \/ TrackingRead(c)
      BY <1>1, <2>5 DEF EntryCreate, EntryRead, EntryWrite, TrackingRead, viharVars
    <2>6. CASE Op(c) = "event" /\ EventCreate(c)
      <3>1. /\ pc[c] = "event" /\ UNCHANGED journeys
            /\ events' = events \union {<<J(c), sent[c].type, c>>}
        BY <2>6, Moved DEF EventCreate
      <3>2. J(c) \in DOMAIN journeys
        BY <2>6, <3>1 DEF TravelInv, Read, Recording
      <3>3. QED
        BY <3>1, <3>2 DEF EventsInv
    <2>7. QED
      BY <1>3, <2>1, <2>2, <2>3, <2>4, <2>5, <2>6 DEF ViharStep
  <1>4. QED
    BY <1>2, <1>3, TurnsTaken DEF Turn, Works

-----------------------------------------------------------------------------
(* Sites: rooms, wings and buildings, reviews, offers                        *)

WingFields == {"building", "gone"}
RoomFields == {"wing", "gone", "status"}
Housed ==
    /\ \A x \in DOMAIN wings : DOMAIN wings[x] = WingFields /\ wings[x].building \in DOMAIN buildings
    /\ \A r \in DOMAIN rooms : DOMAIN rooms[r] = RoomFields /\ rooms[r].wing \in DOMAIN wings
Reviewed == \A k \in DOMAIN reviews : k[1] \in DOMAIN sites /\ IsMember(k[2])
Offered == \A k \in DOMAIN offers : k[1] \in DOMAIN chances /\ IsMember(k[2])

\* Who is about to write a review is a member.
Reviewing(c) == Op(c) = "review" /\ pc[c] = "write" => IsMember(By(c))

SiteInv == Housed /\ Reviewed /\ Offered /\ \A c \in Come : Reviewing(c)

\* Sites are never deleted.
MoreSites == DOMAIN sites \subseteq DOMAIN sites'

LEMMA ReviewingStays ==
  ASSUME Growth, UNCHANGED sent, NEW d, Reviewing(d), saw'[d] = saw[d], pc'[d] \in {pc[d], "dead"}
  PROVE  Reviewing(d)'
  BY SentStays DEF Reviewing, IsMember, Growth

LEMMA SitesStay ==
  ASSUME SiteInv, Growth
  PROVE  /\ UNCHANGED <<buildings, wings, rooms>> => Housed'
         /\ UNCHANGED reviews /\ MoreSites => Reviewed'
         /\ UNCHANGED <<chances, offers>> => Offered'
  BY DEF SiteInv, Housed, Reviewed, Offered, IsMember, Growth, MoreSites

\* A wing and its rooms go together.
LEMMA HouseDropped ==
  ASSUME Housed, NEW B, NEW W, NEW R,
         buildings' = Drop(buildings, B), wings' = Drop(wings, W), rooms' = Drop(rooms, R)
  PROVE  Housed'
  <1>1. DOMAIN buildings' = DOMAIN buildings
    BY DEF Drop
  <1>2. /\ DOMAIN wings' = DOMAIN wings
        /\ \A x \in DOMAIN wings : DOMAIN wings'[x] = DOMAIN wings[x]
                                   /\ (DOMAIN wings[x] = WingFields => wings'[x].building = wings[x].building)
    BY DEF Drop, WingFields
  <1>3. /\ DOMAIN rooms' = DOMAIN rooms
        /\ \A x \in DOMAIN rooms : DOMAIN rooms'[x] = DOMAIN rooms[x]
                                   /\ (DOMAIN rooms[x] = RoomFields => rooms'[x].wing = rooms[x].wing)
    BY DEF Drop, RoomFields
  <1>4. QED
    BY <1>1, <1>2, <1>3 DEF Housed

\* A building is made with a wing, and rooms in it.
LEMMA HouseBuilt ==
  ASSUME Housed, NEW b, NEW brow, NEW w, NEW asked,
         buildings' = PutNew(buildings, b, brow),
         wings' = PutNew(wings, w, [building |-> b, gone |-> FALSE]),
         rooms' = [r \in DOMAIN rooms \union asked |->
                      IF r \notin DOMAIN rooms THEN [wing |-> w, gone |-> FALSE, status |-> "AVAILABLE"]
                      ELSE IF r \in asked THEN [rooms[r] EXCEPT !.status = "AVAILABLE"]
                      ELSE IF rooms[r].wing = w THEN [rooms[r] EXCEPT !.gone = TRUE] ELSE rooms[r]]
  PROVE  Housed'
  <1>1. DOMAIN buildings' = DOMAIN buildings \union {b}
    BY DEF PutNew, Put
  <1> DEFINE wing == [building |-> b, gone |-> FALSE]
             room == [wing |-> w, gone |-> FALSE, status |-> "AVAILABLE"]
  <1>2. DOMAIN wing = WingFields /\ wing.building = b /\ DOMAIN room = RoomFields /\ room.wing = w
    BY DEF WingFields, RoomFields
  <1>3. wings' = PutNew(wings, w, wing)
    OBVIOUS
  <1>4. \A r \in DOMAIN rooms' :
            \/ rooms'[r] = room
            \/ r \in DOMAIN rooms /\ rooms'[r] \in {rooms[r], [rooms[r] EXCEPT !.status = "AVAILABLE"],
                                                    [rooms[r] EXCEPT !.gone = TRUE]}
    OBVIOUS
  <1> HIDE DEF wing, room
  <1>5. /\ DOMAIN wings' = DOMAIN wings \union {w}
        /\ \A x \in DOMAIN wings' : wings'[x] = wing \/ (x \in DOMAIN wings /\ wings'[x] = wings[x])
    BY <1>3 DEF PutNew, Put
  <1>6. \A x \in DOMAIN wings' : DOMAIN wings'[x] = WingFields /\ wings'[x].building \in DOMAIN buildings'
    BY <1>1, <1>2, <1>5 DEF Housed
  <1>7. ASSUME NEW r \in DOMAIN rooms'
        PROVE  DOMAIN rooms'[r] = RoomFields /\ rooms'[r].wing \in DOMAIN wings'
    <2>1. CASE rooms'[r] = room
      BY <1>2, <1>5, <2>1
    <2>2. CASE rooms'[r] # room
      <3>1. r \in DOMAIN rooms /\ DOMAIN rooms[r] = RoomFields /\ rooms[r].wing \in DOMAIN wings
        BY <1>4, <2>2 DEF Housed
      <3>2. DOMAIN rooms'[r] = RoomFields /\ rooms'[r].wing = rooms[r].wing
        BY <1>4, <2>2, <3>1 DEF RoomFields
      <3>3. QED
        BY <1>5, <3>1, <3>2
    <2>3. QED
      BY <2>1, <2>2
  <1>8. QED
    BY <1>6, <1>7 DEF Housed

LEMMA StructureHouses ==
  ASSUME RequestInv, Housed, NEW c \in Come, Structure(c), Op(c) \in {"building", "wing", "room", "roomEdit"}
  PROVE  Housed'
  <1> DEFINE k == sent[c].in
  <1>1. CASE pc'[c] # "done"
    <2>1. UNCHANGED <<buildings, wings, rooms>>
      BY <1>1 DEF Structure
    <2>2. QED
      BY <2>1 DEF Housed
  <1>2. CASE pc'[c] = "done" /\ Op(c) = "building"
    <2>1. \E row : buildings' = Put(buildings, c, row)
      BY <1>2 DEF Structure
    <2>2. UNCHANGED <<wings, rooms>>
      BY <1>2 DEF Structure
    <2>3. DOMAIN buildings \subseteq DOMAIN buildings'
      BY <2>1 DEF Put
    <2>4. QED
      BY <2>2, <2>3 DEF Housed
  <1>3. CASE pc'[c] = "done" /\ Op(c) = "wing"
    <2> DEFINE row == [building |-> k, gone |-> FALSE]
    <2>1. wings' = Put(wings, <<c, k>>, row) /\ UNCHANGED <<buildings, rooms>>
      BY <1>3 DEF Structure
    <2>2. k \in There(buildings)
      <3>1. Permit(c, None, "DHARAMSHALAS", "EDIT", IF k \in There(buildings) THEN "done" ELSE "refused")
        BY <1>3 DEF Structure
      <3>2. QED
        BY <1>3, <3>1, Moved
    <2>3. DOMAIN row = WingFields /\ row.building = k /\ k \in DOMAIN buildings
      BY <2>2 DEF WingFields, There
    <2> HIDE DEF row, k
    <2>4. QED
      BY <2>1, <2>3 DEF Housed, Put
  <1>4. CASE pc'[c] = "done" /\ Op(c) = "room"
    <2> DEFINE row == [wing |-> k, gone |-> FALSE, status |-> "AVAILABLE"]
    <2>1. rooms' = Put(rooms, c, row) /\ UNCHANGED <<buildings, wings>>
      BY <1>4 DEF Structure
    <2>2. k \in There(wings)
      <3>1. Permit(c, None, "DHARAMSHALAS", "EDIT", IF k \in There(wings) THEN "done" ELSE "refused")
        BY <1>4 DEF Structure
      <3>2. QED
        BY <1>4, <3>1, Moved
    <2>3. DOMAIN row = RoomFields /\ row.wing = k /\ k \in DOMAIN wings
      BY <2>2 DEF RoomFields, There
    <2> HIDE DEF row, k
    <2>4. QED
      BY <2>1, <2>3 DEF Housed, Put
  <1>5. CASE pc'[c] = "done" /\ Op(c) = "roomEdit"
    <2> DEFINE row == [rooms[k] EXCEPT !.status = sent[c].status]
    <2>1. rooms' = [rooms EXCEPT ![k] = row] /\ UNCHANGED <<buildings, wings>>
      BY <1>5 DEF Structure
    <2>2. k \in DOMAIN rooms => DOMAIN row = RoomFields /\ row.wing \in DOMAIN wings
      BY DEF Housed, RoomFields
    <2> HIDE DEF row, k
    <2>3. QED
      BY <2>1, <2>2 DEF Housed
  <1>6. QED
    BY <1>1, <1>2, <1>3, <1>4, <1>5

LEMMA ReviewSites ==
  ASSUME RequestInv, SiteInv, Growth, NEW c \in Come, Op(c) \in {"review", "reviewPublish", "reviewHide"},
         ReviewEnters(c) \/ ReviewWrite(c) \/ AverageRead(c) \/ AverageWrite(c)
  PROVE  Housed' /\ Reviewed' /\ Offered' /\ Reviewing(c)' /\ MoreSites
  <1>1. UNCHANGED <<buildings, wings, rooms, chances, offers>> /\ Op(c)' = Op(c) /\ By(c)' = By(c)
    <2>1. UNCHANGED <<buildings, wings, rooms, chances, offers>>
      BY DEF ReviewEnters, ReviewWrite, AverageRead, AverageWrite, siteVars
    <2>2. UNCHANGED sent
      BY DEF ReviewEnters, ReviewWrite, AverageRead, AverageWrite, Authenticate, Permit, Move, Goto
    <2>3. QED
      BY <2>1, <2>2, SentStays
  <1>2. Housed' /\ Offered'
    BY <1>1, SitesStay
  <1>3. CASE ReviewEnters(c)
    <2>1. UNCHANGED reviews /\ MoreSites
      BY <1>3 DEF ReviewEnters, siteVars, MoreSites
    <2>2. Op(c) = "review" => Authenticate(c, IF IsMember(By(c)) THEN "write" ELSE "refused")
      BY <1>3 DEF ReviewEnters
    <2>3. Op(c) = "review" /\ pc'[c] = "write" => IsMember(By(c))
      BY <2>2, Moved
    <2>4. Reviewing(c)'
      BY <1>1, <2>3 DEF Reviewing, IsMember, Growth
    <2>5. QED
      BY <1>2, <2>1, <2>4, SitesStay
  <1>4. CASE ReviewWrite(c)
    <2>1. UNCHANGED sites /\ MoreSites
      BY <1>4 DEF ReviewWrite, MoreSites
    <2>2. pc[c] = "write" /\ pc'[c] # "write"
      BY <1>4, Moved DEF ReviewWrite
    <2> DEFINE k == ReviewOf(c)
               row == [rating |-> sent[c].rating, published |-> FALSE, hidden |-> FALSE]
    <2>3. \/ DOMAIN reviews' = DOMAIN reviews
          \/ Op(c) = "review" /\ IsSite(c) /\ reviews' = Put(reviews, k, row)
      <3> HIDE DEF row
      <3>1. CASE Op(c) = "review" /\ ~IsSite(c)
        BY <1>4, <3>1 DEF ReviewWrite
      <3>2. CASE Op(c) = "review" /\ IsSite(c)
        BY <1>4, <3>2 DEF ReviewWrite, row
      <3>3. CASE Op(c) = "reviewPublish"
        BY <1>4, <3>3 DEF ReviewWrite
      <3>4. CASE Op(c) = "reviewHide"
        BY <1>4, <3>4 DEF ReviewWrite
      <3>5. QED
        BY <3>1, <3>2, <3>3, <3>4
    <2>4. Op(c) = "review" => IsMember(By(c)) /\ k = <<Org(c), By(c)>>
      BY <2>2 DEF SiteInv, Reviewing, ReviewOf
    <2>5. \A x \in DOMAIN reviews' : x[1] \in DOMAIN sites /\ IsMember(x[2])
      <3>1. CASE DOMAIN reviews' = DOMAIN reviews
        BY <3>1 DEF SiteInv, Reviewed
      <3>2. CASE Op(c) = "review" /\ IsSite(c) /\ reviews' = Put(reviews, k, row)
        <4>1. DOMAIN reviews' = DOMAIN reviews \union {k}
          BY <3>2 DEF Put
        <4>2. k[1] \in DOMAIN sites /\ IsMember(k[2])
          BY <2>4, <3>2 DEF IsSite
        <4>3. QED
          BY <4>1, <4>2 DEF SiteInv, Reviewed
      <3>3. QED
        BY <2>3, <3>1, <3>2
    <2>6. Reviewed'
      BY <2>1, <2>5 DEF Reviewed, IsMember, Growth
    <2>7. Reviewing(c)'
      BY <2>2 DEF Reviewing
    <2>8. QED
      BY <1>2, <2>1, <2>6, <2>7
  <1>5. CASE AverageRead(c) \/ AverageWrite(c)
    <2>1. UNCHANGED reviews /\ MoreSites
      BY <1>5 DEF AverageRead, AverageWrite, siteVars, MoreSites
    <2>2. pc'[c] # "write"
      BY <1>5, Moved DEF AverageRead, AverageWrite
    <2>3. Reviewing(c)'
      BY <2>2 DEF Reviewing
    <2>4. QED
      BY <1>2, <2>1, <2>3, SitesStay
  <1>6. QED
    BY <1>3, <1>4, <1>5

\* An opportunity and who applies for it; the decision.
LEMMA ChanceSites ==
  ASSUME RequestInv, SiteInv, Growth, NEW c \in Come, Chance(c) \/ DecideOffer(c) \/ Enlist(c)
  PROVE  Offered'
  <1>1. CASE Enlist(c)
    BY <1>1, SitesStay DEF Enlist
  <1>2. CASE DecideOffer(c)
    <2>1. UNCHANGED chances /\ DOMAIN offers' = DOMAIN offers
      BY <1>2 DEF DecideOffer
    <2>2. QED
      BY <2>1 DEF SiteInv, Offered, IsMember, Growth
  <1>3. CASE Chance(c)
    <2> DEFINE k == <<sent[c].chance, By(c)>>
    <2>1. DOMAIN chances \subseteq DOMAIN chances'
      BY <1>3 DEF Chance, Put
    <2>2. \/ UNCHANGED offers
          \/ pc'[c] = "done" /\ Op(c) = "apply" /\ offers' = PutNew(offers, k, "PENDING")
      BY <1>3 DEF Chance
    <2>3. CASE UNCHANGED offers
      BY <2>1, <2>3 DEF SiteInv, Offered, IsMember, Growth
    <2>4. CASE pc'[c] = "done" /\ Op(c) = "apply" /\ offers' = PutNew(offers, k, "PENDING")
      <3>1. Authenticate(c, IF IsMember(By(c)) THEN (IF sent[c].chance \in DOMAIN chances THEN "done" ELSE "failed")
                            ELSE "refused")
        BY <1>3, <2>4 DEF Chance
      <3>2. IsMember(By(c)) /\ sent[c].chance \in DOMAIN chances
        BY <2>4, <3>1, Moved
      <3>3. DOMAIN offers' = DOMAIN offers \union {k}
        BY <2>4 DEF PutNew, Put
      <3>4. QED
        BY <2>1, <3>2, <3>3 DEF SiteInv, Offered, IsMember, Growth
    <2>5. QED
      BY <2>2, <2>3, <2>4
  <1>4. QED
    BY <1>1, <1>2, <1>3

LEMMA SiteSites ==
  ASSUME RequestInv, SiteInv, Growth, NEW c \in Come, SiteStep(c)
  PROVE  Housed' /\ Reviewed' /\ Offered' /\ Reviewing(c)' /\ MoreSites
  <1>1. Op(c)' = Op(c)
    BY SiteGoes, SentStays DEF Goes
  <1>2. CASE Op(c) \in {"review", "reviewPublish", "reviewHide"}
    BY <1>2, ReviewSites DEF SiteStep
  <1>3. CASE Op(c) \notin {"review", "reviewPublish", "reviewHide"}
    <2>1. Reviewing(c)'
      BY <1>1, <1>3 DEF Reviewing
    <2>2. ASSUME UNCHANGED <<buildings, wings, rooms, reviews, chances, offers>>, MoreSites
          PROVE  Housed' /\ Reviewed' /\ Offered'
      BY <2>2, SitesStay
    <2>3. UNCHANGED sites => MoreSites
      BY DEF MoreSites
    <2>4. CASE SiteEnters(c) \/ SiteWrite(c) \/ SiteCard(c)
      <3>1. UNCHANGED <<buildings, wings, rooms, reviews, chances, offers>> /\ MoreSites
        BY <2>3, <2>4 DEF SiteEnters, SiteWrite, SiteCard, siteVars, MoreSites, Put
      <3>2. QED
        BY <2>1, <2>2, <3>1
    <2>5. CASE Sync(c)
      <3>1. UNCHANGED <<sites, reviews, chances, offers>>
        BY <2>5 DEF Sync, SyncRead, SyncDrop, SyncBuild, restOfSites, siteVars
      <3>2. Housed'
        <4>1. CASE UNCHANGED <<buildings, wings, rooms>>
          BY <4>1, SitesStay
        <4>2. ASSUME NEW b, buildings' = Drop(buildings, {b}), wings' = Drop(wings, WingsOf(b)),
                     rooms' = Drop(rooms, {r \in DOMAIN rooms : rooms[r].wing \in WingsOf(b)})
              PROVE  Housed'
          BY <4>2, HouseDropped DEF SiteInv
        <4>3. CASE SyncBuild(c) /\ ~UNCHANGED <<buildings, wings, rooms>>
          <5>1. PICK b \in saw[c].todo :
                  \E w \in IF WingsOf(b) = {} THEN {<<c, b>>} ELSE WingsOf(b) :
                     /\ buildings' = PutNew(buildings, b, [org |-> Site(c), gone |-> FALSE])
                     /\ wings' = PutNew(wings, w, [building |-> b, gone |-> FALSE])
                     /\ rooms' = [r \in DOMAIN rooms \union sent[c].form[b] |->
                            IF r \notin DOMAIN rooms THEN [wing |-> w, gone |-> FALSE, status |-> "AVAILABLE"]
                            ELSE IF r \in sent[c].form[b] THEN [rooms[r] EXCEPT !.status = "AVAILABLE"]
                            ELSE IF rooms[r].wing = w THEN [rooms[r] EXCEPT !.gone = TRUE] ELSE rooms[r]]
            BY <4>3 DEF SyncBuild
          <5>2. QED
            BY <5>1, HouseBuilt DEF SiteInv
        <4>4. CASE SyncDrop(c)
          BY <4>1, <4>2, <4>4 DEF SyncDrop
        <4>5. CASE SyncRead(c)
          BY <4>1, <4>5 DEF SyncRead, siteVars
        <4>6. QED
          BY <2>5, <4>1, <4>3, <4>4, <4>5 DEF Sync
      <3>3. QED
        BY <2>1, <2>3, <3>1, <3>2, SitesStay
    <2>6. CASE Structure(c) /\ Op(c) \in {"building", "wing", "room", "roomEdit"}
      <3>1. UNCHANGED <<sites, reviews, chances, offers>>
        BY <2>6 DEF Structure, restOfSites
      <3>2. QED
        BY <2>1, <2>3, <2>6, <3>1, StructureHouses, SitesStay DEF SiteInv
    <2>7. CASE PartEnters(c) \/ PartWrite(c) \/ PartCard(c) \/ Badge(c, U(c)) \/ PartDelete(c)
      BY <2>1, <2>2, <2>3, <2>7 DEF PartEnters, PartWrite, PartCard, Badge, PartDelete, siteVars
    <2>8. CASE FollowRead(c) \/ FollowWrite(c) \/ FollowCount(c) \/ Ask(c) \/ SiteGet(c)
      <3>1. UNCHANGED <<buildings, wings, rooms, reviews, chances, offers>> /\ MoreSites
        BY <2>3, <2>8 DEF FollowRead, FollowWrite, FollowCount, Ask, SiteGet, siteVars, MoreSites
      <3>2. QED
        BY <2>1, <2>2, <3>1
    <2>9. CASE Chance(c) \/ DecideOffer(c) \/ Enlist(c)
      <3>1. UNCHANGED <<sites, buildings, wings, rooms, reviews>>
        BY <2>9 DEF Chance, DecideOffer, Enlist
      <3>2. QED
        BY <2>1, <2>3, <2>9, <3>1, ChanceSites, SitesStay
    <2>10. QED
      BY <1>3, <2>4, <2>5, <2>6, <2>7, <2>8, <2>9 DEF SiteStep
  <1>4. QED
    BY <1>2, <1>3

LEMMA SiteStepInv ==
  ASSUME RequestInv, SiteInv, Growth, [Next]_vars
  PROVE  SiteInv' /\ MoreSites
  <1>1. ASSUME NEW c \in Come, Goes(c), Housed', Reviewed', Offered', Reviewing(c)'
        PROVE  SiteInv'
    <2>1. /\ Come' = Come /\ UNCHANGED sent
          /\ \A d \in Come \ {c} : pc'[d] = pc[d] /\ saw'[d] = saw[d]
      BY <1>1, RequestsGo DEF Goes
    <2>2. \A d \in Come \ {c} : Reviewing(d)'
      BY <2>1, ReviewingStays DEF SiteInv
    <2>3. QED
      BY <1>1, <2>1, <2>2 DEF SiteInv
  <1>2. UNCHANGED Grounds => Housed' /\ Reviewed' /\ Offered' /\ MoreSites
    <2>1. UNCHANGED Grounds => UNCHANGED <<sites, buildings, wings, rooms, reviews, chances, offers>> /\ MoreSites
      BY DEF Grounds, MoreSites
    <2>2. QED
      BY <2>1, SitesStay
  <1>3. ASSUME NEW c \in Come, Goes(c), Turn(c)
        PROVE  SiteInv' /\ MoreSites
    <2>1. CASE SiteStep(c)
      BY <1>1, <1>3, <2>1, SiteSites
    <2>2. CASE ~SiteStep(c)
      <3>1. UNCHANGED Grounds
        BY <1>3, <2>2 DEF Turn, Works
      <3>2. Op(c) # "review"
        BY <1>3, <2>2 DEF Turn, Entry, AccountStep, AdminStep, AdminOps, MemberStep, StaffStep,
                          MonkStep, OfficeStep, WatchStep, ViharStep
      <3>3. Op(c)' = Op(c)
        BY <1>3, SentStays DEF Goes
      <3>4. Reviewing(c)'
        BY <3>2, <3>3 DEF Reviewing
      <3>5. QED
        BY <1>1, <1>2, <1>3, <3>1, <3>4
    <2>3. QED
      BY <2>1, <2>2
  <1>4. CASE (UNCHANGED request \/ \E c \in Come : Die(c)) /\ UNCHANGED Grounds
    <2>1. Come' = Come /\ UNCHANGED sent /\ \A d \in Come : saw'[d] = saw[d] /\ pc'[d] \in {pc[d], "dead"}
      BY <1>4, AllStay
    <2>2. \A d \in Come : Reviewing(d)'
      BY <2>1, ReviewingStays DEF SiteInv
    <2>3. QED
      BY <1>2, <1>4, <2>1, <2>2 DEF SiteInv
  <1>5. QED
    BY <1>3, <1>4, TurnsTaken

-----------------------------------------------------------------------------
(* Monks: profiles and their groups, who follows a monk, plans               *)

MonkFields == {"group", "status", "timeline", "gone"}
PlanFields == {"org", "monks", "gone"}
Profiled == \A m \in DOMAIN monks : DOMAIN monks[m] = MonkFields /\ monks[m].group \in DOMAIN groups \union {None}
Planned == \A p \in DOMAIN plans : DOMAIN plans[p] = PlanFields /\ plans[p].monks \subseteq DOMAIN monks \union Listed
Devoted == \A k \in devoted : k[1] \in DOMAIN monks /\ IsMember(k[2])

\* Who is about to follow a monk, and the monks that a plan was expanded to.
Devoting(c) == Op(c) = "devote" /\ pc[c] = "write" => IsMember(By(c)) /\ M(c) \in DOMAIN monks
Planning(c) == Op(c) \in {"plan", "planEdit"} /\ pc[c] = "write" => saw[c].monks \subseteq DOMAIN monks \union Listed

MonkInv == Profiled /\ Planned /\ Devoted /\ \A c \in Come : Devoting(c) /\ Planning(c)

\* Monks and their groups are never deleted.
MoreMonks == DOMAIN monks \subseteq DOMAIN monks' /\ DOMAIN groups \subseteq DOMAIN groups'

LEMMA ListedStays ==
  ASSUME UNCHANGED sent, Come' = Come
  PROVE  Listed' = Listed
  BY DEF Listed, Op

LEMMA MonksStay ==
  ASSUME MonkInv, Growth, MoreMonks, UNCHANGED sent, Come' = Come
  PROVE  /\ UNCHANGED monks => Profiled'
         /\ UNCHANGED plans => Planned'
         /\ UNCHANGED devoted => Devoted'
  <1>1. Listed' = Listed
    BY ListedStays
  <1>2. UNCHANGED monks => Profiled'
    BY DEF MonkInv, Profiled, MoreMonks
  <1>3. UNCHANGED plans => Planned'
    BY <1>1 DEF MonkInv, Planned, MoreMonks
  <1>4. UNCHANGED devoted => Devoted'
    BY DEF MonkInv, Devoted, MoreMonks, IsMember, Growth
  <1>5. QED
    BY <1>2, <1>3, <1>4

LEMMA DevotionStays ==
  ASSUME Growth, MoreMonks, UNCHANGED sent, Come' = Come, NEW d, Devoting(d), Planning(d),
         saw'[d] = saw[d], pc'[d] \in {pc[d], "dead"}
  PROVE  Devoting(d)' /\ Planning(d)'
  <1>1. Op(d)' = Op(d) /\ By(d)' = By(d) /\ M(d)' = M(d)
    BY SentStays DEF M
  <1>2. Listed' = Listed
    BY ListedStays
  <1>3. Devoting(d)'
    BY <1>1 DEF Devoting, IsMember, Growth, MoreMonks
  <1>4. Planning(d)'
    BY <1>1, <1>2 DEF Planning, MoreMonks
  <1>5. QED
    BY <1>3, <1>4

\* A group is written, and its monks are regrouped.
LEMMA MonksGrouped ==
  ASSUME Profiled, NEW g, NEW row, NEW among, groups' = Put(groups, g, row), monks' = Regroup(g, among)
  PROVE  Profiled' /\ MoreMonks
  <1>1. DOMAIN groups' = DOMAIN groups \union {g}
    BY DEF Put
  <1>2. DOMAIN monks' = DOMAIN monks
    BY DEF Regroup
  <1>3. ASSUME NEW m \in DOMAIN monks
        PROVE  DOMAIN monks'[m] = MonkFields /\ monks'[m].group \in DOMAIN groups' \union {None}
    <2>1. DOMAIN monks[m] = MonkFields /\ monks[m].group \in DOMAIN groups \union {None}
      BY DEF Profiled
    <2>2. monks'[m] \in {[monks[m] EXCEPT !.group = g], [monks[m] EXCEPT !.group = None], monks[m]}
      BY DEF Regroup
    <2>3. QED
      BY <1>1, <2>1, <2>2 DEF MonkFields
  <1>4. QED
    BY <1>1, <1>2, <1>3 DEF Profiled, MoreMonks

\* A profile that is there before or not.
LEMMA MonkMade ==
  ASSUME Profiled, NEW m, monks' = Put(monks, m, NewMonk), UNCHANGED groups
  PROVE  Profiled' /\ MoreMonks
  <1>1. DOMAIN NewMonk = MonkFields /\ NewMonk.group = None
    BY DEF NewMonk, MonkFields
  <1>2. DOMAIN monks' = DOMAIN monks \union {m} /\ \A x \in DOMAIN monks' : monks'[x] = IF x = m THEN NewMonk ELSE monks[x]
    BY DEF Put
  <1>3. QED
    BY <1>1, <1>2 DEF Profiled, MoreMonks

LEMMA MonkSaved ==
  ASSUME RequestInv, Profiled, NEW c, ProfileSave(c)
  PROVE  Profiled' /\ MoreMonks
  <1>1. UNCHANGED groups
    BY DEF ProfileSave
  <1>2. DOMAIN monks' = DOMAIN monks /\ \A m \in DOMAIN monks \ {M(c)} : monks'[m] = monks[m]
    BY DEF ProfileSave
  <1>3. M(c) \in DOMAIN monks =>
            monks'[M(c)] \in {[monks[M(c)] EXCEPT !.timeline = sent[c].timeline], [monks[M(c)] EXCEPT !.gone = TRUE],
                              [monks[M(c)] EXCEPT !.status = sent[c].status]}
    BY DEF ProfileSave
  <1>4. M(c) \in DOMAIN monks =>
            /\ DOMAIN monks'[M(c)] = MonkFields
            /\ monks'[M(c)].group = monks[M(c)].group
    BY <1>3 DEF Profiled, MonkFields
  <1>5. QED
    BY <1>1, <1>2, <1>4 DEF Profiled, MoreMonks

\* The member and the monk, then the row.
LEMMA MonkDevoted ==
  ASSUME RequestInv, MonkInv, Growth, UNCHANGED sent, Come' = Come, NEW c \in Come,
         Op(c) \in {"devote", "leaveMonk"}, DevoteRead(c) \/ DevoteWrite(c)
  PROVE  UNCHANGED <<monks, groups, plans>> /\ Devoted' /\ Devoting(c)'
  <1>1. UNCHANGED <<monks, groups, plans>> /\ MoreMonks
    BY DEF DevoteRead, DevoteWrite, monkVars, MoreMonks
  <1>2. Op(c)' = Op(c) /\ By(c)' = By(c) /\ M(c)' = M(c)
    BY SentStays DEF M
  <1>3. CASE DevoteRead(c)
    <2>1. pc'[c] = "write" => IsMember(By(c)) /\ Present(monks, M(c))
      BY <1>3, Moved DEF DevoteRead
    <2>2. Devoting(c)'
      BY <1>1, <1>2, <2>1 DEF Devoting, Present, IsMember, Growth
    <2>3. QED
      BY <1>1, <1>3, <2>2, MonksStay DEF DevoteRead, monkVars
  <1>4. CASE DevoteWrite(c)
    <2>1. pc[c] = "write" /\ pc'[c] # "write"
      BY <1>4, Moved DEF DevoteWrite
    <2> DEFINE k == <<M(c), By(c)>>
    <2>2. devoted' = IF Op(c) = "devote" THEN devoted \union {k} ELSE devoted \ {k}
      BY <1>4 DEF DevoteWrite
    <2>3. Op(c) = "devote" => IsMember(By(c)) /\ M(c) \in DOMAIN monks
      BY <2>1 DEF MonkInv, Devoting
    <2>4. \A x \in devoted' : x[1] \in DOMAIN monks /\ IsMember(x[2])
      BY <2>2, <2>3 DEF MonkInv, Devoted
    <2>5. Devoted'
      BY <1>1, <2>4 DEF Devoted, IsMember, Growth
    <2>6. QED
      BY <1>1, <2>1, <2>5 DEF Devoting
  <1>5. QED
    BY <1>3, <1>4

\* A plan is expanded when it is saved.
LEMMA MonkPlanned ==
  ASSUME RequestInv, MonkInv, Growth, UNCHANGED sent, Come' = Come, NEW c \in Come,
         Op(c) \in {"plan", "planEdit", "planDelete"}, PlanRead(c) \/ PlanWrite(c) \/ PlanCards(c)
  PROVE  UNCHANGED <<monks, groups, devoted>> /\ Planned' /\ Planning(c)'
  <1>1. UNCHANGED <<monks, groups, devoted>> /\ MoreMonks
    BY DEF PlanRead, PlanWrite, PlanCards, monkVars, MoreMonks
  <1>2. Op(c)' = Op(c) /\ Listed' = Listed
    BY SentStays, ListedStays
  <1>3. CASE PlanRead(c)
    <2>1. saw'[c] = [monks |-> IF Op(c) = "planDelete" THEN {} ELSE Expanded(c)]
      BY <1>3, Moved DEF PlanRead
    <2>2. Op(c) \in {"plan", "planEdit"} => Expanded(c) \subseteq DOMAIN monks \union Listed
      BY DEF Expanded, Listed
    <2>3. Planning(c)'
      BY <1>1, <1>2, <2>1, <2>2 DEF Planning
    <2>4. QED
      BY <1>1, <1>3, <2>3, MonksStay DEF PlanRead, monkVars
  <1>4. CASE PlanWrite(c)
    <2>1. pc[c] = "write" /\ pc'[c] # "write"
      BY <1>4, Moved DEF PlanWrite
    <2> DEFINE row == [org |-> sent[c].org, monks |-> saw[c].monks, gone |-> FALSE]
               p == sent[c].plan
    <2>2. Op(c) \in {"plan", "planEdit"} => saw[c].monks \subseteq DOMAIN monks \union Listed
      BY <2>1 DEF MonkInv, Planning
    <2>3. DOMAIN row = PlanFields /\ row.monks = saw[c].monks
      BY DEF PlanFields
    <2> HIDE DEF row
    <2>4. CASE Op(c) = "plan"
      <3>1. plans' = Put(plans, c, row)
        BY <1>4, <2>4 DEF PlanWrite, row
      <3>2. DOMAIN plans' = DOMAIN plans \union {c} /\ \A x \in DOMAIN plans' : plans'[x] = IF x = c THEN row ELSE plans[x]
        BY <3>1 DEF Put
      <3>3. Planned'
        BY <1>1, <1>2, <2>2, <2>3, <2>4, <3>2 DEF MonkInv, Planned
      <3>4. QED
        BY <1>1, <2>1, <3>3 DEF Planning
    <2>5. CASE Op(c) = "planEdit"
      <3>1. plans' = [plans EXCEPT ![p].monks = saw[c].monks]
        BY <1>4, <2>5 DEF PlanWrite
      <3>2. DOMAIN plans' = DOMAIN plans /\ \A x \in DOMAIN plans' : plans'[x] = IF x = p THEN [plans[p] EXCEPT !.monks = saw[c].monks] ELSE plans[x]
        BY <3>1
      <3>3. Planned'
        BY <1>1, <1>2, <2>2, <2>5, <3>2 DEF MonkInv, Planned, PlanFields
      <3>4. QED
        BY <1>1, <2>1, <3>3 DEF Planning
    <2>6. CASE Op(c) = "planDelete"
      <3>1. plans' = [plans EXCEPT ![p].gone = TRUE]
        BY <1>4, <2>6 DEF PlanWrite
      <3>2. DOMAIN plans' = DOMAIN plans /\ \A x \in DOMAIN plans' : plans'[x] = IF x = p THEN [plans[p] EXCEPT !.gone = TRUE] ELSE plans[x]
        BY <3>1
      <3>3. Planned'
        BY <1>1, <1>2, <2>6, <3>2 DEF MonkInv, Planned, PlanFields
      <3>4. QED
        BY <1>1, <2>1, <3>3 DEF Planning
    <2>7. QED
      BY <2>4, <2>5, <2>6
  <1>5. CASE PlanCards(c)
    <2>1. UNCHANGED plans /\ pc'[c] # "write"
      BY <1>5, Moved DEF PlanCards
    <2>2. QED
      BY <1>1, <2>1, MonksStay DEF Planning
  <1>6. QED
    BY <1>3, <1>4, <1>5

LEMMA MonkMonks ==
  ASSUME RequestInv, MonkInv, Growth, UNCHANGED sent, Come' = Come, NEW c \in Come, MonkStep(c)
  PROVE  Profiled' /\ Planned' /\ Devoted' /\ MoreMonks /\ Devoting(c)' /\ Planning(c)'
  <1>1. Op(c)' = Op(c)
    BY SentStays
  <1>2. UNCHANGED <<monks, groups>> => MoreMonks
    BY DEF MoreMonks
  <1>3. CASE Op(c) \in {"devote", "leaveMonk"}
    <2>1. UNCHANGED <<monks, groups, plans>> /\ Devoted' /\ Devoting(c)'
      BY <1>3, MonkDevoted DEF MonkStep
    <2>2. Planning(c)'
      BY <1>1, <1>3 DEF Planning
    <2>3. QED
      BY <1>2, <2>1, <2>2, MonksStay
  <1>4. CASE Op(c) \in {"plan", "planEdit", "planDelete"}
    <2>1. UNCHANGED <<monks, groups, devoted>> /\ Planned' /\ Planning(c)'
      BY <1>4, MonkPlanned DEF MonkStep
    <2>2. Devoting(c)'
      BY <1>1, <1>4 DEF Devoting
    <2>3. QED
      BY <1>2, <2>1, <2>2, MonksStay
  <1>5. CASE Op(c) \notin {"devote", "leaveMonk", "plan", "planEdit", "planDelete"}
    <2>1. Devoting(c)' /\ Planning(c)'
      BY <1>1, <1>5 DEF Devoting, Planning
    <2>2. UNCHANGED <<plans, devoted>> /\ Profiled' /\ MoreMonks
      <3>1. CASE MonkEnters(c) \/ MonkCard(c) \/ ProfileRead(c) \/ TimelinePost(c) \/ ReadMonks(c)
        <4>1. UNCHANGED <<monks, groups, plans, devoted>>
          BY <3>1 DEF MonkEnters, MonkCard, ProfileRead, TimelinePost, ReadMonks, monkVars
        <4>2. QED
          BY <1>2, <4>1, MonksStay
      <3>2. CASE MonkCreate(c)
        <4>1. UNCHANGED <<groups, plans, devoted>>
          BY <3>2 DEF MonkCreate
        <4>2. CASE UNCHANGED monks
          BY <1>2, <4>1, <4>2, MonksStay
        <4>3. CASE \E row : monks' = Put(monks, <<c, row>>, NewMonk)
          BY <4>1, <4>3, MonkMade DEF MonkInv
        <4>4. QED
          BY <3>2, <4>2, <4>3 DEF MonkCreate
      <3>3. CASE ProfileSave(c)
        BY <3>3, MonkSaved DEF MonkInv, ProfileSave
      <3>4. CASE Group(c)
        <4>1. UNCHANGED <<plans, devoted>>
          BY <3>4 DEF Group
        <4>2. CASE UNCHANGED <<groups, monks>>
          BY <1>2, <4>1, <4>2, MonksStay
        <4>3. CASE ~UNCHANGED <<groups, monks>>
          <5>1. PICK g : /\ groups' = Put(groups, g, [gone |-> Op(c) = "mgroupDelete"])
                         /\ monks' = Regroup(g, IF Op(c) = "mgroupDelete" THEN {} ELSE sent[c].monks)
            BY <3>4, <4>3 DEF Group
          <5>2. QED
            BY <4>1, <5>1, MonksGrouped DEF MonkInv
        <4>4. QED
          BY <4>2, <4>3
      <3>5. QED
        BY <1>5, <3>1, <3>2, <3>3, <3>4 DEF MonkStep
    <2>3. QED
      BY <2>1, <2>2, MonksStay
  <1>6. QED
    BY <1>3, <1>4, <1>5

LEMMA MonkStepInv ==
  ASSUME RequestInv, MonkInv, Growth, [Next]_vars
  PROVE  MonkInv'
  <1>1. ASSUME NEW c \in Come, Goes(c), Profiled', Planned', Devoted', MoreMonks, Devoting(c)', Planning(c)'
        PROVE  MonkInv'
    <2>1. /\ Come' = Come /\ UNCHANGED sent
          /\ \A d \in Come \ {c} : pc'[d] = pc[d] /\ saw'[d] = saw[d]
      BY <1>1, RequestsGo DEF Goes
    <2>2. \A d \in Come \ {c} : Devoting(d)' /\ Planning(d)'
      BY <1>1, <2>1, DevotionStays DEF MonkInv
    <2>3. QED
      BY <1>1, <2>1, <2>2 DEF MonkInv
  <1>2. ASSUME UNCHANGED monkVars, Come' = Come, UNCHANGED sent
        PROVE  Profiled' /\ Planned' /\ Devoted' /\ MoreMonks
    <2>1. UNCHANGED <<monks, groups, plans, devoted>> /\ MoreMonks
      BY <1>2 DEF monkVars, MoreMonks
    <2>2. QED
      BY <1>2, <2>1, MonksStay
  <1>3. ASSUME NEW c \in Come, Goes(c), Turn(c)
        PROVE  MonkInv'
    <2>1. Come' = Come /\ UNCHANGED sent
      BY <1>3, RequestsGo DEF Goes
    <2>2. CASE MonkStep(c)
      BY <1>1, <1>3, <2>1, <2>2, MonkMonks
    <2>3. CASE ~MonkStep(c)
      <3>1. UNCHANGED monkVars
        BY <1>3, <2>3 DEF Turn, Works
      <3>2. Op(c) \notin {"devote", "plan", "planEdit"}
        BY <1>3, <2>3 DEF Turn, Entry, AccountStep, AdminStep, AdminOps, MemberStep, StaffStep,
                          SiteStep, OfficeStep, WatchStep, ViharStep
      <3>3. Op(c)' = Op(c)
        BY <2>1, SentStays
      <3>4. Devoting(c)' /\ Planning(c)'
        BY <3>2, <3>3 DEF Devoting, Planning
      <3>5. QED
        BY <1>1, <1>2, <1>3, <2>1, <3>1, <3>4
    <2>4. QED
      BY <2>2, <2>3
  <1>4. CASE (UNCHANGED request \/ \E c \in Come : Die(c)) /\ UNCHANGED monkVars
    <2>1. Come' = Come /\ UNCHANGED sent /\ \A d \in Come : saw'[d] = saw[d] /\ pc'[d] \in {pc[d], "dead"}
      BY <1>4, AllStay
    <2>2. \A d \in Come : Devoting(d)' /\ Planning(d)'
      BY <1>2, <1>4, <2>1, DevotionStays DEF MonkInv
    <2>3. QED
      BY <1>2, <1>4, <2>1, <2>2 DEF MonkInv
  <1>5. QED
    BY <1>3, <1>4, TurnsTaken

-----------------------------------------------------------------------------
(* The office: halls and their bookings, cases, letters, calendars, who is   *)
(* told                                                                       *)

HireFields == {"hall", "by", "status"}
CaseFields == {"kind", "by", "status"}
Hired == \A b \in DOMAIN hires : DOMAIN hires[b] = HireFields /\ hires[b].hall \in DOMAIN halls /\ IsMember(hires[b].by)
Opened == \A k \in DOMAIN cases : DOMAIN cases[k] = CaseFields /\ cases[k].by \in DOMAIN users
Addressed == \A l \in DOMAIN letters : letters[l].to \in DOMAIN sites \union {None}
Dated == \A t \in DOMAIN tithis : t[1] \in Calendars
Selected == \A x \in DOMAIN chosen : chosen[x] \in Calendars
Heard == \A h \in heard : h[1] \in DOMAIN users
Filed == Hired /\ Opened /\ Addressed /\ Dated /\ Selected /\ Heard

\* Who is about to book a hall or to raise a case, the calendar that is being
\* written, the accounts that are yet to be told. A hall is made at once.
Hiring(c) == /\ Op(c) = "hallBook" /\ pc[c] = "book" => IsMember(By(c))
             /\ ~(Op(c) = "hall" /\ pc[c] = "write")
Raising(c) == Op(c) = "case" /\ pc[c] \in {"number", "create"} => By(c) \in DOMAIN users
Dating(c) == Op(c) = "tithi" /\ pc[c] = "entry" => sent[c].calendar \in Calendars
Telling(c) == Op(c) \in {"decideCase", "announce", "daily"} /\ pc[c] = "tell"
                  => "todo" \in DOMAIN saw[c] /\ saw[c].todo \subseteq DOMAIN users
Calling(c) == Hiring(c) /\ Raising(c) /\ Dating(c) /\ Telling(c)

OfficeInv == Filed /\ \A c \in Come : Calling(c)

LEMMA Permitted ==
  ASSUME RequestInv, NEW c \in Come, NEW org, NEW m, NEW a, NEW next, Permit(c, org, m, a, next),
         pc'[c] # "refused"
  PROVE  Enters(c)
  <1>1. CASE ~Enters(c)
    <2>1. Move(c, "start", "refused")
      BY <1>1 DEF Permit
    <2>2. QED
      BY <2>1, Moved
  <1>2. QED
    BY <1>1

LEMMA OfficeStays ==
  ASSUME Filed, Growth, MoreSites
  PROVE  /\ UNCHANGED <<halls, hires>> => Hired'
         /\ UNCHANGED cases => Opened'
         /\ UNCHANGED letters => Addressed'
         /\ UNCHANGED tithis => Dated'
         /\ UNCHANGED chosen => Selected'
         /\ UNCHANGED heard => Heard'
  BY DEF Filed, Hired, Opened, Addressed, Dated, Selected, Heard, IsMember, Growth, MoreSites

LEMMA CallingStays ==
  ASSUME Growth, UNCHANGED sent, NEW d, Calling(d), saw'[d] = saw[d], pc'[d] \in {pc[d], "dead"}
  PROVE  Calling(d)'
  <1>1. Op(d)' = Op(d) /\ By(d)' = By(d)
    BY SentStays
  <1>2. Hiring(d)' /\ Raising(d)' /\ Dating(d)'
    BY <1>1 DEF Calling, Hiring, Raising, Dating, IsMember, Growth
  <1>3. Telling(d)'
    BY <1>1 DEF Calling, Telling, Growth
  <1>4. QED
    BY <1>2, <1>3 DEF Calling

\* Requests with nothing in hand.
LEMMA CallingNothing ==
  ASSUME UNCHANGED sent, NEW c, Op(c) \notin {"hall", "hallBook", "case", "tithi", "decideCase", "announce", "daily"}
  PROVE  Calling(c)'
  <1>1. Op(c)' = Op(c)
    BY SentStays
  <1>2. QED
    BY <1>1 DEF Calling, Hiring, Raising, Dating, Telling

\* A hall that is booked is not deleted, and only a hall that is there is booked.
LEMMA HallOffice ==
  ASSUME RequestInv, OfficeInv, Growth, UNCHANGED sent, NEW c \in Come,
         \/ Op(c) \in {"hall", "hallEdit", "hallDelete"} /\ (HallEnters(c) \/ HallWrite(c))
         \/ Op(c) = "hallBook" /\ HallBook(c)
         \/ HallStatus(c)
         \/ HallList(c)
  PROVE  Hired' /\ UNCHANGED <<cases, letters, tithis, chosen, heard>> /\ Hiring(c)'
  <1>1. UNCHANGED <<cases, letters, tithis, chosen, heard>>
    BY DEF HallEnters, HallWrite, HallBook, HallStatus, HallList, Show, officeVars, bulletinVars, tithiVars
  <1>2. DOMAIN halls \subseteq DOMAIN halls' /\ UNCHANGED hires => Hired'
    BY DEF OfficeInv, Filed, Hired, IsMember, Growth
  <1>3. CASE Op(c) \in {"hall", "hallEdit", "hallDelete"} /\ HallEnters(c)
    <2>1. UNCHANGED hires /\ DOMAIN halls \subseteq DOMAIN halls'
      BY <1>3 DEF HallEnters, Put
    <2>2. Hiring(c)'
      <3>1. pc'[c] # "book" /\ (pc'[c] = "write" => Op(c) # "hall")
        BY <1>3, Moved DEF HallEnters
      <3>2. QED
        BY <3>1, SentStays DEF Hiring
    <2>3. QED
      BY <1>1, <1>2, <2>1, <2>2
  <1>4. CASE Op(c) \in {"hall", "hallEdit", "hallDelete"} /\ HallWrite(c)
    <2>1. UNCHANGED hires /\ Op(c) # "hall"
      <3>1. pc[c] = "write"
        BY <1>4, Moved DEF HallWrite
      <3>2. QED
        BY <1>4, <3>1 DEF HallWrite, OfficeInv, Calling, Hiring
    <2>2. \A b \in DOMAIN hires : hires[b].hall \in DOMAIN halls => hires[b].hall \in DOMAIN halls'
      <3>1. CASE halls' = halls
        BY <3>1
      <3>2. CASE Op(c) = "hallEdit" /\ halls' = [halls EXCEPT ![H(c)].active = sent[c].on]
        BY <3>2
      <3>3. CASE /\ ~\E b \in DOMAIN hires : hires[b].hall = H(c)
                 /\ halls' = [h \in DOMAIN halls \ {H(c)} |-> halls[h]]
        BY <3>3
      <3>4. QED
        BY <1>4, <2>1, <3>1, <3>2, <3>3 DEF HallWrite
    <2>3. Hired'
      BY <2>1, <2>2 DEF OfficeInv, Filed, Hired, IsMember, Growth
    <2>4. pc'[c] \notin {"book", "write"}
      BY <1>4, Moved DEF HallWrite
    <2>5. QED
      BY <1>1, <2>3, <2>4 DEF Hiring
  <1>5. CASE Op(c) = "hallBook" /\ HallBook(c)
    <2> DEFINE row == [hall |-> H(c), by |-> By(c), status |-> "SUBMITTED"]
    <2>1. UNCHANGED halls
      BY <1>5 DEF HallBook
    <2>2. pc'[c] = "book" => IsMember(By(c))
      BY <1>5, Moved DEF HallBook
    <2>3. Hiring(c)'
      BY <1>5, <2>2, SentStays DEF Hiring, IsMember, Growth
    <2>4. UNCHANGED hires \/ (pc[c] = "book" /\ H(c) \in DOMAIN halls /\ hires' = Put(hires, c, row))
      BY <1>5, Moved DEF HallBook
    <2>5. CASE UNCHANGED hires
      BY <1>1, <1>2, <2>1, <2>3, <2>5
    <2>6. CASE pc[c] = "book" /\ H(c) \in DOMAIN halls /\ hires' = Put(hires, c, row)
      <3>1. IsMember(By(c))
        BY <1>5, <2>6 DEF OfficeInv, Calling, Hiring
      <3>2. DOMAIN row = HireFields /\ row.hall = H(c) /\ row.by = By(c)
        BY DEF HireFields
      <3> HIDE DEF row
      <3>3. DOMAIN hires' = DOMAIN hires \union {c} /\ \A b \in DOMAIN hires' : hires'[b] = IF b = c THEN row ELSE hires[b]
        BY <2>6 DEF Put
      <3>4. Hired'
        BY <2>1, <2>6, <3>1, <3>2, <3>3 DEF OfficeInv, Filed, Hired, IsMember, Growth
      <3>5. QED
        BY <1>1, <2>3, <3>4
    <2>7. QED
      BY <2>4, <2>5, <2>6
  <1>6. CASE HallStatus(c)
    <2>1. UNCHANGED halls
      BY <1>6 DEF HallStatus
    <2>2. hires' = hires \/ hires' = [hires EXCEPT ![sent[c].hire].status = sent[c].status]
      BY <1>6 DEF HallStatus
    <2>3. /\ DOMAIN hires' = DOMAIN hires
          /\ \A b \in DOMAIN hires : hires'[b] \in {hires[b], [hires[b] EXCEPT !.status = sent[c].status]}
      BY <2>2
    <2>4. Hired'
      BY <2>1, <2>3 DEF OfficeInv, Filed, Hired, HireFields, IsMember, Growth
    <2>5. pc'[c] \notin {"book", "write"}
      BY <1>6, Moved DEF HallStatus
    <2>6. QED
      BY <1>1, <2>4, <2>5 DEF Hiring
  <1>7. CASE HallList(c)
    <2>1. UNCHANGED <<halls, hires>>
      BY <1>7 DEF HallList, Show, officeVars, hallVars
    <2>2. pc'[c] \notin {"book", "write"}
      BY <1>7, Moved DEF HallList
    <2>3. QED
      BY <1>1, <1>2, <2>1, <2>2 DEF Hiring
  <1>8. QED
    BY <1>3, <1>4, <1>5, <1>6, <1>7

\* One account after the other is told.
LEMMA TellOffice ==
  ASSUME RequestInv, OfficeInv, Growth, UNCHANGED sent, NEW c \in Come, NEW after,
         after # "tell", Op(c) \in {"decideCase", "announce", "daily"}, Tell(c, after)
  PROVE  Heard' /\ UNCHANGED <<halls, hires, cases, letters, tithis, chosen>> /\ Telling(c)'
  <1>1. UNCHANGED <<halls, hires, cases, letters, tithis, chosen>>
    BY DEF Tell, hallVars, bulletinVars, tithiVars
  <1>2. pc[c] = "tell"
    BY DEF Tell
  <1>3. "todo" \in DOMAIN saw[c] /\ saw[c].todo \subseteq DOMAIN users
    BY <1>2 DEF OfficeInv, Calling, Telling
  <1>4. CASE Goto(c, after) /\ UNCHANGED heard
    <2>1. pc'[c] # "tell"
      BY <1>4, Moved
    <2>2. QED
      BY <1>1, <1>4, <2>1 DEF OfficeInv, Filed, Heard, Growth, Telling
  <1>5. ASSUME NEW u \in saw[c].todo, Goto(c, "tell"), Keep(c, [saw[c] EXCEPT !.todo = @ \ {u}]),
               heard' = heard \union {<<u, c>>}
        PROVE  Heard' /\ Telling(c)'
    <2>1. saw'[c] = [saw[c] EXCEPT !.todo = @ \ {u}]
      BY <1>5, Moved
    <2>2. "todo" \in DOMAIN saw'[c] /\ saw'[c].todo = saw[c].todo \ {u}
      BY <1>3, <2>1
    <2>3. Telling(c)'
      BY <1>3, <2>2 DEF Telling, Growth
    <2>4. Heard'
      BY <1>3, <1>5 DEF OfficeInv, Filed, Heard, Growth
    <2>5. QED
      BY <2>3, <2>4
  <1>6. QED
    BY <1>1, <1>4, <1>5 DEF Tell

\* A case is raised by an account, and its decision told to that account.
LEMMA CaseOffice ==
  ASSUME RequestInv, OfficeInv, Growth, UNCHANGED sent, NEW c \in Come, Op(c) = "case",
         CaseEnters(c) \/ CaseNumber(c) \/ CaseCreate(c)
  PROVE  Opened' /\ UNCHANGED <<halls, hires, letters, tithis, chosen, heard>> /\ Raising(c)'
  <1>1. UNCHANGED <<halls, hires, letters, tithis, chosen, heard>>
    BY DEF CaseEnters, CaseNumber, CaseCreate, officeVars, hallVars, bulletinVars, tithiVars
  <1>2. CASE CaseEnters(c)
    <2>1. UNCHANGED cases
      BY <1>2 DEF CaseEnters, officeVars
    <2>2. pc'[c] # "refused" => Enters(c)
      <3>1. CASE \E next : Authenticate(c, next)
        BY <3>1, Moved
      <3>2. CASE \E org, m, a, next : Permit(c, org, m, a, next)
        BY <3>2, Permitted
      <3>3. QED
        BY <1>2, <3>1, <3>2 DEF CaseEnters
    <2>3. pc'[c] # "refused" => By(c) \in DOMAIN users
      BY <2>2 DEF Enters, By
    <2>4. Raising(c)'
      BY <2>3, SentStays DEF Raising, Growth
    <2>5. QED
      BY <1>1, <2>1, <2>4 DEF OfficeInv, Filed, Opened, Growth
  <1>3. CASE CaseNumber(c)
    <2>1. UNCHANGED cases /\ pc[c] = "number"
      BY <1>3, Moved DEF CaseNumber, officeVars
    <2>2. By(c) \in DOMAIN users
      BY <2>1 DEF OfficeInv, Calling, Raising
    <2>3. Raising(c)'
      BY <2>2, SentStays DEF Raising, Growth
    <2>4. QED
      BY <1>1, <2>1, <2>3 DEF OfficeInv, Filed, Opened, Growth
  <1>4. CASE CaseCreate(c)
    <2> DEFINE row == [kind |-> Kind(c), by |-> By(c),
                       status |-> IF Kind(c) \in {"report", "feedback"} THEN "PENDING" ELSE "OPEN"]
    <2>1. pc[c] = "create" /\ pc'[c] = "done"
      BY <1>4, Moved DEF CaseCreate
    <2>2. By(c) \in DOMAIN users
      BY <2>1 DEF OfficeInv, Calling, Raising
    <2>3. cases' = Put(cases, c, row)
      BY <1>4 DEF CaseCreate
    <2>4. DOMAIN row = CaseFields /\ row.by = By(c)
      BY DEF CaseFields
    <2> HIDE DEF row
    <2>5. DOMAIN cases' = DOMAIN cases \union {c} /\ \A k \in DOMAIN cases' : cases'[k] = IF k = c THEN row ELSE cases[k]
      BY <2>3 DEF Put
    <2>6. Opened'
      BY <2>2, <2>4, <2>5 DEF OfficeInv, Filed, Opened, Growth
    <2>7. QED
      BY <1>1, <2>1, <2>6 DEF Raising
  <1>5. QED
    BY <1>2, <1>3, <1>4

LEMMA DecideOffice ==
  ASSUME RequestInv, OfficeInv, Growth, UNCHANGED sent, NEW c \in Come, DecideEnters(c) \/ DecideWrite(c)
  PROVE  Opened' /\ UNCHANGED <<halls, hires, letters, tithis, chosen, heard>> /\ Telling(c)'
  <1>1. UNCHANGED <<halls, hires, letters, tithis, chosen, heard>>
    BY DEF DecideEnters, DecideWrite, officeVars, hallVars, bulletinVars, tithiVars
  <1>2. CASE DecideEnters(c)
    <2>1. UNCHANGED cases
      BY <1>2 DEF DecideEnters, officeVars
    <2>2. pc'[c] # "tell"
      BY <1>2, Moved DEF DecideEnters, ByRoot
    <2>3. QED
      BY <1>1, <2>1, <2>2 DEF OfficeInv, Filed, Opened, Growth, Telling
  <1>3. CASE DecideWrite(c)
    <2> DEFINE k == sent[c].case
    <2>1. cases' = IF k \in DOMAIN cases THEN [cases EXCEPT ![k].status = sent[c].status] ELSE cases
      BY <1>3 DEF DecideWrite
    <2>2. /\ DOMAIN cases' = DOMAIN cases
          /\ \A x \in DOMAIN cases : cases'[x] \in {cases[x], [cases[x] EXCEPT !.status = sent[c].status]}
      BY <2>1
    <2>3. Opened'
      BY <2>2 DEF OfficeInv, Filed, Opened, CaseFields, Growth
    <2>4. saw'[c] = [todo |-> IF k \in DOMAIN cases THEN {cases[k].by} ELSE {}]
      BY <1>3, Moved DEF DecideWrite
    <2>5. "todo" \in DOMAIN saw'[c] /\ saw'[c].todo \subseteq DOMAIN users
      BY <2>4 DEF OfficeInv, Filed, Opened
    <2>6. Telling(c)'
      BY <2>5 DEF Telling, Growth
    <2>7. QED
      BY <1>1, <2>3, <2>6
  <1>4. QED
    BY <1>2, <1>3

\* Announcements are told to members; messages go to a site that is there.
LEMMA AnnounceOffice ==
  ASSUME RequestInv, PeopleInv, OfficeInv, Growth, UNCHANGED sent, NEW c \in Come,
         BulletinCreate(c) \/ BulletinCard(c) \/ Audience(c)
  PROVE  UNCHANGED <<halls, hires, cases, letters, tithis, chosen, heard>> /\ Telling(c)'
  <1>1. UNCHANGED <<halls, hires, cases, letters, tithis, chosen, heard>>
    BY DEF BulletinCreate, BulletinCard, Audience, officeVars, hallVars, bulletinVars, tithiVars
  <1>2. CASE BulletinCreate(c)
    <2>1. pc'[c] # "tell"
      BY <1>2, Moved DEF BulletinCreate, SitePermit
    <2>2. QED
      BY <1>1, <2>1 DEF Telling
  <1>3. CASE BulletinCard(c)
    <2>1. pc'[c] # "tell"
      BY <1>3, Moved DEF BulletinCard
    <2>2. QED
      BY <1>1, <2>1 DEF Telling
  <1>4. CASE Audience(c)
    <2>1. saw'[c] = [todo |-> {u \in DOMAIN members : /\ sent[c].public => ~members[u].gone
                                                      /\ sent[c].public \/ <<Org(c), u>> \in follows}]
      BY <1>4, Moved DEF Audience
    <2>2. "todo" \in DOMAIN saw'[c] /\ saw'[c].todo \subseteq DOMAIN members
      BY <2>1
    <2>3. QED
      BY <1>1, <2>2 DEF Telling, PeopleInv, Growth
  <1>5. QED
    BY <1>2, <1>3, <1>4

LEMMA LetterOffice ==
  ASSUME RequestInv, OfficeInv, Growth, MoreSites, UNCHANGED sent, NEW c \in Come,
         LetterSend(c) \/ LetterDelete(c) \/ LetterList(c) \/ BulletinEdit(c)
  PROVE  Addressed' /\ UNCHANGED <<halls, hires, cases, tithis, chosen, heard>>
  <1>1. UNCHANGED <<halls, hires, cases, tithis, chosen, heard>>
    BY DEF LetterSend, LetterDelete, LetterList, BulletinEdit, Show, officeVars, hallVars, bulletinVars, tithiVars
  <1>2. CASE LetterSend(c)
    <2> DEFINE row == [from |-> Org(c), to |-> sent[c].to]
    <2>1. pc'[c] = "done" => sent[c].to \in DOMAIN sites \union {None}
      BY <1>2, Moved DEF LetterSend, SitePermit
    <2>2. letters' = letters \/ (pc'[c] = "done" /\ letters' = Put(letters, c, row))
      BY <1>2 DEF LetterSend
    <2>3. row.to = sent[c].to
      OBVIOUS
    <2> HIDE DEF row
    <2>4. Addressed'
      BY <2>1, <2>2, <2>3 DEF OfficeInv, Filed, Addressed, MoreSites, Put
    <2>5. QED
      BY <1>1, <2>4
  <1>3. CASE LetterDelete(c)
    <2>1. letters' = letters \/ letters' = [x \in DOMAIN letters \ {sent[c].letter} |-> letters[x]]
      BY <1>3 DEF LetterDelete
    <2>2. QED
      BY <1>1, <2>1 DEF OfficeInv, Filed, Addressed, MoreSites
  <1>4. CASE LetterList(c) \/ BulletinEdit(c)
    <2>1. UNCHANGED letters
      BY <1>4 DEF LetterList, BulletinEdit, Show, officeVars, bulletinVars
    <2>2. QED
      BY <1>1, <2>1 DEF OfficeInv, Filed, Addressed, MoreSites
  <1>5. QED
    BY <1>2, <1>3, <1>4

\* Entries of a calendar that there is; the calendar one chooses is one.
LEMMA TithiOffice ==
  ASSUME RequestInv, OfficeInv, UNCHANGED sent, NEW c \in Come,
         \/ Op(c) = "tithi" /\ (TithiEnters(c) \/ TithiEntry(c))
         \/ Op(c) = "calendar" /\ Choose(c)
  PROVE  Dated' /\ Selected' /\ Dating(c)' /\ UNCHANGED <<halls, hires, cases, letters, heard>>
  <1>1. UNCHANGED <<halls, hires, cases, letters, heard>>
    BY DEF TithiEnters, TithiEntry, Choose, officeVars, hallVars, bulletinVars
  <1>2. Op(c)' = Op(c)
    BY SentStays
  <1>3. CASE Op(c) = "tithi" /\ TithiEnters(c)
    <2>1. UNCHANGED <<tithis, chosen>>
      BY <1>3 DEF TithiEnters, officeVars, tithiVars
    <2>2. pc'[c] = "entry" => sent[c].calendar \in Calendars
      BY <1>3, Moved DEF TithiEnters, ByRoot
    <2>3. Dating(c)'
      BY <2>2 DEF Dating
    <2>4. QED
      BY <1>1, <2>1, <2>3 DEF OfficeInv, Filed, Dated, Selected
  <1>4. CASE Op(c) = "tithi" /\ TithiEntry(c)
    <2>1. UNCHANGED chosen /\ pc[c] = "entry"
      BY <1>4 DEF TithiEntry
    <2>2. sent[c].calendar \in Calendars
      BY <1>4, <2>1 DEF OfficeInv, Calling, Dating
    <2>3. Dating(c)'
      BY <2>2 DEF Dating
    <2>4. CASE UNCHANGED tithis
      BY <1>1, <2>1, <2>3, <2>4 DEF OfficeInv, Filed, Dated, Selected
    <2>5. CASE \E d : tithis' = Put(tithis, <<sent[c].calendar, d>>, c)
      <3>1. PICK d : tithis' = Put(tithis, <<sent[c].calendar, d>>, c)
        BY <2>5
      <3>2. DOMAIN tithis' = DOMAIN tithis \union {<<sent[c].calendar, d>>}
        BY <3>1 DEF Put
      <3>3. QED
        BY <1>1, <2>1, <2>2, <2>3, <3>2 DEF OfficeInv, Filed, Dated, Selected
    <2>6. QED
      BY <1>4, <2>4, <2>5 DEF TithiEntry
  <1>5. CASE Op(c) = "calendar" /\ Choose(c)
    <2>1. UNCHANGED tithis
      BY <1>5 DEF Choose
    <2>2. UNCHANGED chosen \/ (sent[c].calendar \in Calendars /\ chosen' = Put(chosen, By(c), sent[c].calendar))
      BY <1>5 DEF Choose
    <2>3. Selected'
      BY <2>2 DEF OfficeInv, Filed, Selected, Put
    <2>4. Dating(c)'
      BY <1>2, <1>5 DEF Dating
    <2>5. QED
      BY <1>1, <2>1, <2>3, <2>4 DEF OfficeInv, Filed, Dated
  <1>6. QED
    BY <1>3, <1>4, <1>5

\* In the morning the members and managers of a calendar are told.
LEMMA DailyOffice ==
  ASSUME RequestInv, PeopleInv, RollsInv, OfficeInv, Growth, UNCHANGED sent, NEW c \in Come, DailyRead(c)
  PROVE  UNCHANGED <<halls, hires, cases, letters, tithis, chosen, heard>> /\ Telling(c)'
  <1>1. UNCHANGED <<halls, hires, cases, letters, tithis, chosen, heard>>
    BY DEF DailyRead, officeVars, hallVars, bulletinVars, tithiVars
  <1>2. CASE Move(c, "start", "types")
    <2>1. pc'[c] # "tell"
      BY <1>2, Moved
    <2>2. QED
      BY <1>1, <2>1 DEF Telling
  <1>3. CASE Goto(c, "done")
    <2>1. pc'[c] # "tell"
      BY <1>3, Moved
    <2>2. QED
      BY <1>1, <2>1 DEF Telling
  <1>4. ASSUME NEW t, NEW rest, Keep(c, [types |-> rest, todo |-> Devout(t)])
        PROVE  Telling(c)'
    <2>1. saw'[c] = [types |-> rest, todo |-> Devout(t)]
      BY <1>4, Moved
    <2>2. Devout(t) \subseteq DOMAIN users
      BY DEF Devout, PeopleInv, RollsInv, Admitted
    <2>3. "todo" \in DOMAIN saw'[c] /\ saw'[c].todo \subseteq DOMAIN users
      BY <2>1, <2>2
    <2>4. QED
      BY <2>3 DEF Telling, Growth
  <1>5. QED
    BY <1>1, <1>2, <1>3, <1>4 DEF DailyRead

LEMMA OfficeOffice ==
  ASSUME RequestInv, PeopleInv, RollsInv, OfficeInv, Growth, MoreSites, UNCHANGED sent, NEW c \in Come,
         OfficeStep(c)
  PROVE  Filed' /\ Calling(c)'
  <1>1. Op(c)' = Op(c)
    BY SentStays
  <1>2. /\ UNCHANGED <<halls, hires>> => Hired'
        /\ UNCHANGED cases => Opened'
        /\ UNCHANGED letters => Addressed'
        /\ UNCHANGED tithis => Dated'
        /\ UNCHANGED chosen => Selected'
        /\ UNCHANGED heard => Heard'
    BY OfficeStays DEF OfficeInv
  <1>3. /\ Op(c) \notin {"hall", "hallBook"} => Hiring(c)'
        /\ Op(c) # "case" => Raising(c)'
        /\ Op(c) # "tithi" => Dating(c)'
        /\ Op(c) \notin {"decideCase", "announce", "daily"} => Telling(c)'
    BY <1>1 DEF Hiring, Raising, Dating, Telling
  <1>4. CASE Op(c) \in {"hall", "hallEdit", "hallDelete", "hallBook", "hallStatus", "halls", "myHires", "hallHires"}
    <2>1. Hired' /\ UNCHANGED <<cases, letters, tithis, chosen, heard>> /\ Hiring(c)'
      BY <1>4, HallOffice DEF OfficeStep
    <2>2. QED
      BY <1>2, <1>3, <1>4, <2>1 DEF Filed, Calling
  <1>5. CASE Op(c) = "case"
    <2>1. Opened' /\ UNCHANGED <<halls, hires, letters, tithis, chosen, heard>> /\ Raising(c)'
      BY <1>5, CaseOffice DEF OfficeStep
    <2>2. QED
      BY <1>2, <1>3, <1>5, <2>1 DEF Filed, Calling
  <1>6. CASE Op(c) \in {"tithi", "calendar"}
    <2>1. Dated' /\ Selected' /\ Dating(c)' /\ UNCHANGED <<halls, hires, cases, letters, heard>>
      BY <1>6, TithiOffice DEF OfficeStep
    <2>2. QED
      BY <1>2, <1>3, <1>6, <2>1 DEF Filed, Calling
  <1>7. CASE Op(c) \in {"decideCase", "announce", "daily"}
    <2>1. CASE Tell(c, "done") \/ Tell(c, "types")
      <3>1. Heard' /\ UNCHANGED <<halls, hires, cases, letters, tithis, chosen>> /\ Telling(c)'
        BY <1>7, <2>1, TellOffice
      <3>2. QED
        BY <1>2, <1>3, <1>7, <3>1 DEF Filed, Calling
    <2>2. CASE DecideEnters(c) \/ DecideWrite(c)
      <3>1. Opened' /\ UNCHANGED <<halls, hires, letters, tithis, chosen, heard>> /\ Telling(c)'
        BY <2>2, DecideOffice
      <3>2. QED
        BY <1>2, <1>3, <1>7, <3>1 DEF Filed, Calling
    <2>3. CASE BulletinCreate(c) \/ BulletinCard(c) \/ Audience(c) \/ DailyRead(c)
      <3>1. UNCHANGED <<halls, hires, cases, letters, tithis, chosen, heard>> /\ Telling(c)'
        BY <2>3, AnnounceOffice, DailyOffice
      <3>2. QED
        BY <1>2, <1>3, <1>7, <3>1 DEF Filed, Calling
    <2>4. QED
      BY <1>7, <2>1, <2>2, <2>3 DEF OfficeStep
  <1>8. CASE Op(c) \in {"letter", "letterDelete", "letters", "reannounce", "unannounce"}
    <2>1. Addressed' /\ UNCHANGED <<halls, hires, cases, tithis, chosen, heard>>
      BY <1>8, LetterOffice DEF OfficeStep
    <2>2. QED
      BY <1>2, <1>3, <1>8, <2>1 DEF Filed, Calling
  <1>9. CASE \/ CaseList(c) \/ ShelfPut(c) \/ ShelfWrite(c) \/ ShelfList(c)
             \/ AdCreate(c) \/ AdRead(c) \/ AdWrite(c) \/ AdClick(c)
    <2>1. UNCHANGED <<halls, hires, cases, letters, tithis, chosen, heard>>
      BY <1>9 DEF CaseList, ShelfPut, ShelfWrite, ShelfList, AdCreate, AdRead, AdWrite, AdClick, Show,
                  officeVars, hallVars, bulletinVars, tithiVars
    <2>2. Filed'
      BY <1>2, <2>1 DEF Filed
    <2>3. CASE Op(c) \in {"cases", "put", "shelfEdit", "shelfDelete", "shelf", "ad", "adEdit", "click"}
      BY <2>2, <2>3, CallingNothing
    <2>4. QED
      BY <1>4, <1>5, <1>6, <1>7, <1>8, <2>2, <2>3 DEF OfficeStep
  <1>10. QED
    BY <1>4, <1>5, <1>6, <1>7, <1>8, <1>9 DEF OfficeStep

LEMMA OfficeStepInv ==
  ASSUME RequestInv, PeopleInv, RollsInv, OfficeInv, Growth, MoreSites, [Next]_vars
  PROVE  OfficeInv'
  <1>1. ASSUME NEW c \in Come, Goes(c), Filed', Calling(c)'
        PROVE  OfficeInv'
    <2>1. /\ Come' = Come /\ UNCHANGED sent
          /\ \A d \in Come \ {c} : pc'[d] = pc[d] /\ saw'[d] = saw[d]
      BY <1>1, RequestsGo DEF Goes
    <2>2. \A d \in Come \ {c} : Calling(d)'
      BY <2>1, CallingStays DEF OfficeInv
    <2>3. QED
      BY <1>1, <2>1, <2>2 DEF OfficeInv
  <1>2. UNCHANGED officeVars => Filed'
    <2>1. UNCHANGED officeVars => UNCHANGED <<halls, hires, cases, letters, tithis, chosen, heard>>
      BY DEF officeVars, hallVars, bulletinVars, tithiVars
    <2>2. QED
      BY <2>1, OfficeStays DEF OfficeInv, Filed
  <1>3. ASSUME NEW c \in Come, Goes(c), Turn(c)
        PROVE  OfficeInv'
    <2>1. UNCHANGED sent
      BY <1>3 DEF Goes
    <2>2. CASE OfficeStep(c)
      BY <1>1, <1>3, <2>1, <2>2, OfficeOffice
    <2>3. CASE ~OfficeStep(c)
      <3>1. UNCHANGED officeVars
        BY <1>3, <2>3 DEF Turn, Works
      <3>2. Op(c) \notin {"hall", "hallBook", "case", "tithi", "decideCase", "announce", "daily"}
        BY <1>3, <2>3 DEF Turn, Entry, AccountStep, AdminStep, AdminOps, MemberStep, StaffStep,
                          SiteStep, MonkStep, WatchStep, ViharStep
      <3>3. Calling(c)'
        BY <2>1, <3>2, CallingNothing
      <3>4. QED
        BY <1>1, <1>2, <1>3, <3>1, <3>3
    <2>4. QED
      BY <2>2, <2>3
  <1>4. CASE (UNCHANGED request \/ \E c \in Come : Die(c)) /\ UNCHANGED officeVars
    <2>1. Come' = Come /\ UNCHANGED sent /\ \A d \in Come : saw'[d] = saw[d] /\ pc'[d] \in {pc[d], "dead"}
      BY <1>4, AllStay
    <2>2. \A d \in Come : Calling(d)'
      BY <2>1, CallingStays DEF OfficeInv
    <2>3. QED
      BY <1>2, <1>4, <2>1, <2>2 DEF OfficeInv
  <1>5. QED
    BY <1>3, <1>4, TurnsTaken

-----------------------------------------------------------------------------
(* The invariant *)

\* What the other parts hold.
PartsInv == TokenInv /\ CodeInv /\ WatchInv /\ EventsInv /\ SiteInv /\ MonkInv /\ OfficeInv
PlatformInv == RequestInv /\ FormsInv /\ SessionInv /\ PeopleInv /\ FoundInv /\ RollsInv /\ TravelInv /\ PartsInv

LEMMA InitRequests ==
  ASSUME NEW w \in Scenarios, RequestsInit(w)
  PROVE  RequestInv /\ Come = w.calls /\ \A c \in Come : pc[c] = "start" /\ sent[c] = Input[c]
  <1>1. w.calls \subseteq Calls
    BY RequestAssumption
  <1>2. Come = w.calls /\ \A c \in Come : pc[c] = "start" /\ sent[c] = Input[c]
    BY DEF RequestsInit, Come
  <1>3. sent = [c \in Come |-> Input[c]] /\ pc = [c \in Come |-> pc[c]] /\ saw = [c \in Come |-> saw[c]]
    BY DEF RequestsInit, Come
  <1>4. QED
    BY <1>1, <1>2, <1>3 DEF RequestInv

\* Nobody has found or holds anything at the start.
LEMMA InitRequestsHold ==
  ASSUME NEW w \in Scenarios, RequestsInit(w)
  PROVE  /\ FormsInv /\ FoundInv
         /\ \A c \in Come : /\ Alarming(c) /\ Reviewing(c) /\ Devoting(c) /\ Planning(c) /\ Calling(c)
                           /\ ~Recording(c) /\ pc[c] = "start"
  <1>1. Come = w.calls /\ \A c \in Come : pc[c] = "start" /\ sent[c] = Input[c]
    BY InitRequests
  <1>2. FormsInv
    <2>1. \A c \in w.calls : Input[c].op = "profile" => Input[c].u = Input[c].by
      BY MemberAssumption
    <2>2. \A c \in w.calls : Input[c].op = "createAdmin" => Input[c].actions \subseteq Grantable
      BY AdminAssumption
    <2>3. QED
      BY <1>1, <2>1, <2>2 DEF FormsInv, Op, U, By
  <1>3. ASSUME NEW c \in Come
        PROVE  FoundAccount(c) /\ FoundAdmin(c) /\ FoundMember(c) /\ FoundStaff(c)
    BY <1>1 DEF FoundAccount, FoundAdmin, FoundMember, FoundStub, FoundForm, FoundRelative, FoundStaff
  <1>4. ASSUME NEW c \in Come
        PROVE  Alarming(c) /\ Reviewing(c) /\ Devoting(c) /\ Planning(c) /\ Calling(c) /\ ~Recording(c)
    BY <1>1 DEF Alarming, Reviewing, Devoting, Planning, Calling, Hiring, Raising, Dating, Telling, Recording
  <1>5. QED
    BY <1>1, <1>2, <1>3, <1>4 DEF FoundInv

LEMMA InitPeople ==
  ASSUME NEW w \in Scenarios, AccountsInit(w), AdminsInit(w), MembersInit(w), StaffingInit(w)
  PROVE  PeopleInv /\ RollsInv /\ TokenInv /\ CodeInv
  <1>1. users = w.users /\ members = w.members /\ staff = w.staff /\ sessions = w.sessions /\ links = w.links
    BY DEF AccountsInit, AdminsInit, MembersInit
  <1>2. DOMAIN Account(None, None) = AccountFields /\ DOMAIN Profile(None, None, None, None) = ProfileFields
    BY DEF Account, Profile, AccountFields, ProfileFields
  <1>3. /\ users = [u \in DOMAIN users |-> users[u]]
        /\ \A u \in DOMAIN users : DOMAIN users[u] = AccountFields /\ users[u].fails \in Fails
    BY <1>1, <1>2, AccountAssumption DEF Fails
  <1>4. /\ members = [u \in DOMAIN members |-> members[u]]
        /\ \A u \in DOMAIN members : DOMAIN members[u] = ProfileFields /\ u \in DOMAIN users
    BY <1>1, <1>2, MemberAssumption
  <1>5. \A u \in DOMAIN members : Drawn(u)
    BY <1>1, MemberAssumption DEF Drawn
  <1>6. OwnIds
    <2>1. \A u, v \in DOMAIN w.members : u # v =>
              /\ w.members[u].pid # w.members[v].pid
              /\ w.members[u].aadhaar = None \/ w.members[u].aadhaar # w.members[v].aadhaar
      BY MemberAssumption
    <2>2. QED
      BY <1>1, <2>1 DEF OwnIds
  <1>7. ProfileMatchesAccount
    BY <1>1, MemberAssumption DEF ProfileMatchesAccount
  <1>8. PeopleInv
    BY <1>3, <1>4, <1>5, <1>6, <1>7 DEF PeopleInv
  <1>9. Admitted
    BY <1>1, AdminAssumption DEF AdminsInit, Admitted
  <1>10. Linked
    BY <1>1, MemberAssumption DEF Linked
  <1>11. Staffed /\ Attended
    BY <1>1, StaffingAssumption DEF StaffingInit, Staffed, Attended, IsStaff
  <1>12. TokenInv
    BY <1>1, AccountAssumption DEF TokenInv
  <1>13. CodeInv
    BY DEF AccountsInit, CodeInv, NoCode, CodeFields
  <1>14. QED
    BY <1>8, <1>9, <1>10, <1>11, <1>12, <1>13 DEF RollsInv

LEMMA InitParts ==
  ASSUME NEW w \in Scenarios, RequestsInit(w), AccountsInit(w), AdminsInit(w), MembersInit(w), StaffingInit(w),
         WatchInit(w), ViharInit(w), SitesInit(w), MonksInit(w), OfficeInit(w)
  PROVE  PartsInv
  <1>1. \A c \in Come : Alarming(c) /\ Reviewing(c) /\ Devoting(c) /\ Planning(c) /\ Calling(c)
    BY InitRequestsHold
  <1>2. TokenInv /\ CodeInv
    BY InitPeople
  <1>3. WatchInv
    <2>1. DeviceRows
      BY WatchAssumption DEF WatchInit, DeviceRows, DeviceFields
    <2>2. AlertRows
      BY DEF WatchInit, AlertRows
    <2>3. QED
      BY <1>1, <2>1, <2>2 DEF WatchInv
  <1>4. EventsInv
    BY DEF ViharInit, EventsInv
  <1>5. SiteInv
    <2>1. Housed
      BY SitesAssumption DEF SitesInit, Housed, WingFields, RoomFields
    <2>2. Reviewed /\ Offered
      BY DEF SitesInit, Reviewed, Offered
    <2>3. QED
      BY <1>1, <2>1, <2>2 DEF SiteInv
  <1>6. MonkInv
    <2>1. Profiled
      BY MonksAssumption DEF MonksInit, Profiled, NewMonk, MonkFields
    <2>2. Planned /\ Devoted
      BY DEF MonksInit, Planned, Devoted
    <2>3. QED
      BY <1>1, <2>1, <2>2 DEF MonkInv
  <1>7. OfficeInv
    <2>1. Selected
      BY OfficeAssumption DEF OfficeInit, Selected
    <2>2. Hired /\ Opened /\ Addressed /\ Dated /\ Heard
      BY DEF OfficeInit, Hired, Opened, Addressed, Dated, Heard
    <2>3. QED
      BY <1>1, <2>1, <2>2 DEF OfficeInv, Filed
  <1>8. QED
    BY <1>2, <1>3, <1>4, <1>5, <1>6, <1>7 DEF PartsInv

LEMMA InitPlatform == Init => PlatformInv
  <1> SUFFICES ASSUME Init PROVE PlatformInv
    OBVIOUS
  <1>1. PICK w \in Scenarios :
            /\ RequestsInit(w) /\ AccountsInit(w) /\ AdminsInit(w) /\ MembersInit(w) /\ StaffingInit(w)
            /\ WatchInit(w) /\ ViharInit(w) /\ SitesInit(w) /\ MonksInit(w) /\ OfficeInit(w)
    BY DEF Init
  <1>2. RequestInv /\ Come = w.calls /\ \A c \in Come : pc[c] = "start" /\ sent[c] = Input[c]
    BY <1>1, InitRequests
  <1>3. SessionInv
    <2>1. DOMAIN late = w.names \X w.devices /\ late = [k \in DOMAIN late |-> late[k]]
      BY <1>1 DEF AccountsInit
    <2>2. \A c \in Come : Op(c) \in {"refresh", "logout"} => Key(c) \in w.names \X w.devices
      BY <1>2, AccountAssumption DEF Op, Key, U
    <2>3. QED
      BY <1>2, <2>1, <2>2 DEF SessionInv
  <1>4. PeopleInv /\ RollsInv
    BY <1>1, InitPeople
  <1>5. TravelInv
    <2>1. routes = w.routes /\ journeys = <<>>
      BY <1>1 DEF ViharInit
    <2>2. DOMAIN journeys = {} /\ journeys = [j \in DOMAIN journeys |-> journeys[j]]
      BY <2>1
    <2>3. RoadsInv
      BY <2>1, <2>2, TrackingAssumption DEF RoadsInv
    <2>4. \A c \in Come : ~Recording(c)
      BY <1>2 DEF Recording
    <2>5. \A c \in Come : Fresh(c)
      BY <1>2, <2>1, <2>2, TrackingAssumption DEF Fresh, RequestInv
    <2>6. QED
      BY <2>2, <2>3, <2>4, <2>5 DEF TravelInv, Read
  <1>6. FormsInv /\ FoundInv
    BY <1>1, InitRequestsHold
  <1>7. PartsInv
    BY <1>1, InitParts
  <1>8. QED
    BY <1>2, <1>3, <1>4, <1>5, <1>6, <1>7 DEF PlatformInv

LEMMA RequestStepInv ==
  ASSUME RequestInv, [Next]_vars
  PROVE  RequestInv'
  <1>1. ASSUME NEW c \in Come, Goes(c)
        PROVE  RequestInv'
    BY <1>1, RequestsGo
  <1>2. ASSUME UNCHANGED request
        PROVE  RequestInv'
    BY <1>2 DEF request, RequestInv, Come
  <1>3. CASE CallStep
    <2>1. PICK c \in Busy : Entry(c) \/ AdminStep(c) \/ MemberStep(c) \/ StaffStep(c) \/ SiteStep(c)
                            \/ MonkStep(c) \/ OfficeStep(c) \/ WatchStep(c) \/ ViharStep(c)
      BY <1>3 DEF CallStep
    <2>2. Goes(c)
      BY <2>1, AccountGoes, AdminGoes, MemberGoes, StaffGoes, SiteGoes, MonkGoes, OfficeGoes, WatchGoes, ViharGoes
    <2>3. QED
      BY <1>1, <2>2 DEF Busy
  <1>4. CASE Elsewhere
    BY <1>1, <1>2, <1>4, DeathGoes DEF Elsewhere
  <1>5. CASE UNCHANGED vars
    BY <1>2, <1>5 DEF vars, request
  <1>6. QED
    BY <1>3, <1>4, <1>5 DEF Next

LEMMA PartsStepInv ==
  ASSUME PlatformInv, PeopleInv', RollsInv', Growth, [Next]_vars
  PROVE  PartsInv'
  <1>1. /\ RequestInv /\ PeopleInv /\ RollsInv /\ TravelInv
        /\ TokenInv /\ CodeInv /\ WatchInv /\ EventsInv /\ SiteInv /\ MonkInv /\ OfficeInv
    BY DEF PlatformInv, PartsInv
  <1>2. TokenInv' /\ CodeInv'
    BY <1>1, TokenStepInv, CodeStepInv
  <1>3. WatchInv' /\ EventsInv'
    BY <1>1, WatchStepInv, EventsStepInv
  <1>4. SiteInv' /\ MoreSites
    BY <1>1, SiteStepInv
  <1>5. MonkInv' /\ OfficeInv'
    BY <1>1, <1>4, MonkStepInv, OfficeStepInv
  <1>6. QED
    BY <1>2, <1>3, <1>4, <1>5 DEF PartsInv

\* The inductive invariant that the theorems below rest on: requests go on one
\* at a time, and what one has found no other undoes; a refresh under way has a
\* live session or was overtaken by a logout; accounts, profiles and staff agree;
\* what an event of a journey has read is still so on a route whose events come
\* one by one; every row of every part has its columns and what it refers to.
THEOREM PlatformInvariant == Spec => []PlatformInv
  <1>1. ASSUME PlatformInv, [Next]_vars
        PROVE  PlatformInv'
    <2>1. RequestInv /\ FormsInv /\ SessionInv /\ PeopleInv /\ FoundInv /\ RollsInv /\ TravelInv
      BY <1>1 DEF PlatformInv
    <2>2. RequestInv' /\ FormsInv' /\ SessionInv' /\ TravelInv'
      BY <1>1, <2>1, RequestStepInv, FormsStay, SessionStepInv, TravelStepInv
    <2>3. PeopleInv' /\ Growth
      BY <1>1, <2>1, PeopleStepInv
    <2>4. FoundInv' /\ RollsInv'
      BY <1>1, <2>1, <2>3, FoundStepInv, RollsStepInv
    <2>5. PartsInv'
      BY <1>1, <2>3, <2>4, PartsStepInv
    <2>6. QED
      BY <2>2, <2>3, <2>4, <2>5 DEF PlatformInv
  <1>2. QED
    BY <1>1, InitPlatform, PTL DEF Spec

THEOREM LoggedOut == Spec => LoggedOutStaysOut
  <1>1. PlatformInv /\ [Next]_vars => [StaysOut]_accountVars
    BY SessionStepInv DEF PlatformInv
  <1>2. QED
    BY <1>1, PlatformInvariant, PTL DEF Spec, LoggedOutStaysOut, StaysOut

\* members.service.ts:127-249, staff.service.ts:107: an account that carries a
\* public id has the profile of that id, whatever registrations, stubs, imports
\* and hires race for it and whichever of them dies.
THEOREM ProfilesMatch == Spec => []ProfileMatchesAccount
  BY PlatformInvariant, PTL DEF PlatformInv, PeopleInv

\* tracking.service.ts:197-209: the stops behind a journey are completed, also
\* when the process dies between the two writes of an arrival.
THEOREM StopsArePassed == Spec => []PassedStopsAreCompleted
  <1>1. PlatformInv => PassedStopsAreCompleted
    BY DEF PlatformInv, TravelInv, Passed, PassedStopsAreCompleted
  <1>2. QED
    BY <1>1, PlatformInvariant, PTL

LEMMA InvariantTypes ==
  ASSUME PlatformInv
  PROVE  PlatformTypeOK
  <1>1. /\ PeopleInv /\ RollsInv /\ TravelInv /\ TokenInv /\ CodeInv /\ WatchInv /\ EventsInv
        /\ SiteInv /\ MonkInv /\ OfficeInv
    BY DEF PlatformInv, PartsInv
  <1>2. AccountTypeOK
    BY <1>1 DEF AccountTypeOK, PeopleInv, Fails, CodeInv, TokenInv
  <1>3. MemberTypeOK
    <2>1. DOMAIN members \subseteq DOMAIN users
      BY <1>1 DEF PeopleInv
    <2>2. \A u, v \in DOMAIN members : u # v =>
              /\ members[u].pid # members[v].pid
              /\ members[u].aadhaar = None \/ members[u].aadhaar # members[v].aadhaar
      BY <1>1 DEF PeopleInv, OwnIds
    <2>3. QED
      BY <1>1, <2>1, <2>2 DEF MemberTypeOK, RollsInv, Linked
  <1>4. StaffTypeOK
    BY <1>1 DEF StaffTypeOK, RollsInv, Staffed, Attended
  <1>5. AdminTypeOK
    BY <1>1 DEF AdminTypeOK, RollsInv, Admitted, Staffed, PeopleInv
  <1>6. WatchTypeOK
    BY <1>1 DEF WatchTypeOK, WatchInv, DeviceRows, AlertRows, Raised, AlertTypes
  <1>7. ViharTypeOK
    <2>1. \A r \in DOMAIN routes : \A i \in DOMAIN routes[r].stops : routes[r].stops[i] \in StopMarks
      <3> SUFFICES ASSUME NEW r \in DOMAIN routes, NEW i \in DOMAIN routes[r].stops
                   PROVE  routes[r].stops[i] \in StopMarks
        OBVIOUS
      <3>1. routes[r].stops \in Seq(StopMarks)
        BY <1>1 DEF TravelInv, RoadsInv
      <3>2. QED
        BY <3>1
    <2>2. \A j \in DOMAIN journeys : journeys[j].route \in DOMAIN routes /\ journeys[j].at > 0
      BY <1>1 DEF TravelInv, RoadsInv, RouteOf
    <2>3. QED
      BY <1>1, <2>1, <2>2 DEF ViharTypeOK, EventsInv
  <1>8. SiteTypeOK
    BY <1>1 DEF SiteTypeOK, SiteInv, Housed, Reviewed, Offered
  <1>9. MonkTypeOK
    BY <1>1 DEF MonkTypeOK, MonkInv, Profiled, Planned, Devoted
  <1>10. OfficeTypeOK
    BY <1>1 DEF OfficeTypeOK, OfficeInv, Filed, Hired, Addressed, Dated, Selected, Heard
  <1>11. QED
    BY <1>2, <1>3, <1>4, <1>5, <1>6, <1>7, <1>8, <1>9, <1>10 DEF PlatformTypeOK

\* The rows of every part refer to what is there, and to what may be: failed
\* passwords below the lock, ids and Aadhaar numbers of one's own, one number to
\* each of the staff, no action granted that cannot be, alerts of devices that
\* are registered, reviews by members of sites that are there, bookings of halls
\* that were not deleted - whichever requests race, and whichever of them dies.
THEOREM PlatformTyped == Spec => []PlatformTypeOK
  BY PlatformInvariant, InvariantTypes, PTL
=============================================================================
