------------------------------ MODULE Staffing ------------------------------
(***************************************************************************)
(* The staff of an organization, src/src/modules/staff: a staff profile    *)
(* over a member (an existing one, or one made for it), the actions it is  *)
(* granted, attendance, leaves and documents. Rows are named by the call   *)
(* that makes them.                                                        *)
(***************************************************************************)
EXTENDS Members

VARIABLES shifts,    \* attendance rows: whose, open, by hand
          leaves,    \* leave -> status
          papers,    \* documents: whose, kind, current
          reminded   \* who the daily sweep told of an open attendance

staffVars == <<shifts, leaves, papers, reminded>>
StaffingInit(w) == shifts = w.shifts /\ leaves = <<>> /\ papers = {} /\ reminded = {}
restOfStaff == <<restOfAccounts, overrides, links, invited>>

\* At the start the staff are members, each with a number of his own, and an
\* attendance row is one of the staff's.
ASSUME StaffingAssumption ==
    \A w \in Scenarios :
        /\ DOMAIN w.staff \subseteq DOMAIN w.members
        /\ \A s \in DOMAIN w.staff : DOMAIN w.staff[s] = {"n", "org", "grants"}
        /\ \A s, t \in DOMAIN w.staff : s # t => w.staff[s].n # w.staff[t].n
        /\ \A s \in w.shifts : DOMAIN s = {"u", "row", "open"} /\ s.u \in DOMAIN w.staff

IsStaff(u) == u \in DOMAIN staff
ModulesOf(grants) == {g[1] : g \in grants}
\* assertGrantWithinActorPermissions: nobody grants an action he has not.
Within(c, org) ==
    Super(c) \/ \A g \in sent[c].grants : TRUE \in Verdicts(By(c), org, g[1], g[2])

-----------------------------------------------------------------------------
(* createStaff: the member first, when it is new; then a number, one more    *)
(* than there are staff; then the profile, the account's role and number,    *)
(* the tenancy and the grants in one transaction. The number is unique.      *)

StaffCheck(c) ==
    /\ IF InTenant(c, sent[c].org) /\ Within(c, sent[c].org)
       THEN Permit(c, sent[c].org, "STAFF", "CREATE",
                IF sent[c].existing THEN (IF IsMember(U(c)) /\ ~IsStaff(U(c)) THEN "count" ELSE "refused")
                ELSE IF Known(c) THEN "refused" ELSE "create")
       ELSE Move(c, "start", "refused")
    /\ Forget /\ UNCHANGED <<accountVars, adminVars, memberVars, staffVars>>

StaffMember(c) ==
    /\ Move(c, "create", IF Known(c) THEN "failed" ELSE "count")
    /\ IF Known(c) THEN UNCHANGED <<users, members>>
       ELSE NewPair(U(c), WithPid("STAFF", "PENDING_OTP", <<c, U(c)>>),
                    Profile(<<c, U(c)>>, sent[c].category, "INACTIVE", TRUE))
    /\ Forget /\ UNCHANGED <<restOfStaff, tenants, staff, credited, staffVars>>

StaffNumber(c) ==
    /\ Move(c, "count", "hire")
    /\ Keep(c, [n |-> Cardinality(DOMAIN staff) + 1])
    /\ UNCHANGED <<accountVars, adminVars, memberVars, staffVars>>

StaffHire(c) ==
    LET free == ~IsStaff(U(c)) /\ \A s \in DOMAIN staff : staff[s].n # saw[c].n IN
    /\ Move(c, "hire", IF free THEN "tell" ELSE "failed")
    /\ IF free
       THEN /\ staff' = Put(staff, U(c), [n |-> saw[c].n, org |-> sent[c].org, grants |-> sent[c].grants])
            /\ users' = [users EXCEPT ![U(c)].role = "STAFF", ![U(c)].pid = <<"JFST", saw[c].n>>]
            /\ tenants' = tenants \union {<<U(c), sent[c].org>>}
       ELSE UNCHANGED <<staff, users, tenants>>
    /\ Forget /\ UNCHANGED <<restOfStaff, members, credited, staffVars>>

StaffTell(c) ==
    /\ Move(c, "tell", "done")
    /\ credited' = credited \union {U(c)}
    /\ Forget /\ UNCHANGED <<accountVars, overrides, tenants, staff, memberVars, staffVars>>

-----------------------------------------------------------------------------
(* updateStaffModulePermissions: in between, and when the second write does  *)
(* not come, the shared defaults of the role apply.                          *)

RegrantCheck(c) ==
    /\ Permit(c, None, "STAFF", "EDIT", IF IsStaff(U(c)) /\ Within(c, None) THEN "clear" ELSE "refused")
    /\ Forget /\ UNCHANGED <<accountVars, adminVars, memberVars, staffVars>>

RegrantClear(c) ==
    /\ Move(c, "clear", "grant")
    /\ staff' = [staff EXCEPT ![U(c)].grants = {}]
    /\ Forget /\ UNCHANGED <<accountVars, overrides, tenants, credited, memberVars, staffVars>>

RegrantWrite(c) ==
    LET there == staff[U(c)].grants
        fits == ModulesOf(there) \intersect ModulesOf(sent[c].grants) = {} IN
    /\ Move(c, "grant", IF fits THEN "done" ELSE "failed")
    /\ staff' = IF fits THEN [staff EXCEPT ![U(c)].grants = there \union sent[c].grants] ELSE staff
    /\ Forget /\ UNCHANGED <<accountVars, overrides, tenants, credited, memberVars, staffVars>>

-----------------------------------------------------------------------------
(* checkIn, checkOut (one's own, or by an administrator), saveManualAttendance*)

OpenShifts(u) == {s \in shifts : s.u = u /\ s.open}
ShiftRead(c) ==
    LET fits == IF Op(c) = "checkIn" THEN OpenShifts(U(c)) = {} ELSE OpenShifts(U(c)) # {}
        next == IF IsStaff(U(c)) /\ (fits \/ Op(c) = "manual") THEN "write" ELSE "refused" IN
    /\ IF U(c) = By(c) /\ Op(c) # "manual" THEN Authenticate(c, next)
       ELSE Permit(c, None, "STAFF", "EDIT", next)
    /\ \/ /\ Op(c) = "checkOut" /\ OpenShifts(U(c)) # {}
          /\ \E s \in OpenShifts(U(c)) : Keep(c, s)
       \/ (Op(c) # "checkOut" \/ OpenShifts(U(c)) = {}) /\ Forget
    /\ UNCHANGED <<accountVars, adminVars, memberVars, staffVars>>

\* By hand, the day's row is overwritten, or made; it is not closed.
ShiftWrite(c) ==
    LET new == [u |-> U(c), row |-> c, open |-> Op(c) = "checkIn"] IN
    /\ Move(c, "write", "done")
    /\ shifts' = IF Op(c) = "checkOut" THEN (shifts \ {saw[c]}) \union {[saw[c] EXCEPT !.open = FALSE]}
                 ELSE IF Op(c) = "manual" /\ \E s \in shifts : s.u = U(c) THEN shifts
                 ELSE shifts \union {new}
    /\ Forget /\ UNCHANGED <<accountVars, adminVars, memberVars, leaves, papers, reminded>>

(* applyLeave, decideLeave (any decision, at any time), uploadDocument *)

Leave(c) ==
    LET l == IF Op(c) = "leave" THEN c ELSE sent[c].leave
        ok == IF Op(c) = "leave" THEN IsStaff(By(c)) ELSE l \in DOMAIN leaves IN
    /\ IF Op(c) = "leave" THEN Authenticate(c, IF ok THEN "done" ELSE "refused")
       ELSE Permit(c, None, "STAFF", "APPROVE", IF ok THEN "done" ELSE "failed")
    /\ leaves' = IF pc'[c] = "done" THEN Put(leaves, l, IF Op(c) = "leave" THEN "PENDING" ELSE sent[c].status)
                 ELSE leaves
    /\ Forget /\ UNCHANGED <<accountVars, adminVars, memberVars, shifts, papers, reminded>>

PaperRead(c) ==
    LET old == {p \in papers : p.u = U(c) /\ p.kind = sent[c].kind /\ p.current} IN
    /\ Permit(c, None, "STAFF", "EDIT", IF IsStaff(U(c)) THEN "file" ELSE "failed")
    /\ \/ old = {} /\ Keep(c, [old |-> {}])
       \/ \E p \in old : Keep(c, [old |-> {p}])
    /\ UNCHANGED <<accountVars, adminVars, memberVars, staffVars>>

PaperWrite(c) ==
    /\ \/ /\ Move(c, "file", IF saw[c].old = {} THEN "done" ELSE "replace")
          /\ papers' = papers \union {[u |-> U(c), kind |-> sent[c].kind, row |-> c, current |-> TRUE]}
       \/ /\ Move(c, "replace", "done")
          /\ papers' = (papers \ saw[c].old) \union {[p EXCEPT !.current = FALSE] : p \in saw[c].old}
    /\ Forget /\ UNCHANGED <<accountVars, adminVars, memberVars, shifts, leaves, reminded>>

\* runStaffSweep, its second half: who has not checked out, and the administrators.
StaffSweep ==
    /\ \E s \in shifts : s.open /\ s.u \in DOMAIN staff /\
           reminded' = reminded \union {s.u} \union
               {u \in DOMAIN users : users[u].role \in Managers /\ <<u, staff[s.u].org>> \in tenants}
    /\ UNCHANGED <<accountVars, adminVars, memberVars, shifts, leaves, papers>>

StaffStep(c) ==
    \/ Op(c) = "staff" /\ (StaffCheck(c) \/ StaffMember(c) \/ StaffNumber(c) \/ StaffHire(c) \/ StaffTell(c))
    \/ Op(c) = "regrant" /\ (RegrantCheck(c) \/ RegrantClear(c) \/ RegrantWrite(c))
    \/ Op(c) \in {"checkIn", "checkOut", "manual"} /\ (ShiftRead(c) \/ ShiftWrite(c))
    \/ Op(c) \in {"leave", "decideLeave"} /\ Leave(c)
    \/ Op(c) = "paper" /\ (PaperRead(c) \/ PaperWrite(c))

StaffTypeOK ==
    /\ DOMAIN staff \subseteq DOMAIN members
    /\ \A s, t \in DOMAIN staff : s # t => staff[s].n # staff[t].n
    /\ \A s \in shifts : IsStaff(s.u)
=============================================================================
