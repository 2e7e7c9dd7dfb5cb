------------------------------ MODULE Accounts ------------------------------
(***************************************************************************)
(* Accounts, their sessions and what they may do: src/src/modules/auth     *)
(* (auth.service, otp.service, adminAccounts.service), engines/rbac and    *)
(* middlewares/auth. An account is named by its mobile or email; a code    *)
(* and a token by the call that made it. Of an administrator, the rows of  *)
(* one call for one module are one row here: the actions it allows, of     *)
(* those that can be granted.                                              *)
(***************************************************************************)
EXTENDS Requests

CONSTANTS None,                 \* no code, no token, no password
          MAX_TRIES,            \* env.OTP_MAX_ATTEMPTS
          LOCK_AT,              \* failed passwords until the account is locked: 5
          DEVICES, FAILURES,    \* SUSPICIOUS_DEVICE_THRESHOLD, .._FAILED_LOGIN_..
          Modules,              \* MODULES
          RoleGrants,           \* the role_permissions table: role -> {<<module, action>>}
          NewAdminModules       \* role -> the modules createAdminAccount grants by itself

VARIABLES users,      \* accounts: role, status, pid, pw, fails, locked
          codes,      \* codes[u]: code, wrong tries, cooldown still running
          sessions,   \* <<u, d>> -> the token whose hash is stored, revoked
          logins,     \* rows of login history that tell of a failure
          warned,     \* sign-ins the super admins were told of
          late,       \* history: refreshes under way when <<u, d>> was logged out
          overrides,  \* rows of UserPermissionOverride
          tenants,    \* UserOrganization: <<user, organization>>
          staff,      \* staff members: number, organization, granted actions
          credited    \* accounts whose credentials were sent

accountVars == <<users, codes, sessions, logins, warned, late>>

U(c) == sent[c].u
Key(c) == <<U(c), sent[c].d>>
Account(role, status) == [role |-> role, status |-> status, pid |-> None, pw |-> None,
                          fails |-> 0, locked |-> FALSE]
NoCode == [code |-> None, tries |-> 0, cooldown |-> FALSE]

AccountsInit(w) ==
    /\ users = w.users /\ sessions = w.sessions
    /\ codes = [u \in w.names |-> NoCode]
    /\ late = [k \in w.names \X w.devices |-> {}]
    /\ logins = {} /\ warned = {}

\* The accounts of the start have the columns of an account; a session of the
\* start is revoked when it has no token; the history is kept of every session
\* that a call may renew or end.
ASSUME AccountAssumption ==
    /\ LOCK_AT \in Nat \ {0} /\ None \notin Calls
    /\ \A w \in Scenarios :
        /\ w.users = [u \in DOMAIN w.users |-> w.users[u]]
        /\ \A u \in DOMAIN w.users : /\ DOMAIN w.users[u] = DOMAIN Account(None, None)
                                     /\ w.users[u].fails \in 0 .. LOCK_AT - 1
        /\ \A k \in DOMAIN w.sessions : w.sessions[k].revoked <=> w.sessions[k].token = None
        /\ \A c \in w.calls : Input[c].op \in {"refresh", "logout"} =>
               <<Input[c].u, Input[c].d>> \in w.names \X w.devices

Known(c) == U(c) \in DOMAIN users
Barred == {"INACTIVE", "SUSPENDED", "BLOCKED", "DELETED"}
SignInBarred == Barred \ {"INACTIVE"}
StatusIn(c, set) == users[U(c)].status \in set

\* requireAuth: a call of an account that is barred is refused, whatever its
\* token says; each call loads the account again.
Enters(c) == sent[c].by \in DOMAIN users /\ users[sent[c].by].status \notin Barred
Authenticate(c, next) == Move(c, "start", IF Enters(c) THEN next ELSE "refused")

-----------------------------------------------------------------------------
(* requestOtpForPurpose, requestOtp; requestEmailOtp *)

CodeRequest(c) ==
    /\ Move(c, "start", IF sent[c].purpose = "REGISTER" THEN "done"
                        ELSE IF ~Known(c) \/ codes[U(c)].cooldown THEN "refused" ELSE "send")
    /\ Forget /\ UNCHANGED accountVars

CodeSend(c) ==
    /\ Move(c, "send", "done")
    /\ codes' = [codes EXCEPT ![U(c)] = [code |-> c, tries |-> 0, cooldown |-> TRUE]]
    /\ Forget /\ UNCHANGED <<users, sessions, logins, warned, late>>

EmailCodeSend(c) ==
    /\ Move(c, "start", "done")
    /\ codes' = [codes EXCEPT ![U(c)].code = c]
    /\ Forget /\ UNCHANGED <<users, sessions, logins, warned, late>>

\* Redis forgets: the cooldown first, then the code.
CodeLapses == \E u \in DOMAIN codes :
    /\ codes' = [codes EXCEPT ![u] = IF @.cooldown THEN [@ EXCEPT !.cooldown = FALSE] ELSE NoCode]
    /\ codes[u].code # None
    /\ UNCHANGED <<users, sessions, logins, warned, late>>

-----------------------------------------------------------------------------
(* verifyOtp: the tries, the stored code, and what becomes of them. With the *)
(* provider's key set, the provider is asked first; it may say yes to the    *)
(* code it was given, and is not believed when it says no.                   *)

CodeTries(c) ==
    /\ Move(c, "start", IF codes[U(c)].tries >= MAX_TRIES THEN "refused" ELSE "code")
    /\ Forget /\ UNCHANGED accountVars

CodeRead(c) ==
    LET stored == codes[U(c)].code  given == sent[c].code IN
    /\ \/ Move(c, "code", IF stored = None THEN "refused"
                          ELSE IF stored = given THEN "burn" ELSE "miss")
       \/ given \in Come /\ pc[given] = "done" /\ Move(c, "code", "burn")
    /\ Forget /\ UNCHANGED accountVars

CodeMiss(c) ==
    /\ Move(c, "miss", "refused")
    /\ codes' = [codes EXCEPT ![U(c)].tries = @ + 1]
    /\ Forget /\ UNCHANGED <<users, sessions, logins, warned, late>>

EmailCodeRead(c) ==
    /\ Move(c, "start", IF codes[U(c)].code = sent[c].code THEN "burn" ELSE "refused")
    /\ Forget /\ UNCHANGED accountVars

CodeBurn(c) ==
    /\ Move(c, "burn", "user")
    /\ codes' = [codes EXCEPT ![U(c)] = [NoCode EXCEPT !.cooldown = codes[U(c)].cooldown]]
    /\ Forget /\ UNCHANGED <<users, sessions, logins, warned, late>>

CodeCheck(c) == CodeTries(c) \/ CodeRead(c) \/ CodeMiss(c) \/ CodeBurn(c)

-----------------------------------------------------------------------------
(* Who signs in: verifyOtpAndAuthenticate, verifyEmailOtp, loginWithGoogle   *)
(* (which create an account, and do not find one that is deleted),           *)
(* loginWithEmailPassword, loginWithPassword                                 *)

OtpUser(c) ==
    /\ Move(c, "user",
            IF sent[c].purpose = "REGISTER" THEN (IF Known(c) THEN "refused" ELSE "done")
            ELSE IF ~Known(c) \/ (Known(c) /\ StatusIn(c, Barred)) THEN "refused"
            ELSE IF sent[c].purpose = "RESET_PASSWORD" THEN "reset" ELSE "flag")
    /\ Forget /\ UNCHANGED accountVars

EmailUser(c) ==
    /\ Move(c, IF Op(c) = "google" THEN "start" ELSE "user",
            IF ~Known(c) \/ StatusIn(c, {"DELETED"}) THEN "signUp"
            ELSE IF Op(c) = "google" /\ StatusIn(c, SignInBarred) THEN "refused" ELSE "flag")
    /\ Forget /\ UNCHANGED accountVars

SignUp(c) ==
    /\ Move(c, "signUp", IF Known(c) THEN "failed" ELSE "flag")
    /\ users' = IF Known(c) THEN users ELSE Put(users, U(c), Account("MEMBER", "ACTIVE"))
    /\ Forget /\ UNCHANGED <<codes, sessions, logins, warned, late>>

PasswordUser(c) ==
    LET u == users[U(c)]
        unknown == ~Known(c) \/ (Known(c) /\ u.pw = None)
        barred == Known(c) /\ (StatusIn(c, SignInBarred) \/ (u.locked /\ Op(c) = "password"))
    IN
    /\ Move(c, "start",
            IF unknown THEN (IF Op(c) = "password" THEN "failure" ELSE "refused")
            ELSE IF barred THEN "refused"
            ELSE IF u.pw = sent[c].pw THEN "flag"
            ELSE IF Op(c) = "password" THEN "wrong" ELSE "refused")
    /\ Keep(c, IF Known(c) THEN u ELSE <<>>)
    /\ UNCHANGED accountVars

\* The counter is written back by what was read before the comparison.
WrongPassword(c) ==
    /\ Move(c, "wrong", "failure")
    /\ LET n == saw[c].fails + 1 IN
       users' = [users EXCEPT ![U(c)].fails = IF n >= LOCK_AT THEN 0 ELSE n,
                              ![U(c)].locked = n >= LOCK_AT]
    /\ Forget /\ UNCHANGED <<codes, sessions, logins, warned, late>>

LogFailure(c) ==
    /\ Move(c, "failure", "refused")
    /\ logins' = logins \union {<<U(c), c>>}
    /\ Forget /\ UNCHANGED <<users, codes, sessions, warned, late>>

LockLapses == \E u \in DOMAIN users :
    /\ users[u].locked
    /\ users' = [users EXCEPT ![u].locked = FALSE]
    /\ UNCHANGED <<codes, sessions, logins, warned, late>>

-----------------------------------------------------------------------------
(* flagSuspiciousIfNeeded, issueTokensForUser, the last writes *)

Suspicious(u) == \/ Cardinality({k \in DOMAIN sessions : k[1] = u}) > DEVICES
                 \/ Cardinality({l \in logins : l[1] = u}) >= FAILURES

FlagSuspicious(c) ==
    /\ Move(c, "flag", "issue")
    /\ warned' = IF Suspicious(U(c)) THEN warned \union {c} ELSE warned
    /\ Forget /\ UNCHANGED <<users, codes, sessions, logins, late>>

IssueTokens(c) ==
    /\ Move(c, "issue", IF Op(c) \in {"refresh", "register"} THEN "done" ELSE "log")
    /\ sessions' = Put(sessions, Key(c), [token |-> c, revoked |-> FALSE])
    /\ Forget /\ UNCHANGED <<users, codes, logins, warned, late>>

LastLogin(c) ==
    /\ Move(c, "log", "done")
    /\ users' = IF Op(c) # "password" THEN users
                ELSE [users EXCEPT ![U(c)].fails = 0, ![U(c)].locked = FALSE]
    /\ Forget /\ UNCHANGED <<codes, sessions, logins, warned, late>>

SignIn(c) == FlagSuspicious(c) \/ IssueTokens(c) \/ LastLogin(c)

-----------------------------------------------------------------------------
(* refreshTokens, logout, setPassword, changePassword, forgotPasswordReset.  *)
(* A client presents a token it was given.                                   *)

Given(c) == sent[c].token \in Come => pc[sent[c].token] = "done"
Live(k) == k \in DOMAIN sessions /\ ~sessions[k].revoked

\* Mutation: a token whose signature is right is enough.
RefreshBySignature(c) ==
    /\ Given(c)
    /\ Move(c, "start", IF Key(c) \in DOMAIN sessions THEN "issue" ELSE "refused")
    /\ Forget /\ UNCHANGED accountVars

\* The comparison with the stored hash adds nothing: bcrypt reads 72 bytes, and
\* those hold the token's header and its subject, the same in each of a user's.
RefreshRead(c) ==
    /\ Given(c)
    /\ Move(c, "start", IF Live(Key(c)) THEN "issue" ELSE "refused")
    /\ Forget /\ UNCHANGED accountVars

Logout(c) ==
    /\ Move(c, "go", "done")
    /\ sessions' = IF Key(c) \in DOMAIN sessions
                   THEN [sessions EXCEPT ![Key(c)] = [token |-> None, revoked |-> TRUE]]
                   ELSE sessions
    /\ late' = [late EXCEPT ![Key(c)] =
           {r \in Open : Op(r) = "refresh" /\ Key(r) = Key(c)}]
    /\ Forget /\ UNCHANGED <<users, codes, logins, warned>>

PasswordChange(c) ==
    /\ Move(c, "go", IF users[U(c)].pw # None /\ users[U(c)].pw = sent[c].old
                     THEN "reset" ELSE "refused")
    /\ Forget /\ UNCHANGED accountVars

PasswordWrite(c) ==
    /\ Move(c, IF Op(c) = "setPassword" THEN "go" ELSE "reset", "done")
    /\ users' = [users EXCEPT ![U(c)] = IF Op(c) = "otp"
           THEN [@ EXCEPT !.pw = sent[c].pw, !.fails = 0, !.locked = FALSE]
           ELSE [@ EXCEPT !.pw = sent[c].pw]]
    /\ Forget /\ UNCHANGED <<codes, sessions, logins, warned, late>>

\* requireAuth before a handler of an account's own.
AccountEnters(c) == Authenticate(c, "go") /\ Forget /\ UNCHANGED accountVars

AccountStep(c) ==
    \/ Op(c) = "code" /\ (CodeRequest(c) \/ CodeSend(c))
    \/ Op(c) = "emailCode" /\ EmailCodeSend(c)
    \/ Op(c) = "otp" /\ (CodeCheck(c) \/ OtpUser(c) \/ PasswordWrite(c) \/ SignIn(c))
    \/ /\ Op(c) = "emailOtp"
       /\ EmailCodeRead(c) \/ CodeBurn(c) \/ EmailUser(c) \/ SignUp(c) \/ SignIn(c)
    \/ Op(c) = "google" /\ (EmailUser(c) \/ SignUp(c) \/ SignIn(c))
    \/ /\ Op(c) \in {"password", "emailPassword"}
       /\ PasswordUser(c) \/ WrongPassword(c) \/ LogFailure(c) \/ SignIn(c)
    \/ Op(c) = "refresh" /\ (RefreshRead(c) \/ IssueTokens(c))
    \/ Op(c) = "logout" /\ (AccountEnters(c) \/ Logout(c))
    \/ Op(c) = "setPassword" /\ (AccountEnters(c) \/ PasswordWrite(c))
    \/ Op(c) = "changePassword" /\ (AccountEnters(c) \/ PasswordChange(c) \/ PasswordWrite(c))

-----------------------------------------------------------------------------
(* Properties *)

AccountTypeOK ==
    /\ \A u \in DOMAIN users : users[u].fails \in 0 .. LOCK_AT - 1
    /\ \A u \in DOMAIN codes : codes[u].tries \in Nat
    /\ \A k \in DOMAIN sessions : sessions[k].revoked <=> sessions[k].token = None

\* auth.service.ts:250-257, 270-275: a session that was logged out opens again
\* by a sign-in, or by a refresh that had read it before the logout; never by a
\* refresh that comes later, however many tokens the client has kept.
LoggedOutStaysOut ==
    [][\A k \in DOMAIN sessions : ~Live(k) /\ Live(k)' =>
          LET c == sessions'[k].token IN Op(c) = "refresh" => c \in late[k]]_accountVars

-----------------------------------------------------------------------------
(* Administrators *)

adminVars == <<overrides, tenants, staff, credited>>

AdminsInit(w) == /\ overrides = w.overrides /\ tenants = w.tenants
                 /\ staff = w.staff /\ credited = {}

Managers == {"ORG_ADMIN", "TEMPLE_ADMIN", "DHARAMSHALA_ADMIN", "JAIN_CENTER_ADMIN",
             "BHOJANSHALA_ADMIN"}
Delegates == {"STAFF", "SECURITY_GUARD", "EVENT_SCANNER"}
ADMIN_ROLES == Managers \union Delegates \union {"MONK_ADMIN"}
Grantable == {"VIEW", "CREATE", "EDIT", "APPROVE", "REJECT"}

By(c) == sent[c].by
Super(c) == users[By(c)].role = "SUPER_ADMIN"
Override(u, org, m, actions, c) ==
    [u |-> u, org |-> org, module |-> m, actions |-> actions, row |-> c]

-----------------------------------------------------------------------------
(* permission.service: loadEffectivePermissions, isActionAllowed. The rows of *)
(* two calls for one module are applied in the order the table gives them.    *)

Rows(u, org, m) == {r \in overrides : r.u = u /\ r.org = org /\ r.module = m}
Defaults(u) ==
    IF u \in DOMAIN staff /\ staff[u].grants # {} THEN staff[u].grants
    ELSE IF users[u].role \in DOMAIN RoleGrants THEN RoleGrants[users[u].role] ELSE {}

Verdicts(u, org, m, a) ==
    LET own == Rows(u, None, m)  local == Rows(u, org, m) IN
    IF users[u].role = "SUPER_ADMIN" THEN {TRUE}
    ELSE IF own # {} THEN {(a \in r.actions) : r \in own}
    ELSE IF org # None /\ local # {} THEN {(a \in r.actions) : r \in local}
    ELSE {(<<m, a>> \in Defaults(u))}

\* requirePermission: nobody but a super admin deletes.
Permit(c, org, m, a, next) ==
    \E ok \in IF Enters(c) /\ (a # "DELETE" \/ Super(c)) THEN Verdicts(By(c), org, m, a) ELSE {FALSE} :
        Move(c, "start", IF ok THEN next ELSE "refused")

\* requireRole, scopeToOrganization.
HasRole(c, roles) == Enters(c) /\ (Super(c) \/ users[By(c)].role \in roles)
InTenant(c, org) == Enters(c) /\ (Super(c) \/ <<By(c), org>> \in tenants)

\* listAssignedModules: what GET /me/modules shows.
Assigned(u) ==
    LET revoked == {m \in Modules : \E r \in Rows(u, None, m) : r.actions = {}} IN
    IF users[u].role = "SUPER_ADMIN" THEN {"*"}
    ELSE ({d[1] : d \in Defaults(u)} \union {r.module : r \in {x \in overrides : x.u = u /\ x.actions # {}}})
         \ revoked

MyModules(c) ==
    /\ Authenticate(c, "done")
    /\ Keep(c, IF Enters(c) THEN [modules |-> Assigned(By(c))] ELSE <<>>)
    /\ UNCHANGED <<accountVars, adminVars>>

-----------------------------------------------------------------------------
(* createAdminAccount: the account and its organizations in one transaction, *)
(* its grants after it, the credentials last. A repetition is a conflict.    *)

CreateAdminCheck(c) ==
    /\ Move(c, "start",
            IF /\ HasRole(c, Managers) /\ sent[c].role \in ADMIN_ROLES
               /\ (Super(c) \/ sent[c].role \in Delegates) /\ ~Known(c)
            THEN "create" ELSE "refused")
    /\ Forget /\ UNCHANGED <<accountVars, adminVars>>

CreateAdminWrite(c) ==
    /\ Move(c, "create", IF Known(c) THEN "failed"
                         ELSE IF sent[c].scoped THEN "scope" ELSE "check")
    /\ ~Known(c) =>
           /\ users' = Put(users, U(c), Account(sent[c].role, "ACTIVE"))
           /\ tenants' = tenants \union {<<U(c), sent[c].org>>}
    /\ Known(c) => UNCHANGED <<users, tenants>>
    /\ Forget /\ UNCHANGED <<codes, sessions, logins, warned, late, overrides, staff, credited>>

\* The modules a call grants: those it names, or those of a new account.
Asked(c) == IF Op(c) = "createAdmin" /\ sent[c].default THEN NewAdminModules[sent[c].role]
            ELSE sent[c].modules

\* setOrgScopedAdminModuleGrants, of one organization.
ScopeGrants(c) ==
    /\ Move(c, "scope", "tell")
    /\ overrides' = {r \in overrides : ~(r.u = U(c) /\ r.org = sent[c].org /\ r.module \in Asked(c))}
           \union {Override(U(c), sent[c].org, m, sent[c].actions, c) : m \in Asked(c)}
    /\ Forget /\ UNCHANGED <<accountVars, tenants, staff, credited>>

\* setAdminModuleGrants: nobody grants a module he cannot view by an override.
Holds(u) == {r.module : r \in {x \in overrides : x.u = u /\ "VIEW" \in x.actions}}

GrantCheck(c) ==
    /\ Move(c, "check",
            IF Known(c) /\ users[U(c)].role \in ADMIN_ROLES /\ (Super(c) \/ Asked(c) \subseteq Holds(By(c)))
            THEN "drop" ELSE "refused")
    /\ Forget /\ UNCHANGED <<accountVars, adminVars>>

\* The transaction deletes the rows it sees, and replaces those when it commits.
GrantDrop(c) ==
    /\ Move(c, "drop", "grant")
    /\ Keep(c, [rows |-> {r \in overrides : r.u = U(c) /\ r.org = None}])
    /\ UNCHANGED <<accountVars, adminVars>>

GrantWrite(c) ==
    /\ Move(c, "grant", IF Op(c) = "createAdmin" THEN "tell" ELSE "done")
    /\ overrides' = (overrides \ saw[c].rows) \union
           {Override(U(c), None, m, IF m \in Asked(c) THEN Grantable ELSE {}, c) :
                m \in Modules \union Asked(c)}
    /\ Forget /\ UNCHANGED <<accountVars, tenants, staff, credited>>

Credentials(c) ==
    /\ Move(c, "tell", "done")
    /\ credited' = credited \union {U(c)}
    /\ Forget /\ UNCHANGED <<accountVars, overrides, tenants, staff>>

-----------------------------------------------------------------------------
(* The other operations on an administrator's account *)

AdminEnters(c) ==
    /\ Move(c, "start",
            IF Op(c) = "adminModules" THEN (IF HasRole(c, Managers) THEN "check" ELSE "refused")
            ELSE IF HasRole(c, {}) THEN "read" ELSE "refused")
    /\ Forget /\ UNCHANGED <<accountVars, adminVars>>

\* setAdminActiveStatus, updateAdminAccount (a new password; a new mobile stays
\* the same account), assignAdminToOrganizations read the account first.
AdminRead(c) ==
    LET u == U(c) IN
    /\ Move(c, "read",
            IF \/ ~Known(c) \/ (Known(c) /\ users[u].role \notin ADMIN_ROLES)
               \/ Op(c) = "adminStatus" /\ (u = By(c) \/ users[u].status \in SignInBarred)
            THEN "refused" ELSE "write")
    /\ Forget /\ UNCHANGED <<accountVars, adminVars>>

AdminWrite(c) ==
    /\ Move(c, "write", "done")
    /\ users' = [users EXCEPT ![U(c)] =
           IF Op(c) = "adminStatus" THEN [@ EXCEPT !.status = sent[c].status]
           ELSE IF Op(c) = "adminEdit" THEN [@ EXCEPT !.pw = sent[c].pw] ELSE @]
    /\ tenants' = IF Op(c) = "adminOrgs" THEN tenants \union {<<U(c), sent[c].org>>} ELSE tenants
    /\ Forget /\ UNCHANGED <<codes, sessions, logins, warned, late, overrides, staff, credited>>

\* deleteAdminAccount writes the account unread, whatever its role is; never
\* one's own.
DeleteAdmin(c) ==
    /\ Move(c, "start", IF ~HasRole(c, {}) \/ U(c) = By(c) THEN "refused"
                        ELSE IF Known(c) THEN "done" ELSE "failed")
    /\ users' = IF pc'[c] = "done" THEN [users EXCEPT ![U(c)].status = "DELETED"] ELSE users
    /\ Forget /\ UNCHANGED <<codes, sessions, logins, warned, late, adminVars>>

\* listOrgAdmins: the administrators of an organization, and what its own rows
\* let each do.
ListOrgAdmins(c) ==
    LET who == {u \in DOMAIN users : /\ <<u, sent[c].org>> \in tenants
                                     /\ users[u].role \in ADMIN_ROLES /\ users[u].status # "DELETED"}
        can(u) == {r \in overrides : r.u = u /\ r.org = sent[c].org /\ r.actions # {}} IN
    /\ Move(c, "start", IF HasRole(c, Managers) THEN "done" ELSE "refused")
    /\ Keep(c, [admins |-> UNION {{<<u, r.module, r.actions>> : r \in can(u)} : u \in who}])
    /\ UNCHANGED <<accountVars, adminVars>>

AdminOps == {"adminModules", "adminStatus", "adminOrgs", "adminEdit"}
AdminStep(c) ==
    \/ /\ Op(c) = "createAdmin"
       /\ \/ CreateAdminCheck(c) \/ CreateAdminWrite(c) \/ ScopeGrants(c) \/ GrantCheck(c)
          \/ GrantDrop(c) \/ GrantWrite(c) \/ Credentials(c)
    \/ /\ Op(c) \in AdminOps
       /\ \/ AdminEnters(c) \/ AdminRead(c) \/ AdminWrite(c)
          \/ GrantCheck(c) \/ GrantDrop(c) \/ GrantWrite(c)
    \/ Op(c) = "deleteAdmin" /\ DeleteAdmin(c)
    \/ Op(c) = "myModules" /\ MyModules(c)
    \/ Op(c) = "orgAdmins" /\ ListOrgAdmins(c)

\* At the start grants and organizations are of accounts, and grant what can
\* be granted; so does the form.
ASSUME AdminAssumption ==
    \A w \in Scenarios :
        /\ \A r \in w.overrides : r.actions \subseteq Grantable /\ r.u \in DOMAIN w.users
        /\ \A t \in w.tenants : t[1] \in DOMAIN w.users
        /\ \A c \in w.calls : Input[c].op = "createAdmin" => Input[c].actions \subseteq Grantable

AdminTypeOK ==
    /\ \A r \in overrides : r.actions \subseteq Grantable /\ r.u \in DOMAIN users
    /\ DOMAIN staff \subseteq DOMAIN users
    /\ credited \subseteq DOMAIN users
=============================================================================
