---------------------------- MODULE Bhojanshala ----------------------------
(***************************************************************************)
(* The dining hall of one organization, its passes, menu and managers,     *)
(* src/src/modules/bhojanshala/bhojanshala.service.ts. A pass of an        *)
(* administrator waits for approval, one a member buys is BOOKED at once;  *)
(* nothing sets EXPIRED. All writes are by id, after a read.               *)
(***************************************************************************)
EXTENDS Requests

PassStatuses == {"PENDING", "BOOKED", "SCANNED", "CANCELLED", "EXPIRED"}

\* The ids of passes that exist are not those of passes to come.
ASSUME MealAssumption ==
    \A w \in Scenarios : /\ w.passes \in [DOMAIN w.passes -> PassStatuses]
                         /\ DOMAIN w.passes \intersect Calls = {}

VARIABLES passes,      \* passes[p]: status; ids are the calls that made them
          meals,       \* scan records: the calls that served each pass
          menu,        \* menu items that exist
          managers,    \* BHOJANSHALA_ADMIN rows: user and the row's id
          users,       \* users, with and without an account before
          bookedTimes, \* history: how often each pass was made BOOKED
          twoScans     \* history: passes with two scans at once

mealVars == <<passes, meals, menu, managers, users, bookedTimes, twoScans>>

BhojanshalaInit(w) ==
    /\ passes = w.passes
    /\ meals = {} /\ menu = {} /\ managers = {} /\ users = w.users
    /\ bookedTimes = [p \in DOMAIN w.passes |-> IF w.passes[p] = "BOOKED" THEN 1 ELSE 0]
    /\ twoScans = {}

Pass(c) == sent[c].pass
Booked(p) == [bookedTimes EXCEPT ![p] = @ + 1]

\* createPass of controller and service: an identifier of the member makes it
\* an administrator's pass.
CreatePass(c) ==
    LET self == ~sent[c].byIdentifier IN
    /\ Move(c, "start", "done")
    /\ passes' = Put(passes, c, IF self THEN "BOOKED" ELSE "PENDING")
    /\ bookedTimes' = Put(bookedTimes, c, IF self THEN 1 ELSE 0)
    /\ Forget /\ UNCHANGED <<meals, menu, managers, users, twoScans>>

\* scanPass: one transaction, whose read takes no lock.
ScanPassRead(c) ==
    LET p == Pass(c) IN
    /\ p \in DOMAIN passes
    /\ Move(c, "start", IF passes[p] = "BOOKED" THEN "serve" ELSE "refused")
    /\ twoScans' = twoScans \union
           (IF \E d \in Open : Op(d) = "scanPass" /\ Pass(d) = p THEN {p} ELSE {})
    /\ Forget /\ UNCHANGED <<passes, meals, menu, managers, users, bookedTimes>>

\* Mutation: the meal is recorded and the pass stays as it is.
ServeOnly(c) ==
    /\ Move(c, "serve", "done")
    /\ meals' = meals \union {<<Pass(c), c>>}
    /\ Forget /\ UNCHANGED <<passes, menu, managers, users, bookedTimes, twoScans>>

ScanPassWrite(c) ==
    /\ Move(c, "serve", "done")
    /\ passes' = [passes EXCEPT ![Pass(c)] = "SCANNED"]
    /\ meals' = meals \union {<<Pass(c), c>>}
    /\ Forget /\ UNCHANGED <<menu, managers, users, bookedTimes, twoScans>>

ApproveRead(c) ==
    /\ Pass(c) \in DOMAIN passes
    /\ Move(c, "start", IF passes[Pass(c)] = "PENDING" THEN "approve" ELSE "refused")
    /\ Forget /\ UNCHANGED mealVars

ApproveWrite(c) ==
    /\ Move(c, "approve", "done")
    /\ passes' = [passes EXCEPT ![Pass(c)] = "BOOKED"]
    /\ bookedTimes' = Booked(Pass(c))
    /\ Forget /\ UNCHANGED <<meals, menu, managers, users, twoScans>>

CancelPassRead(c) ==
    /\ Pass(c) \in DOMAIN passes
    /\ Move(c, "start", IF passes[Pass(c)] \in {"SCANNED", "EXPIRED"} THEN "refused" ELSE "cancel")
    /\ Forget /\ UNCHANGED mealVars

CancelPassWrite(c) ==
    /\ Move(c, "cancel", "done")
    /\ passes' = [passes EXCEPT ![Pass(c)] = "CANCELLED"]
    /\ Forget /\ UNCHANGED <<meals, menu, managers, users, bookedTimes, twoScans>>

\* No status is too late to make a pass PENDING again.
MarkPassPending(c) ==
    /\ Pass(c) \in DOMAIN passes
    /\ Move(c, "start", "done")
    /\ passes' = [passes EXCEPT ![Pass(c)] = "PENDING"]
    /\ Forget /\ UNCHANGED <<meals, menu, managers, users, bookedTimes, twoScans>>

-----------------------------------------------------------------------------
(* The menu: addMenuItem; updateMenuItem and deleteMenuItem look first *)

AddMenuItem(c) ==
    /\ Move(c, "start", "done")
    /\ menu' = menu \union {sent[c].item}
    /\ Forget /\ UNCHANGED <<passes, meals, managers, users, bookedTimes, twoScans>>

MenuItemRead(c) ==
    /\ Move(c, "start", IF sent[c].item \in menu THEN "delete" ELSE "refused")
    /\ Forget /\ UNCHANGED mealVars

DeleteMenuItem(c) ==
    /\ pc[c] = "delete"
    /\ Goto(c, IF sent[c].item \in menu THEN "done" ELSE "failed")
    /\ menu' = menu \ {sent[c].item}
    /\ Forget /\ UNCHANGED <<passes, meals, managers, users, bookedTimes, twoScans>>

-----------------------------------------------------------------------------
(* Managers: a mobile without a user gets one; the same user once *)

ManagerUser(c) ==
    /\ Move(c, "start", IF sent[c].mobile \in users THEN "check" ELSE "user")
    /\ Forget /\ UNCHANGED mealVars

ManagerCreateUser(c) ==
    /\ Move(c, "user", IF sent[c].mobile \in users THEN "failed" ELSE "check")
    /\ users' = users \union {sent[c].mobile}
    /\ Forget /\ UNCHANGED <<passes, meals, menu, managers, bookedTimes, twoScans>>

ManagerCheck(c) ==
    /\ Move(c, "check", IF \E r \in managers : r[1] = sent[c].mobile THEN "refused" ELSE "grant")
    /\ Forget /\ UNCHANGED mealVars

\* (userId, organizationId) is unique: the second of two grants fails.
ManagerGrant(c) ==
    /\ pc[c] = "grant"
    /\ \/ /\ \E r \in managers : r[1] = sent[c].mobile
          /\ Goto(c, "failed")
          /\ UNCHANGED managers
       \/ /\ \A r \in managers : r[1] # sent[c].mobile
          /\ managers' = managers \union {<<sent[c].mobile, c>>}
          /\ Goto(c, "done")
    /\ Forget /\ UNCHANGED <<passes, meals, menu, users, bookedTimes, twoScans>>

RemoveManager(c) ==
    /\ Move(c, "start", "done")
    /\ managers' = {r \in managers : r[1] # sent[c].mobile}
    /\ Forget /\ UNCHANGED <<passes, meals, menu, users, bookedTimes, twoScans>>

MealStep(c) ==
    \/ Op(c) = "createPass" /\ CreatePass(c)
    \/ Op(c) = "scanPass" /\ (ScanPassRead(c) \/ ScanPassWrite(c))
    \/ Op(c) = "approvePass" /\ (ApproveRead(c) \/ ApproveWrite(c))
    \/ Op(c) = "cancelPass" /\ (CancelPassRead(c) \/ CancelPassWrite(c))
    \/ Op(c) = "markPending" /\ MarkPassPending(c)
    \/ Op(c) = "addItem" /\ AddMenuItem(c)
    \/ Op(c) = "deleteItem" /\ (MenuItemRead(c) \/ DeleteMenuItem(c))
    \/ /\ Op(c) = "addManager"
       /\ \/ ManagerUser(c) \/ ManagerCreateUser(c) \/ ManagerCheck(c) \/ ManagerGrant(c)
    \/ Op(c) = "removeManager" /\ RemoveManager(c)

-----------------------------------------------------------------------------
(* Properties *)

MealTypeOK ==
    /\ \A p \in DOMAIN passes : passes[p] \in PassStatuses
    /\ \A s \in meals : s[1] \in DOMAIN passes
    /\ DOMAIN bookedTimes = DOMAIN passes
    /\ {r[1] : r \in managers} \subseteq users

\* bhojanshala.service.ts:171, 234: a pass feeds its holder once for each time
\* it was booked or approved, through all orders of approvals, cancellations
\* and resets, unless two scans of it ran at the same time.
OneMealPerApproval ==
    \A p \in DOMAIN passes \ twoScans :
        Cardinality({s \in meals : s[1] = p}) <= bookedTimes[p]
=============================================================================
