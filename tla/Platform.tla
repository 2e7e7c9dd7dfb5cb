------------------------------ MODULE Platform ------------------------------
(***************************************************************************)
(* Accounts, administrators, members, staff, devices and journeys, sites,  *)
(* monks and the office over one database: the permissions of one part     *)
(* decide what a request of another may do. One request may die between    *)
(* two statements.                                                         *)
(***************************************************************************)
EXTENDS Staffing, Tracking, Office, Monks

vars == <<request, accountVars, adminVars, memberVars, staffVars, watchVars, viharVars,
          siteVars, monkVars, officeVars>>

Init == \E w \in Scenarios :
    /\ RequestsInit(w) /\ AccountsInit(w) /\ AdminsInit(w) /\ MembersInit(w) /\ StaffingInit(w)
    /\ WatchInit(w) /\ ViharInit(w) /\ SitesInit(w) /\ MonksInit(w)
    /\ OfficeInit(w)

Busy == {c \in Come : pc[c] \notin Ended}

\* The tokens of a registration are issued as those of a sign-in.
Entry(c) == AccountStep(c) \/ (Op(c) = "register" /\ IssueTokens(c))

CallStep == \E c \in Busy :
    \/ /\ \/ Entry(c) /\ UNCHANGED <<adminVars, memberVars>>
          \/ AdminStep(c) /\ UNCHANGED memberVars
          \/ MemberStep(c)
       /\ UNCHANGED <<staffVars, watchVars, viharVars, siteVars, monkVars, officeVars>>
    \/ StaffStep(c) /\ UNCHANGED <<watchVars, viharVars, siteVars, monkVars, officeVars>>
    \/ SiteStep(c) /\ UNCHANGED <<staffVars, watchVars, viharVars, monkVars, officeVars>>
    \/ MonkStep(c) /\ UNCHANGED <<staffVars, watchVars, viharVars, siteVars, officeVars>>
    \/ OfficeStep(c) /\ UNCHANGED <<staffVars, watchVars, viharVars, monkVars>>
    \/ /\ ViharStep(c) \/ (WatchStep(c) /\ UNCHANGED viharVars)
       /\ UNCHANGED <<memberVars, staffVars, siteVars, monkVars, officeVars>>

\* Redis forgets, a lock ends, a device falls silent, the daily job comes, and
\* one request may die.
Elsewhere ==
    \/ /\ CodeLapses \/ LockLapses
       /\ UNCHANGED <<request, adminVars, memberVars, staffVars, watchVars, viharVars, siteVars, monkVars, officeVars>>
    \/ FallsSilent /\ UNCHANGED <<request, memberVars, staffVars, viharVars, siteVars, monkVars, officeVars>>
    \/ StaffSweep /\ UNCHANGED <<request, watchVars, viharVars, siteVars, monkVars, officeVars>>
    \/ /\ ~Died /\ \E c \in Come : Die(c)
       /\ UNCHANGED <<people, memberVars, staffVars, watchVars, viharVars, siteVars, monkVars, officeVars>>

Next == CallStep \/ Elsewhere

Spec == Init /\ [][Next]_vars

\* Every part has its type.
PlatformTypeOK ==
    /\ AccountTypeOK /\ AdminTypeOK /\ MemberTypeOK /\ StaffTypeOK
    /\ WatchTypeOK /\ ViharTypeOK /\ SiteTypeOK /\ MonkTypeOK /\ OfficeTypeOK
=============================================================================
