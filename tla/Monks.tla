-------------------------------- MODULE Monks --------------------------------
(***************************************************************************)
(* Monk profiles, their groups and followers, and chaturmas plans:         *)
(* src/src/modules/monks and chaturmas. A profile may be edited by every   *)
(* administrator; what he sends replaces what is there. Profiles, groups   *)
(* and plans are named by the call that makes them (and its row).          *)
(***************************************************************************)
EXTENDS Members

VARIABLES monks,     \* monk -> group, status, timeline, gone
          groups,    \* group -> gone
          devoted,   \* follows: <<monk, member>>
          plans,     \* plan -> org, monks, gone
          posts      \* feed cards: <<of what, entry, call>>

monkVars == <<monks, groups, devoted, plans, posts>>
laity == <<accountVars, adminVars, memberVars>>
MonksInit(w) == /\ monks = w.monks /\ groups = w.groups
                /\ devoted = {} /\ plans = <<>> /\ posts = {}

M(c) == sent[c].monk
Present(f, x) == IF x \in DOMAIN f THEN ~f[x].gone ELSE FALSE
NewMonk == [group |-> None, status |-> "ACTIVE", timeline |-> {}, gone |-> FALSE]

\* A monk of the start has the columns of a profile, and a group that is there.
ASSUME MonksAssumption ==
    \A w \in Scenarios : \A m \in DOMAIN w.monks :
        /\ DOMAIN w.monks[m] = DOMAIN NewMonk
        /\ w.monks[m].group \in DOMAIN w.groups \union {None}

-----------------------------------------------------------------------------
(* createMonk, and bulkImportMonksExcel row by row: the profile, then its    *)
(* card; a card that fails is logged                                         *)

MonkEnters(c) ==
    /\ Permit(c, None, "MONKS", "CREATE", "create")
    /\ Keep(c, [todo |-> IF Op(c) = "monkImport" THEN sent[c].rows ELSE {1}])
    /\ UNCHANGED <<laity, monkVars>>

MonkCreate(c) ==
    /\ pc[c] = "create"
    /\ IF saw[c].todo = {} THEN Goto(c, "done") /\ Forget /\ UNCHANGED monks
       ELSE \E row \in saw[c].todo :
                /\ Goto(c, "card") /\ Keep(c, [row |-> row, todo |-> saw[c].todo \ {row}])
                /\ monks' = Put(monks, <<c, row>>, NewMonk)
    /\ UNCHANGED <<laity, groups, devoted, plans, posts>>

MonkCard(c) ==
    /\ Move(c, "card", "create")
    /\ \E posted \in BOOLEAN :
           posts' = IF posted THEN posts \union {<<<<c, saw[c].row>>, "profile", c>>} ELSE posts
    /\ Forget /\ UNCHANGED <<laity, monks, groups, devoted, plans>>

-----------------------------------------------------------------------------
(* updateMonk: an entry of the timeline that was not there when the profile  *)
(* was read is posted, one by one, until one fails. softDeleteMonk,          *)
(* updateMonkStatus and uploadMonkPhoto read the profile and write it too.   *)

ProfileRead(c) ==
    LET next == IF Present(monks, M(c)) THEN "write" ELSE "refused" IN
    /\ IF Op(c) = "monkDelete" THEN Move(c, "start", IF HasRole(c, {}) THEN next ELSE "refused")
       ELSE Permit(c, None, "MONKS", "EDIT", next)
    /\ Keep(c, [todo |-> IF Op(c) = "monkEdit" /\ Present(monks, M(c))
                         THEN sent[c].timeline \ monks[M(c)].timeline ELSE {}])
    /\ UNCHANGED <<laity, monkVars>>

ProfileSave(c) ==
    /\ Move(c, "write", IF Op(c) = "monkEdit" THEN "post" ELSE "done")
    /\ monks' = [monks EXCEPT ![M(c)] =
           IF Op(c) = "monkEdit" THEN [@ EXCEPT !.timeline = sent[c].timeline]
           ELSE IF Op(c) = "monkDelete" THEN [@ EXCEPT !.gone = TRUE]
           ELSE [@ EXCEPT !.status = sent[c].status]]
    /\ Forget /\ UNCHANGED <<laity, groups, devoted, plans, posts>>

TimelinePost(c) ==
    /\ pc[c] = "post"
    /\ \/ /\ Goto(c, "done") /\ Forget /\ UNCHANGED posts
       \/ \E e \in saw[c].todo :
              /\ Goto(c, "post") /\ Keep(c, [todo |-> saw[c].todo \ {e}])
              /\ posts' = posts \union {<<M(c), e, c>>}
    /\ UNCHANGED <<laity, monks, groups, devoted, plans>>

-----------------------------------------------------------------------------
(* createMonkGroup, updateMonkGroup, deleteMonkGroup: transactions. A monk   *)
(* is of one group, the last that took him.                                  *)

Regroup(g, among) == [m \in DOMAIN monks |->
    IF m \in among THEN [monks[m] EXCEPT !.group = g]
    ELSE IF monks[m].group = g THEN [monks[m] EXCEPT !.group = None] ELSE monks[m]]

Group(c) ==
    LET g == IF Op(c) = "mgroup" THEN c ELSE sent[c].group
        next == IF Op(c) = "mgroup" \/ Present(groups, g) THEN "done" ELSE "refused" IN
    /\ IF Op(c) = "mgroupDelete" THEN Move(c, "start", IF HasRole(c, {}) THEN next ELSE "refused")
       ELSE Permit(c, None, "MONKS", IF Op(c) = "mgroup" THEN "CREATE" ELSE "EDIT", next)
    /\ IF pc'[c] # "done" THEN UNCHANGED <<groups, monks>>
       ELSE /\ groups' = Put(groups, g, [gone |-> Op(c) = "mgroupDelete"])
            /\ monks' = Regroup(g, IF Op(c) = "mgroupDelete" THEN {} ELSE sent[c].monks)
    /\ Forget /\ UNCHANGED <<laity, devoted, plans, posts>>

\* followMonk, unfollowMonk: the member, the monk, then the row.
DevoteRead(c) ==
    /\ Authenticate(c, IF IsMember(By(c)) /\ Present(monks, M(c)) THEN "write" ELSE "refused")
    /\ Forget /\ UNCHANGED <<laity, monkVars>>

DevoteWrite(c) ==
    LET k == <<M(c), By(c)>> IN
    /\ Move(c, "write", "done")
    /\ devoted' = IF Op(c) = "devote" THEN devoted \union {k} ELSE devoted \ {k}
    /\ Forget /\ UNCHANGED <<laity, monks, groups, plans, posts>>

-----------------------------------------------------------------------------
(* chaturmas: a group is expanded to the monks it has when the plan is saved.*)
(* The answer comes before the cards, which may not come at all.             *)

Expanded(c) == sent[c].monks \union
    (IF sent[c].group = None THEN {} ELSE {m \in DOMAIN monks : monks[m].group = sent[c].group})

PlanRead(c) ==
    LET p == sent[c].plan
        next == CASE Op(c) = "plan"       -> "write"
                  [] Op(c) = "planEdit"   -> IF Present(plans, p) THEN "write" ELSE "refused"
                  [] Op(c) = "planDelete" -> IF p \in DOMAIN plans THEN "write" ELSE "refused"
        verb == CASE Op(c) = "plan" -> "CREATE" [] Op(c) = "planEdit" -> "EDIT" [] Op(c) = "planDelete" -> "DELETE"
    IN
    /\ Permit(c, None, "EVENTS", verb, next)
    /\ Keep(c, [monks |-> IF Op(c) = "planDelete" THEN {} ELSE Expanded(c)])
    /\ UNCHANGED <<laity, monkVars>>

PlanWrite(c) ==
    LET p == sent[c].plan IN
    /\ Move(c, "write", IF Op(c) = "plan" THEN "announce" ELSE "done")
    /\ plans' = CASE Op(c) = "plan"       -> Put(plans, c, [org |-> sent[c].org, monks |-> saw[c].monks, gone |-> FALSE])
                  [] Op(c) = "planEdit"   -> [plans EXCEPT ![p].monks = saw[c].monks]
                  [] Op(c) = "planDelete" -> [plans EXCEPT ![p].gone = TRUE]
    /\ Forget /\ UNCHANGED <<laity, monks, groups, devoted, posts>>

PlanCards(c) ==
    /\ Move(c, "announce", "done")
    /\ \E cards \in {{}, {<<<<c, 0>>, "temple", c>>}, {<<<<c, 0>>, "temple", c>>, <<<<c, 0>>, "monk", c>>}} :
           posts' = posts \union cards
    /\ Forget /\ UNCHANGED <<laity, monks, groups, devoted, plans>>

-----------------------------------------------------------------------------
(* listMonks, getMonk, listMonkGroups; the plans: all, of an organization,   *)
(* of a monk (his chaturmas history), one                                    *)

ReadMonks(c) ==
    LET live == {p \in DOMAIN plans : ~plans[p].gone} IN
    /\ Authenticate(c, IF \/ Op(c) = "monkGet" /\ ~Present(monks, M(c))
                          \/ Op(c) = "planGet" /\ ~Present(plans, sent[c].plan) THEN "refused" ELSE "done")
    /\ Keep(c, [seen |->
           CASE Op(c) = "monks"   -> {m \in DOMAIN monks : ~monks[m].gone}
             [] Op(c) = "monkGet" -> {p \in live : M(c) \in plans[p].monks}
             [] Op(c) = "mgroups" -> {g \in DOMAIN groups : ~groups[g].gone}
             [] Op(c) = "plans"   -> IF sent[c].org = None THEN live ELSE {p \in live : plans[p].org = sent[c].org}
             [] Op(c) = "planGet" -> live \intersect {sent[c].plan}])
    /\ UNCHANGED <<laity, monkVars>>

MonkStep(c) ==
    \/ Op(c) \in {"monk", "monkImport"} /\ (MonkEnters(c) \/ MonkCreate(c) \/ MonkCard(c))
    \/ Op(c) \in {"monkEdit", "monkDelete", "monkStatus"} /\ (ProfileRead(c) \/ ProfileSave(c) \/ TimelinePost(c))
    \/ Op(c) \in {"mgroup", "mgroupEdit", "mgroupDelete"} /\ Group(c)
    \/ Op(c) \in {"devote", "leaveMonk"} /\ (DevoteRead(c) \/ DevoteWrite(c))
    \/ Op(c) \in {"plan", "planEdit", "planDelete"} /\ (PlanRead(c) \/ PlanWrite(c) \/ PlanCards(c))
    \/ Op(c) \in {"monks", "monkGet", "mgroups", "plans", "planGet"} /\ ReadMonks(c)

\* The monks of a plan are a list that no key guards: profiles, or what the
\* form of some plan names.
Listed == UNION {sent[c].monks : c \in {d \in Come : Op(d) \in {"plan", "planEdit"}}}

MonkTypeOK ==
    /\ \A m \in DOMAIN monks : monks[m].group \in DOMAIN groups \union {None}
    /\ \A p \in DOMAIN plans : plans[p].monks \subseteq DOMAIN monks \union Listed
    /\ \A k \in devoted : k[1] \in DOMAIN monks /\ IsMember(k[2])
=============================================================================
