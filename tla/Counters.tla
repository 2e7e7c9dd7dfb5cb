------------------------------ MODULE Counters ------------------------------
(***************************************************************************)
(* The digital mala, src/src/modules/counters/counters.service.ts. A       *)
(* counter is a row per member, type and sub-type; the unique key lets two *)
(* rows without a sub-type pass (NULLs differ). Deltas and resets read the *)
(* rows and write absolute values later, without a lock.                   *)
(***************************************************************************)
EXTENDS Requests

CONSTANTS Devotees, CounterTypes, NoSub,
          MILESTONE_STEP

\* A row has a member, a type, a sub-type and a count, and no other column.
RowOf(x) == [m |-> x.m, type |-> x.type, sub |-> x.sub, count |-> x.count]

\* The ids of rows that exist are not those of rows to come.
ASSUME CounterAssumption ==
    /\ MILESTONE_STEP \in Nat \ {0}
    /\ \A c \in Calls : Input[c].op = "delta" => Input[c].m \in Devotees /\ Input[c].delta \in Int
    /\ \A w \in Scenarios :
           /\ IsFiniteSet(DOMAIN w.mala) /\ DOMAIN w.mala \intersect Calls = {}
           /\ \A r \in DOMAIN w.mala : /\ w.mala[r].m \in Devotees /\ w.mala[r].count \in Nat
                                       /\ w.mala[r] = RowOf(w.mala[r])

VARIABLES mala,        \* counter rows: id -> member, type, sub-type, count
          resetLogs,   \* counterResetLog: who logged which row at what count
          typeNames,   \* counter types: id -> name and whether it is deleted
          crossed      \* crossed[m]: milestones m was notified of

counterVars == <<mala, resetLogs, typeNames, crossed>>

Level(n) == n \div MILESTONE_STEP

CountersInit(w) ==
    /\ mala = w.mala
    /\ resetLogs = {}
    /\ typeNames = [t \in CounterTypes |-> [name |-> t, gone |-> FALSE]]
    /\ crossed = [m \in Devotees |-> {Level(w.mala[r].count) : r \in {x \in DOMAIN w.mala : w.mala[x].m = m}}]

Matches(row, c) == /\ row.m = sent[c].m /\ row.type = sent[c].type
                   /\ row.sub = sent[c].sub

-----------------------------------------------------------------------------
(* applyDelta: one transaction, which reads the row without a lock *)

DeltaRead(c) ==
    /\ Move(c, "start", IF sent[c].delta = 0 THEN "refused" ELSE "apply")
    /\ \/ /\ \E r \in DOMAIN mala : /\ Matches(mala[r], c)
                                    /\ Keep(c, [row |-> r, before |-> mala[r].count])
       \/ /\ \A r \in DOMAIN mala : ~Matches(mala[r], c)
          /\ Keep(c, [row |-> c, before |-> 0])
    /\ UNCHANGED counterVars

\* Mutation: a correction may take a counter below zero.
Unclamped(c) == saw[c].before + sent[c].delta

After(c) == Max({0, saw[c].before + sent[c].delta})

\* Mutation: only a count that hits the boundary exactly is a milestone.
HitsExactly(c) == After(c) > saw[c].before /\ After(c) % MILESTONE_STEP = 0

Crosses(c) == Level(After(c)) > Level(saw[c].before)

\* The notification is queued before the transaction commits.
DeltaNotify(c) ==
    /\ Move(c, "apply", "commit")
    /\ Crosses(c)
    /\ crossed' = [crossed EXCEPT ![sent[c].m] = @ \union {Level(After(c))}]
    /\ Forget /\ UNCHANGED <<mala, resetLogs, typeNames>>

NewRow(c) == [m |-> sent[c].m, type |-> sent[c].type, sub |-> sent[c].sub,
              count |-> After(c)]

\* The row read is overwritten; without one a row is created, which the key
\* refuses only where the sub-type is set.
DeltaCommit(c) ==
    /\ \/ pc[c] = "commit"
       \/ pc[c] = "apply" /\ ~Crosses(c)
    /\ \/ /\ saw[c].row = c /\ sent[c].sub # NoSub
          /\ \E r \in DOMAIN mala : Matches(mala[r], c)
          /\ Goto(c, "failed")
          /\ UNCHANGED mala
       \/ /\ saw[c].row # c \/ sent[c].sub = NoSub \/ \A r \in DOMAIN mala : ~Matches(mala[r], c)
          /\ mala' = Put(mala, saw[c].row, NewRow(c))
          /\ Goto(c, "done")
    /\ Forget /\ UNCHANGED <<resetLogs, typeNames, crossed>>

-----------------------------------------------------------------------------
(* resetCounter, resetAllCounters (of a member), resetCounterType (of all) *)

\* The rows a reset is about, as it reads them first and as it writes them.
InScope(c) == {r \in DOMAIN mala :
    CASE Op(c) = "reset" -> Matches(mala[r], c)
      [] Op(c) = "resetAll" -> mala[r].m = sent[c].m
      [] Op(c) = "resetType" -> mala[r].type = sent[c].type}

ResetOps == {"reset", "resetAll", "resetType"}

ResetRead(c) ==
    /\ Move(c, "start", IF \/ Op(c) = "reset" /\ InScope(c) = {}
                           \/ Op(c) = "resetType" /\ typeNames[sent[c].type].gone
                        THEN "refused" ELSE "log")
    /\ \/ Op(c) = "reset" /\ \E r \in InScope(c) : Keep(c, [rows |-> {<<r, mala[r].count>>}])
       \/ Op(c) = "reset" /\ InScope(c) = {} /\ Forget
       \/ Op(c) # "reset" /\ Keep(c, [rows |-> {<<r, mala[r].count>> : r \in InScope(c)}])
    /\ UNCHANGED counterVars

\* One log row after the other, with the count that was read.
ResetLog(c) ==
    /\ pc[c] = "log"
    /\ \E l \in saw[c].rows : ~(\E x \in resetLogs : x.by = c /\ x.row = l[1])
           /\ resetLogs' = resetLogs \union {[by |-> c, row |-> l[1], previous |-> l[2]]}
    /\ Goto(c, "log")
    /\ Forget /\ UNCHANGED <<mala, typeNames, crossed>>

ResetWrite(c) ==
    LET written == IF Op(c) = "reset" THEN {l[1] : l \in saw[c].rows} ELSE InScope(c) IN
    /\ Move(c, "log", "done")
    /\ \A l \in saw[c].rows : \E x \in resetLogs : x.by = c /\ x.row = l[1]
    /\ mala' = [r \in DOMAIN mala |->
                    IF r \in written THEN [mala[r] EXCEPT !.count = 0] ELSE mala[r]]
    /\ Forget /\ UNCHANGED <<resetLogs, typeNames, crossed>>

-----------------------------------------------------------------------------
(* createCounterType, updateCounterType, deleteCounterType *)

NameTaken(c) == \E t \in DOMAIN typeNames \ {sent[c].type} :
                    ~typeNames[t].gone /\ typeNames[t].name = sent[c].name

TypeOps == {"createType", "renameType", "deleteType"}

TypeRead(c) ==
    /\ Move(c, "start",
            IF \/ Op(c) # "createType" /\ typeNames[sent[c].type].gone
               \/ Op(c) # "deleteType" /\ NameTaken(c)
            THEN "refused" ELSE "write")
    /\ Forget /\ UNCHANGED counterVars

TypeWrite(c) ==
    LET id == IF Op(c) = "createType" THEN c ELSE sent[c].type
        name == IF Op(c) = "deleteType" THEN typeNames[id].name ELSE sent[c].name
    IN
    /\ Move(c, "write", "done")
    /\ typeNames' = Put(typeNames, id, [name |-> name, gone |-> Op(c) = "deleteType"])
    /\ Forget /\ UNCHANGED <<mala, resetLogs, crossed>>

CounterStep(c) ==
    \/ Op(c) = "delta" /\ (DeltaRead(c) \/ DeltaNotify(c) \/ DeltaCommit(c))
    \/ Op(c) \in ResetOps /\ (ResetRead(c) \/ ResetLog(c) \/ ResetWrite(c))
    \/ Op(c) \in TypeOps /\ (TypeRead(c) \/ TypeWrite(c))

-----------------------------------------------------------------------------
(* Properties *)

\* adminOverview: total and number of members of a counter type.
Overview(t) ==
    LET rows == {r \in DOMAIN mala : mala[r].type = t} IN
    [count |-> SumFunctionOnSet([r \in rows |-> mala[r].count], rows),
     memberCount |-> Cardinality({mala[r].m : r \in rows})]

CounterTypeOK ==
    /\ \A r \in DOMAIN mala : /\ mala[r].m \in Devotees
                              /\ mala[r].count \in Nat
    /\ \A l \in resetLogs : l.row \in DOMAIN mala /\ l.previous \in Nat
    /\ \A t \in CounterTypes : Overview(t).count = 0 \/ Overview(t).memberCount > 0

\* counters.service.ts:9, 28-39: whatever taps are lost, doubled or reset,
\* whoever stands at or past a boundary was notified of it or of a later one.
CrossedIsTold ==
    \A r \in DOMAIN mala :
        Level(mala[r].count) > 0 =>
            \E l \in crossed[mala[r].m] : l >= Level(mala[r].count)
=============================================================================
