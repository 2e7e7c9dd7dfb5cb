----------------------------- MODULE IdSequence -----------------------------
(***************************************************************************)
(* The public-id engine, src/src/engines/idGenerator/id.service.ts, and    *)
(* the three ways the modules call it:                                     *)
(*                                                                         *)
(*  - Enclosed callers pass the transaction that creates the owning record *)
(*    (events, tickets, bookings, registerMember, ...);                    *)
(*  - Detached callers open a transaction for the number alone and create  *)
(*    the record afterwards (receipts, support tickets, organizations);    *)
(*  - Bare callers pass no transaction (members.controller.ts), so each    *)
(*    SQL statement commits on its own and FOR UPDATE locks nothing past   *)
(*    the statement.                                                       *)
(*                                                                         *)
(* The database is PostgreSQL at READ COMMITTED: a statement sees what is  *)
(* committed, and waits for the transaction that holds the row it writes.  *)
(***************************************************************************)
EXTENDS Integers, FiniteSets

CONSTANTS Prefixes,       \* id prefixes
          Enclosed,       \* callers inside the owning record's transaction
          Detached,       \* callers in a transaction of their own
          Bare,           \* callers without a transaction
          PrefixOf,       \* the prefix each caller asks a number of
          Start,          \* ID_SEQUENCE_START
          Workloads,      \* the sets of requests that may arrive together
          MaxNumber,      \* bound: no call starts once a prefix got here
          NoCaller

Callers == Enclosed \union Detached \union Bare
InTx == Enclosed \union Detached

ASSUME CallersAssumption ==
    /\ PrefixOf \in [Callers -> Prefixes]
    /\ NoCaller \notin Callers
    /\ Enclosed \intersect Detached = {}
    /\ InTx \intersect Bare = {}
    /\ Workloads \subseteq SUBSET Callers

ASSUME StartAssumption == Start \in Nat \ {0} /\ MaxNumber \in Nat

VARIABLES
    row,       \* row[p]: committed lastValue of p, 0 when there is no row
    holder,    \* holder[p]: the open transaction that holds or inserted p's row
    pc,        \* pc[c]: the next step of c
    cur,       \* cur[c]: "current" of nextPublicId
    number,    \* number[c]: the number nextPublicId returned to c
    granted,   \* history: <<p, n, c>> when n was returned to c for good
    records    \* records[p]: numbers of the committed records under p

vars == <<row, holder, pc, cur, number, granted, records>>

Labels == {"absent", "select", "insert", "update", "create", "done", "failed"}

\* A prefix is disciplined when every caller of it runs in a transaction.
Disciplined == {p \in Prefixes : \A c \in Bare : PrefixOf[c] # p}

\* The committed value of a prefix, with or without a row.
Value(p) == IF row[p] = 0 THEN Start - 1 ELSE row[p]

Goto(c, label) == pc' = [pc EXCEPT ![c] = label]

Init == /\ row = [p \in Prefixes |-> 0]
        /\ holder = [p \in Prefixes |-> NoCaller]
        /\ \E w \in Workloads :
               pc = [c \in Callers |-> IF c \in w THEN "select" ELSE "absent"]
        /\ cur = [c \in Callers |-> 0]
        /\ number = [c \in Callers |-> 0]
        /\ granted = {}
        /\ records = [p \in Prefixes |-> {}]

-----------------------------------------------------------------------------
(* nextPublicId *)

\* Mutation: the lock of a caller without a transaction is kept as well.
AcquireForGood(c, p) == [holder EXCEPT ![p] = c]

\* The row lock after a statement of c locked p: kept until the end of the
\* transaction, or dropped at once without one.
Acquire(c, p) == IF c \in InTx THEN [holder EXCEPT ![p] = c] ELSE holder

\* Mutation: the SELECT forgets FOR UPDATE, and reads past an open transaction.
SelectUnlocked(c) ==
    LET p == PrefixOf[c] IN
    /\ pc[c] = "select"
    /\ Value(p) < MaxNumber
    /\ cur' = [cur EXCEPT ![c] = row[p]]
    /\ Goto(c, IF row[p] = 0 THEN "insert" ELSE "update")
    /\ UNCHANGED <<row, holder, number, granted, records>>

\* SELECT ... FOR UPDATE. An uncommitted row of another transaction is not
\* visible, so a first caller finds nothing and does not wait.
Select(c) ==
    LET p == PrefixOf[c] IN
    /\ pc[c] = "select"
    /\ Value(p) < MaxNumber
    /\ \/ /\ row[p] = 0
          /\ Goto(c, "insert")
          /\ UNCHANGED <<holder, cur>>
       \/ /\ row[p] # 0
          /\ holder[p] = NoCaller
          /\ holder' = Acquire(c, p)
          /\ cur' = [cur EXCEPT ![c] = row[p]]
          /\ Goto(c, "update")
    /\ UNCHANGED <<row, number, granted, records>>

\* Mutation: the first row is inserted with Start, not Start - 1.
InsertAtStart(c) ==
    LET p == PrefixOf[c] IN
    /\ pc[c] = "insert"
    /\ row[p] = 0 /\ holder[p] = NoCaller
    /\ holder' = Acquire(c, p)
    /\ row' = IF c \in InTx THEN row ELSE [row EXCEPT ![p] = Start]
    /\ cur' = [cur EXCEPT ![c] = Start]
    /\ Goto(c, "update")
    /\ UNCHANGED <<number, granted, records>>

\* INSERT of the first row. It waits for a transaction that inserted the
\* same key, and fails on the primary key once that one has committed.
Insert(c) ==
    LET p == PrefixOf[c] IN
    /\ pc[c] = "insert"
    /\ \/ /\ row[p] = 0
          /\ holder[p] = NoCaller
          /\ holder' = Acquire(c, p)
          /\ row' = IF c \in InTx THEN row ELSE [row EXCEPT ![p] = Start - 1]
          /\ cur' = [cur EXCEPT ![c] = Start - 1]
          /\ Goto(c, "update")
       \/ /\ row[p] # 0
          /\ Goto(c, "failed")
          /\ UNCHANGED <<holder, row, cur>>
    /\ UNCHANGED <<number, granted, records>>

\* UPDATE to current + 1, and the return. It waits for the row, unless its
\* own transaction holds it, and overwrites whatever is there; in a
\* transaction the new value stays invisible.
Update(c) ==
    LET p == PrefixOf[c]
        next == cur[c] + 1
    IN
    /\ pc[c] = "update"
    /\ holder[p] \in {c, NoCaller}
    /\ holder' = Acquire(c, p)
    /\ number' = [number EXCEPT ![c] = next]
    /\ Goto(c, "create")
    /\ \/ /\ c \in Bare
          /\ row' = [row EXCEPT ![p] = next]
          /\ granted' = granted \union {<<p, next, c>>}
       \/ /\ c \in InTx
          /\ UNCHANGED <<row, granted>>
    /\ UNCHANGED <<cur, records>>

-----------------------------------------------------------------------------
(* The callers *)

\* An enclosed caller creates its record and commits both at once.
CommitEnclosed(c) ==
    LET p == PrefixOf[c] IN
    /\ c \in Enclosed
    /\ pc[c] = "create"
    /\ number[c] \notin records[p]
    /\ row' = [row EXCEPT ![p] = number[c]]
    /\ records' = [records EXCEPT ![p] = @ \union {number[c]}]
    /\ granted' = granted \union {<<p, number[c], c>>}
    /\ holder' = [holder EXCEPT ![p] = NoCaller]
    /\ Goto(c, "done")
    /\ UNCHANGED <<cur, number>>

\* The transaction of a detached caller ends with the number.
CommitDetached(c) ==
    LET p == PrefixOf[c] IN
    /\ c \in Detached
    /\ pc[c] = "create"
    /\ holder[p] = c
    /\ row' = [row EXCEPT ![p] = number[c]]
    /\ granted' = granted \union {<<p, number[c], c>>}
    /\ holder' = [holder EXCEPT ![p] = NoCaller]
    /\ UNCHANGED <<pc, cur, number, records>>

\* A detached or bare caller creates its record; publicId is unique.
CreateRecord(c) ==
    LET p == PrefixOf[c] IN
    /\ c \notin Enclosed
    /\ pc[c] = "create"
    /\ holder[p] # c
    /\ \/ /\ number[c] \notin records[p]
          /\ records' = [records EXCEPT ![p] = @ \union {number[c]}]
          /\ Goto(c, "done")
       \/ /\ number[c] \in records[p]
          /\ Goto(c, "failed")
          /\ UNCHANGED records
    /\ UNCHANGED <<row, holder, cur, number, granted>>

\* Mutation: a failed create keeps the number it had advanced the row to.
RollbackKeepsNumber(c) ==
    LET p == PrefixOf[c] IN
    /\ pc[c] \in {"update", "create"}
    /\ holder[p] = c
    /\ row' = [row EXCEPT ![p] = Value(p) + 1]
    /\ holder' = [holder EXCEPT ![p] = NoCaller]
    /\ Goto(c, "failed")
    /\ UNCHANGED <<cur, number, granted, records>>

\* Mutation: the transaction is never closed on an error.
RollbackLeaksLock(c) ==
    /\ pc[c] \in {"update", "create"}
    /\ holder[PrefixOf[c]] = c
    /\ Goto(c, "failed")
    /\ UNCHANGED <<row, holder, cur, number, granted, records>>

\* The transaction fails before its commit (any error of the create, the
\* unique publicId included, or the death of the process): row and number
\* are as they were before it.
Rollback(c) ==
    /\ pc[c] \in {"update", "create"}
    /\ holder[PrefixOf[c]] = c
    /\ holder' = [holder EXCEPT ![PrefixOf[c]] = NoCaller]
    /\ Goto(c, "failed")
    /\ UNCHANGED <<row, cur, number, granted, records>>

\* A caller without an open transaction dies or errs between two statements.
GiveUp(c) ==
    /\ pc[c] \in {"update", "create"}
    /\ holder[PrefixOf[c]] # c
    /\ Goto(c, "failed")
    /\ UNCHANGED <<row, holder, cur, number, granted, records>>

\* The client repeats the failed request.
Retry(c) ==
    /\ pc[c] = "failed"
    /\ Value(PrefixOf[c]) < MaxNumber
    /\ Goto(c, "select")
    /\ UNCHANGED <<row, holder, cur, number, granted, records>>

Step(c) == \/ Select(c) \/ Insert(c) \/ Update(c)
           \/ CommitEnclosed(c) \/ CommitDetached(c) \/ CreateRecord(c)

Next == \E c \in Callers : Step(c) \/ Rollback(c) \/ GiveUp(c) \/ Retry(c)

Spec == Init /\ [][Next]_vars

\* Once begun, a request runs to its end: the database answers every
\* statement, hands a row lock to its waiters in turn (hence SF), and rolls
\* back a create that breaks the unique publicId. No client has to retry.
Progress(c) ==
    Step(c) \/ (Rollback(c) /\ number[c] \in records[PrefixOf[c]])

Fairness == \A c \in Callers : SF_vars(Progress(c))

FairSpec == Spec /\ Fairness

-----------------------------------------------------------------------------
(* Properties *)

\* Every variable has its type: only a transaction holds a row.
TypeOK ==
    /\ row \in [Prefixes -> Nat]
    /\ holder \in [Prefixes -> InTx \union {NoCaller}]
    /\ pc \in [Callers -> Labels]
    /\ cur \in [Callers -> Nat]
    /\ number \in [Callers -> Nat]
    /\ granted \subseteq Prefixes \X Nat \X Callers
    /\ records \in [Prefixes -> SUBSET Nat]

SameNumber(g, h) == g[1] = h[1] /\ g[2] = h[2]

\* id.service.ts:10-12, "never reused ... concurrent creates never produce
\* duplicates": where every caller runs in a transaction, no number is
\* returned for good to two calls, whoever of them was first to find no row,
\* rolled back, died or came again.
NoDuplicateNumber ==
    \A g, h \in granted :
        g[1] \in Disciplined /\ SameNumber(g, h) => g = h

\* id.service.ts:14-18 and idSequence.concurrency.test.ts:53 ("strictly
\* sequential, no gaps"): where every caller takes the number in the
\* transaction of its record, the committed records carry exactly the numbers
\* from Start to the last value, so a rolled-back create leaves no gap.
Gapless ==
    \A p \in Prefixes :
        (\A c \in Callers : PrefixOf[c] = p => c \in Enclosed)
            => records[p] = Start .. Value(p)

\* The engine hands out numbers as IdAllocator does: each commit takes the
\* successor of the last one (the bare-caller prefixes are left out).
Allocator == INSTANCE IdAllocator WITH
    Prefixes <- Disciplined,
    last <- [p \in Disciplined |-> Value(p)],
    granted <- {g \in granted : g[1] \in Disciplined}

AllocatorSpec == Allocator!Spec

\* No caller waits for ever for the row of its prefix: every request that
\* started ends, whatever the others do with the lock meanwhile (unless the
\* prefix reached the model's bound).
EveryCallSettles ==
    \A c \in Callers :
        pc[c] = "select"
            ~> pc[c] \in {"done", "failed"} \/ Value(PrefixOf[c]) >= MaxNumber

\* The same promise for every prefix, as id.service.ts:10-12 words it. Bare
\* callers break it: two of them read one value, and both write its successor.
NoDuplicateNumberAnywhere ==
    \A g, h \in granted : SameNumber(g, h) => g = h
=============================================================================
