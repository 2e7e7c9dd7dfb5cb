-------------------------- MODULE IdSequenceProofs --------------------------
(***************************************************************************)
(* Proofs about IdSequence for every set of prefixes and callers. The      *)
(* inductive invariant says what the row lock is good for: whoever holds   *)
(* it has read the committed value, so the number it is about to commit is *)
(* the successor of the last one.                                          *)
(***************************************************************************)
EXTENDS IdSequence, TLAPS

\* The holder of a row is a caller of that prefix in an open transaction, and
\* conversely a caller in an open transaction holds its row: a detached one
\* until the number is written, an enclosed one until its record is.
LockInv ==
    /\ \A p \in Prefixes : holder[p] # NoCaller =>
           /\ holder[p] \in InTx
           /\ PrefixOf[holder[p]] = p
           /\ pc[holder[p]] \in {"update", "create"}
    /\ \A c \in InTx : pc[c] = "update" => holder[PrefixOf[c]] = c
    /\ \A c \in Enclosed : pc[c] = "create" => holder[PrefixOf[c]] = c

\* What a transaction read is still the committed value, and its number is
\* the successor.
ReadInv ==
    \A c \in InTx : holder[PrefixOf[c]] = c /\ PrefixOf[c] \in Disciplined =>
        /\ cur[c] = Value(PrefixOf[c])
        /\ pc[c] = "create" => number[c] = cur[c] + 1

\* No number is handed out beyond the committed value.
GrantedInv ==
    \A g \in granted : g[1] \in Disciplined => g[2] <= Value(g[1])

\* No disciplined prefix falls behind its first number.
BaseInv == \A p \in Disciplined : Value(p) >= Start - 1

IInv == /\ TypeOK /\ LockInv /\ ReadInv
        /\ GrantedInv /\ BaseInv /\ NoDuplicateNumber /\ Gapless

LEMMA InitIInv == Init => IInv
  <1> SUFFICES ASSUME Init PROVE IInv
    OBVIOUS
  <1> USE CallersAssumption, StartAssumption DEF Init
  <1>1. TypeOK
    BY DEF TypeOK, Labels
  <1>2. LockInv
    BY DEF LockInv, Callers, InTx
  <1>3. ReadInv
    BY DEF ReadInv, Callers, InTx
  <1>4. GrantedInv /\ NoDuplicateNumber
    BY DEF GrantedInv, NoDuplicateNumber
  <1>5. BaseInv /\ Gapless
    BY DEF BaseInv, Gapless, Value, Disciplined
  <1>6. QED
    BY <1>1, <1>2, <1>3, <1>4, <1>5 DEF IInv

-----------------------------------------------------------------------------
(* One lemma per conjunct of the invariant, one step per action. *)

LEMMA StepTypeOK ==
  ASSUME TypeOK, NEW c \in Callers,
         Step(c) \/ Rollback(c) \/ GiveUp(c) \/ Retry(c)
  PROVE  TypeOK'
  <1> USE CallersAssumption, StartAssumption DEF TypeOK, Labels, Goto
  <1>0. PrefixOf[c] \in Prefixes /\ NoCaller \notin Callers
    OBVIOUS
  <1>1. CASE Select(c)
    BY <1>0, <1>1 DEF Select, Acquire
  <1>2. CASE Insert(c)
    BY <1>0, <1>2 DEF Insert, Acquire
  <1>3. CASE Update(c)
    BY <1>0, <1>3 DEF Update, Acquire
  <1>4. CASE CommitEnclosed(c)
    BY <1>0, <1>4 DEF CommitEnclosed
  <1>5. CASE CommitDetached(c)
    BY <1>0, <1>5 DEF CommitDetached
  <1>6. CASE CreateRecord(c)
    BY <1>0, <1>6 DEF CreateRecord
  <1>7. CASE Rollback(c)
    BY <1>0, <1>7 DEF Rollback
  <1>8. CASE GiveUp(c) \/ Retry(c)
    BY <1>0, <1>8 DEF GiveUp, Retry
  <1>9. QED
    BY <1>1, <1>2, <1>3, <1>4, <1>5, <1>6, <1>7, <1>8 DEF Step

LEMMA StepLockInv ==
  ASSUME TypeOK, LockInv, NEW c \in Callers,
         Step(c) \/ Rollback(c) \/ GiveUp(c) \/ Retry(c)
  PROVE  LockInv'
  <1> USE CallersAssumption DEF TypeOK, LockInv, Labels, Goto
  <1>0. /\ PrefixOf[c] \in Prefixes
        /\ c # NoCaller
        /\ Enclosed \subseteq InTx /\ InTx \subseteq Callers
    BY DEF Callers, InTx
  <1>1. CASE Select(c)
    BY <1>0, <1>1 DEF Select, Acquire
  <1>2. CASE Insert(c)
    BY <1>0, <1>2 DEF Insert, Acquire
  <1>3. CASE Update(c)
    BY <1>0, <1>3 DEF Update, Acquire
  <1>4. CASE CommitEnclosed(c)
    BY <1>0, <1>4 DEF CommitEnclosed
  <1>5. CASE CommitDetached(c)
    BY <1>0, <1>5 DEF CommitDetached
  <1>6. CASE CreateRecord(c)
    BY <1>0, <1>6 DEF CreateRecord
  <1>7. CASE Rollback(c)
    BY <1>0, <1>7 DEF Rollback
  <1>8. CASE GiveUp(c) \/ Retry(c)
    BY <1>0, <1>8 DEF GiveUp, Retry
  <1>9. QED
    BY <1>1, <1>2, <1>3, <1>4, <1>5, <1>6, <1>7, <1>8 DEF Step

LEMMA StepReadInv ==
  ASSUME TypeOK, LockInv, ReadInv, NEW c \in Callers,
         Step(c) \/ Rollback(c) \/ GiveUp(c) \/ Retry(c)
  PROVE  ReadInv'
  <1> USE CallersAssumption DEF TypeOK, LockInv, ReadInv, Labels, Goto, Value
  <1>0. /\ PrefixOf[c] \in Prefixes
        /\ c # NoCaller
        /\ Enclosed \subseteq InTx /\ InTx \subseteq Callers
        /\ Detached \subseteq InTx
        /\ \A d \in Callers : d \in Bare \/ d \in InTx
        /\ PrefixOf[c] \in Disciplined => c \in InTx
    BY DEF Callers, InTx, Disciplined
  <1>1. CASE Select(c)
    BY <1>0, <1>1 DEF Select, Acquire
  <1>2. CASE Insert(c)
    BY <1>0, <1>2 DEF Insert, Acquire
  <1>3. CASE Update(c)
    BY <1>0, <1>3 DEF Update, Acquire
  <1>4. CASE CommitEnclosed(c)
    BY <1>0, <1>4 DEF CommitEnclosed
  <1>5. CASE CommitDetached(c)
    BY <1>0, <1>5 DEF CommitDetached
  <1>6. CASE CreateRecord(c)
    BY <1>0, <1>6 DEF CreateRecord
  <1>7. CASE Rollback(c)
    BY <1>0, <1>7 DEF Rollback
  <1>8. CASE GiveUp(c) \/ Retry(c)
    BY <1>0, <1>8 DEF GiveUp, Retry
  <1>9. QED
    BY <1>1, <1>2, <1>3, <1>4, <1>5, <1>6, <1>7, <1>8 DEF Step

\* The grants the promise is about.
Kept == {g \in granted : g[1] \in Disciplined}

\* A step leaves every disciplined prefix alone, or it is one commit that
\* hands the successor of the last number of its prefix to its caller.
Idle == /\ \A p \in Disciplined : Value(p)' = Value(p)
        /\ Kept' = Kept

Advance(c) ==
    LET q == PrefixOf[c] IN
    /\ q \in Disciplined
    /\ Value(q)' = Value(q) + 1
    /\ \A p \in Disciplined \ {q} : Value(p)' = Value(p)
    /\ Kept' = Kept \union {<<q, Value(q) + 1, c>>}

LEMMA StepAdvance ==
  ASSUME TypeOK, LockInv, ReadInv, NEW c \in Callers,
         Step(c) \/ Rollback(c) \/ GiveUp(c) \/ Retry(c)
  PROVE  Idle \/ Advance(c)
  <1> DEFINE q == PrefixOf[c]
  <1>0. /\ q \in Prefixes
        /\ Disciplined \subseteq Prefixes
        /\ Enclosed \subseteq InTx /\ Detached \subseteq InTx
        /\ q \in Disciplined => c \notin Bare
        /\ c \in Bare => c \notin InTx
    BY CallersAssumption DEF Callers, InTx, Disciplined
  <1>1. CASE UNCHANGED <<row, granted>>
    BY <1>1 DEF Idle, Kept, Value
  <1>2. ASSUME NEW n \in Nat, q \notin Disciplined,
               row' = [row EXCEPT ![q] = n],
               granted' \in {granted, granted \union {<<q, n, c>>}}
        PROVE  Idle
    BY <1>0, <1>2 DEF Idle, Kept, Value, TypeOK
  <1>3. ASSUME c \in InTx, pc[c] = "create", holder[q] = c,
               row' = [row EXCEPT ![q] = number[c]],
               granted' = granted \union {<<q, number[c], c>>}
        PROVE  Idle \/ Advance(c)
    <2>1. CASE q \notin Disciplined
      BY <1>2, <1>3, <2>1 DEF TypeOK
    <2>2. CASE q \in Disciplined
      <3>1. number[c] = Value(q) + 1 /\ Value(q) \in Nat
        BY <1>0, <1>3, <2>2, StartAssumption DEF ReadInv, TypeOK, Value
      <3>2. Value(q)' = Value(q) + 1
        BY <1>0, <1>3, <3>1 DEF TypeOK, Value
      <3>3. \A p \in Disciplined \ {q} : Value(p)' = Value(p)
        BY <1>0, <1>3 DEF TypeOK, Value
      <3>4. Kept' = Kept \union {<<q, Value(q) + 1, c>>}
        BY <1>3, <2>2, <3>1 DEF Kept
      <3>5. QED
        BY <2>2, <3>2, <3>3, <3>4 DEF Advance
    <2>3. QED
      BY <2>1, <2>2
  <1>4. CASE Insert(c) /\ c \in Bare
    BY <1>0, <1>1, <1>2, <1>4, StartAssumption DEF Insert
  <1>5. CASE Update(c) /\ c \in Bare
    BY <1>0, <1>2, <1>5 DEF Update, TypeOK
  <1>6. CASE (Insert(c) \/ Update(c)) /\ c \in InTx
    BY <1>0, <1>1, <1>6 DEF Insert, Update
  <1>7. CASE CommitEnclosed(c)
    BY <1>0, <1>3, <1>7 DEF CommitEnclosed, LockInv
  <1>8. CASE CommitDetached(c)
    BY <1>0, <1>3, <1>8 DEF CommitDetached
  <1>9. CASE Select(c) \/ CreateRecord(c) \/ Rollback(c) \/ GiveUp(c) \/ Retry(c)
    BY <1>1, <1>9 DEF Select, CreateRecord, Rollback, GiveUp, Retry
  <1>10. QED
    BY <1>4, <1>5, <1>6, <1>7, <1>8, <1>9 DEF Step, Callers, InTx

LEMMA StepGranted ==
  ASSUME TypeOK, GrantedInv, NoDuplicateNumber, NEW c \in Callers,
         Idle \/ Advance(c)
  PROVE  GrantedInv' /\ NoDuplicateNumber'
  <1>0. /\ \A p \in Disciplined : Value(p) \in Nat
        /\ \A g \in granted : g[2] \in Nat
    BY StartAssumption DEF TypeOK, Value, Disciplined
  <1>1. CASE Idle
    <2>1. \A g \in granted' : g[1] \in Disciplined => g \in granted
      BY <1>1 DEF Idle, Kept
    <2>2. QED
      BY <1>1, <2>1 DEF Idle, GrantedInv, NoDuplicateNumber, SameNumber
  <1>2. CASE Advance(c)
    <2> DEFINE q == PrefixOf[c]
               new == <<q, Value(q) + 1, c>>
    <2>1. \A g \in granted' : g[1] \in Disciplined => g \in granted \/ g = new
      BY <1>2 DEF Advance, Kept
    <2>2. \A g \in granted : g[1] = q => g[2] <= Value(q)
      BY <1>2 DEF Advance, GrantedInv
    <2>3. GrantedInv'
      BY <1>0, <1>2, <2>1 DEF Advance, GrantedInv
    <2>4. NoDuplicateNumber'
      BY <1>0, <1>2, <2>1, <2>2 DEF Advance, NoDuplicateNumber, SameNumber
    <2>5. QED
      BY <2>3, <2>4
  <1>3. QED
    BY <1>1, <1>2

LEMMA StepBaseInv ==
  ASSUME TypeOK, BaseInv, NEW c \in Callers, Idle \/ Advance(c)
  PROVE  BaseInv'
  BY StartAssumption DEF Idle, Advance, BaseInv, TypeOK, Value, Disciplined

LEMMA StepGapless ==
  ASSUME TypeOK, LockInv, ReadInv, BaseInv, Gapless, NEW c \in Callers,
         Step(c) \/ Rollback(c) \/ GiveUp(c) \/ Retry(c)
  PROVE  Gapless'
  <1> DEFINE AllEnclosed(p) == \A d \in Callers : PrefixOf[d] = p => d \in Enclosed
  <1> SUFFICES ASSUME NEW p \in Prefixes, AllEnclosed(p)
               PROVE  records'[p] = Start .. Value(p)'
    BY DEF Gapless
  <1>0. /\ PrefixOf[c] \in Prefixes
        /\ records[p] = Start .. Value(p)
        /\ p \in Disciplined
        /\ Value(p) \in Nat
        /\ Value(p) >= Start - 1
        /\ PrefixOf[c] = p => c \in Enclosed /\ c \notin Bare /\ c \notin Detached
    BY CallersAssumption, StartAssumption
    DEF Gapless, BaseInv, Disciplined, Callers, InTx, TypeOK, Value
  <1>1. CASE PrefixOf[c] = p /\ CommitEnclosed(c)
    <2>1. number[c] = Value(p) + 1
      BY <1>0, <1>1 DEF CommitEnclosed, LockInv, ReadInv, InTx
    <2>2. /\ Value(p)' = Value(p) + 1
          /\ records'[p] = records[p] \union {Value(p) + 1}
      BY <1>0, <1>1, <2>1 DEF CommitEnclosed, TypeOK, Value
    <2>3. QED
      BY <1>0, <2>2, StartAssumption
  <1>2. CASE ~(PrefixOf[c] = p /\ CommitEnclosed(c))
    <2>1. row'[p] = row[p] /\ records'[p] = records[p]
      BY <1>0, <1>2
      DEF Step, Select, Insert, Update, CommitEnclosed, CommitDetached,
          CreateRecord, Rollback, GiveUp, Retry, TypeOK, Callers, InTx
    <2>2. QED
      BY <1>0, <2>1 DEF Value
  <1>3. QED
    BY <1>1, <1>2

LEMMA NextIInv == IInv /\ [Next]_vars => IInv'
  <1> SUFFICES ASSUME IInv, [Next]_vars PROVE IInv'
    OBVIOUS
  <1>1. ASSUME NEW c \in Callers,
               Step(c) \/ Rollback(c) \/ GiveUp(c) \/ Retry(c)
        PROVE  IInv'
    <2>1. TypeOK' /\ LockInv' /\ ReadInv'
      BY <1>1, StepTypeOK, StepLockInv, StepReadInv DEF IInv
    <2>2. Idle \/ Advance(c)
      BY <1>1, StepAdvance DEF IInv
    <2>3. GrantedInv' /\ NoDuplicateNumber' /\ BaseInv'
      BY <2>2, StepGranted, StepBaseInv DEF IInv
    <2>4. Gapless'
      BY <1>1, StepGapless DEF IInv
    <2>5. QED
      BY <2>1, <2>3, <2>4 DEF IInv
  <1>2. CASE UNCHANGED vars
    BY <1>2 DEF vars, IInv, TypeOK, LockInv, ReadInv, GrantedInv, BaseInv,
                NoDuplicateNumber, Gapless, Value
  <1>3. QED
    BY <1>1, <1>2 DEF Next

\* The invariant holds in every behaviour of the engine.
THEOREM Invariance == Spec => []IInv
  BY InitIInv, NextIInv, PTL DEF Spec

\* Type correctness, for any callers and prefixes.
THEOREM TypeCorrect == Spec => []TypeOK
  BY Invariance, PTL DEF IInv

\* id.service.ts:10-12: whatever the number of concurrent callers, one
\* that always passes a transaction is never handed a number twice.
THEOREM NeverReused == Spec => []NoDuplicateNumber
  BY Invariance, PTL DEF IInv

\* id.service.ts:14-18: records created in the transaction of their number
\* are numbered without a gap.
THEOREM NoGaps == Spec => []Gapless
  BY Invariance, PTL DEF IInv

\* The engine implements IdAllocator: each step of it is one Grant of the
\* abstract allocator, or none.
THEOREM Refinement == Spec => AllocatorSpec
  <1>1. Init => Allocator!Init
    BY DEF Init, Allocator!Init, Value, Disciplined
  <1>2. IInv /\ [Next]_vars => [Allocator!Next]_(Allocator!vars)
    <2> SUFFICES ASSUME IInv, [Next]_vars
                 PROVE  [Allocator!Next]_(Allocator!vars)
      OBVIOUS
    <2>1. ASSUME NEW c \in Callers, Advance(c)
          PROVE  Allocator!Grant(PrefixOf[c], c)
      BY <2>1 DEF Advance, Allocator!Grant, Kept
    <2>2. ASSUME Idle PROVE UNCHANGED Allocator!vars
      BY <2>2 DEF Idle, Allocator!vars, Kept
    <2>3. CASE UNCHANGED vars
      BY <2>3 DEF vars, Allocator!vars, Value
    <2>4. ASSUME NEW c \in Callers,
                 Step(c) \/ Rollback(c) \/ GiveUp(c) \/ Retry(c)
          PROVE  [Allocator!Next]_(Allocator!vars)
      <3>1. Idle \/ Advance(c)
        BY <2>4, StepAdvance DEF IInv
      <3>2. CASE Idle
        BY <2>2, <3>2
      <3>3. CASE Advance(c)
        BY <2>1, <3>3 DEF Advance, Allocator!Next
      <3>4. QED
        BY <3>1, <3>2, <3>3
    <2>5. QED
      BY <2>3, <2>4 DEF Next
  <1>3. QED
    BY <1>1, <1>2, Invariance, PTL DEF Spec, AllocatorSpec, Allocator!Spec
=============================================================================
