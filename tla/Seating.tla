------------------------------ MODULE Seating ------------------------------
(***************************************************************************)
(* Reserved seating, src/src/modules/seating/seating.service.ts: a Redis   *)
(* key with a time to live holds a seat for one checkout, and the seat row *)
(* of the database mirrors it. The two stores are written one after the    *)
(* other, and the row is written by id, whatever it has become since it    *)
(* was read. Every action is one statement of one request, of the worker   *)
(* (the seat-lock-release queue) or of the clock.                          *)
(*                                                                         *)
(* A row is Available, Booked, or LOCKED; a LOCKED row is represented by   *)
(* its lockToken, which is the lockSeat call that made it, or Admin. The   *)
(* status UNAVAILABLE is read but never written by the code: left out.     *)
(***************************************************************************)
EXTENDS Integers, FiniteSets, Sequences

CONSTANTS Seats,
          Sessions,       \* checkout sessions (idempotency keys)
          LockCalls,      \* calls of lockSeat; each draws a token of its own
          ReleaseCalls,   \* calls of releaseSeat
          AdminLocks,     \* calls of adminLockSeat
          AdminReleases,  \* calls of adminReleaseSeat
          Purchases,      \* transactions that may confirm seats
          Requests,       \* every request, those of other modules included
          SeatOf,         \* the seat of a lock, admin lock or admin release
          TokenOf,        \* the token a releaseSeat call presents
          SessionOf,      \* the session of a lock call or purchase
          Workloads,      \* the sets of requests that may arrive together
          Available, Booked, Admin, NoToken, NoTx

AdminCalls == AdminLocks \union AdminReleases
SeatingCalls == LockCalls \union ReleaseCalls \union AdminCalls

ASSUME SeatingAssumption ==
    /\ SeatOf \in [LockCalls \union AdminCalls -> Seats]
    /\ TokenOf \in [ReleaseCalls -> LockCalls]
    /\ SessionOf \in [LockCalls \union Purchases -> Sessions]
    /\ SeatingCalls \union Purchases \subseteq Requests
    /\ SeatingCalls \intersect Purchases = {}
    /\ LockCalls \intersect (ReleaseCalls \union AdminCalls) = {}
    /\ ReleaseCalls \intersect AdminCalls = {}
    /\ AdminLocks \intersect AdminReleases = {}
    /\ Workloads \subseteq SUBSET Requests
    /\ {Available, Booked, Admin, NoToken} \intersect LockCalls = {}
    /\ Available # Booked /\ Booked # Admin /\ Admin # Available
    /\ NoTx \notin Purchases

VARIABLES
    seat,      \* seat[s]: the committed row of s
    rowTx,     \* rowTx[s]: the purchase whose open transaction booked s
    redis,     \* redis[s]: the token under the key seatlock:s
    elapsed,   \* tokens whose time to live is over
    jobs,      \* tokens with a delayed release job
    pc         \* pc[r]: the next step of request r

seatVars == <<seat, rowTx, redis, elapsed, jobs>>

SeatingInit ==
    /\ seat = [s \in Seats |-> Available]
    /\ rowTx = [s \in Seats |-> NoTx]
    /\ redis = [s \in Seats |-> NoToken]
    /\ elapsed = {}
    /\ jobs = {}
    /\ \E w \in Workloads :
           pc = [r \in Requests |-> IF r \in w THEN "start" ELSE "absent"]

Goto(r, label) == pc' = [pc EXCEPT ![r] = label]
Move(r, from, to) == pc[r] = from /\ Goto(r, to)

\* A statement of request r that writes the row of s: it waits for the
\* transaction that holds the row, then goes on to the next step.
WriteRow(r, s, value, next) ==
    /\ rowTx[s] = NoTx
    /\ seat' = [seat EXCEPT ![s] = value]
    /\ Goto(r, next)
    /\ UNCHANGED <<rowTx, redis, elapsed, jobs>>

-----------------------------------------------------------------------------
(* lockSeat *)

LockRead(l) ==
    /\ Move(l, "start", IF seat[SeatOf[l]] = Booked THEN "refused" ELSE "set")
    /\ UNCHANGED seatVars

\* SET NX EX
LockSet(l) ==
    LET s == SeatOf[l] IN
    /\ pc[l] = "set"
    /\ \/ /\ redis[s] = NoToken
          /\ redis' = [redis EXCEPT ![s] = l]
          /\ Goto(l, "write")
       \/ /\ redis[s] # NoToken
          /\ Goto(l, "refused")
          /\ UNCHANGED redis
    /\ UNCHANGED <<seat, rowTx, elapsed, jobs>>

LockWrite(l) == pc[l] = "write" /\ WriteRow(l, SeatOf[l], l, "enqueue")

LockEnqueue(l) ==
    /\ Move(l, "enqueue", "done")
    /\ jobs' = jobs \union {l}
    /\ UNCHANGED <<seat, rowTx, redis, elapsed>>

-----------------------------------------------------------------------------
(* The time to live, and the release job that follows it by 5 seconds *)

Elapse(l) ==
    /\ l \notin elapsed
    /\ l \in jobs \/ redis[SeatOf[l]] = l
    /\ elapsed' = elapsed \union {l}
    /\ redis' = [s \in Seats |-> IF redis[s] = l THEN NoToken ELSE redis[s]]
    /\ UNCHANGED <<seat, rowTx, jobs, pc>>

\* Mutation: the token is cleared and the status is not.
UnlockedTokenOnly(s, l) ==
    IF seat[s] = l THEN [seat EXCEPT ![s] = NoToken] ELSE seat

\* The row goes back to Available if it still carries token l.
Unlocked(s, l) == IF seat[s] = l THEN [seat EXCEPT ![s] = Available] ELSE seat

\* Mutation: the job writes the row only while the Redis key is still there.
ReleaseJobIfHeld(l) ==
    /\ l \in jobs \intersect elapsed
    /\ rowTx[SeatOf[l]] = NoTx
    /\ seat' = IF redis[SeatOf[l]] = l THEN Unlocked(SeatOf[l], l) ELSE seat
    /\ jobs' = jobs \ {l}
    /\ UNCHANGED <<rowTx, redis, elapsed, pc>>

\* releaseExpiredSeatLock. The key of an elapsed token is gone, so its
\* comparison with Redis finds nothing to delete.
ReleaseJob(l) ==
    /\ l \in jobs \intersect elapsed
    /\ rowTx[SeatOf[l]] = NoTx
    /\ seat' = Unlocked(SeatOf[l], l)
    /\ jobs' = jobs \ {l}
    /\ UNCHANGED <<rowTx, redis, elapsed, pc>>

-----------------------------------------------------------------------------
(* releaseSeat *)

ReleaseGet(r) ==
    LET l == TokenOf[r] IN
    /\ Move(r, "start", IF redis[SeatOf[l]] = l THEN "del" ELSE "done")
    /\ UNCHANGED seatVars

DelKey(r, s, next) ==
    /\ Move(r, "del", next)
    /\ redis' = [redis EXCEPT ![s] = NoToken]
    /\ UNCHANGED <<seat, rowTx, elapsed, jobs>>

ReleaseDel(r) == DelKey(r, SeatOf[TokenOf[r]], "write")

ReleaseWrite(r) ==
    LET s == SeatOf[TokenOf[r]] IN
    /\ pc[r] = "write"
    /\ WriteRow(r, s, Unlocked(s, TokenOf[r])[s], "done")

-----------------------------------------------------------------------------
(* adminLockSeat, adminReleaseSeat *)

AdminRead(a) ==
    /\ \/ seat[SeatOf[a]] = Booked /\ Move(a, "start", "refused")
       \/ /\ seat[SeatOf[a]] # Booked
          /\ Move(a, "start", IF a \in AdminLocks THEN "write" ELSE "del")
    /\ UNCHANGED seatVars

AdminLockWrite(a) ==
    a \in AdminLocks /\ pc[a] = "write" /\ WriteRow(a, SeatOf[a], Admin, "done")

AdminDel(a) == DelKey(a, SeatOf[a], "write")

AdminReleaseWrite(a) ==
    /\ a \in AdminReleases
    /\ pc[a] = "write"
    /\ WriteRow(a, SeatOf[a], Available, "done")

-----------------------------------------------------------------------------
(* confirmSeatBooking, inside the transaction of purchase p *)

\* The row read is LOCKED by the session of p. A transaction sees its own
\* write: a seat p booked already is refused.
MayConfirm(p, s) ==
    /\ rowTx[s] # p
    /\ seat[s] \in LockCalls
    /\ SessionOf[seat[s]] = SessionOf[p]

\* The row is written but not committed; the Redis key goes at once, and a
\* rollback does not bring it back.
ConfirmWrite(p, s) ==
    /\ rowTx[s] = NoTx
    /\ rowTx' = [rowTx EXCEPT ![s] = p]
    /\ redis' = [redis EXCEPT ![s] = NoToken]
    /\ UNCHANGED <<seat, elapsed, jobs>>

\* Commit and rollback of the seats p has written.
CommitSeats(p) ==
    /\ seat' = [s \in Seats |-> IF rowTx[s] = p THEN Booked ELSE seat[s]]
    /\ rowTx' = [s \in Seats |-> IF rowTx[s] = p THEN NoTx ELSE rowTx[s]]
    /\ UNCHANGED <<redis, elapsed, jobs>>

RollbackSeats(p) ==
    /\ rowTx' = [s \in Seats |-> IF rowTx[s] = p THEN NoTx ELSE rowTx[s]]
    /\ UNCHANGED <<seat, redis, elapsed, jobs>>

-----------------------------------------------------------------------------

\* The API process dies in the middle of a call that writes two stores.
Die(r) ==
    /\ pc[r] \in {"write", "enqueue"}
    /\ Goto(r, "dead")
    /\ UNCHANGED seatVars

SeatingNext ==
    \/ \E l \in LockCalls : \/ LockRead(l) \/ LockSet(l) \/ LockWrite(l)
                            \/ LockEnqueue(l) \/ Elapse(l) \/ ReleaseJob(l)
    \/ \E r \in ReleaseCalls : ReleaseGet(r) \/ ReleaseDel(r) \/ ReleaseWrite(r)
    \/ \E a \in AdminCalls : \/ AdminRead(a) \/ AdminLockWrite(a) \/ AdminDel(a)
                             \/ AdminReleaseWrite(a)
    \/ \E r \in SeatingCalls : Die(r)
=============================================================================
