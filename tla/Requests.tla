------------------------------ MODULE Requests ------------------------------
(***************************************************************************)
(* What every handler of the API shares: a request is one asynchronous     *)
(* function, and each "await" of it is a point where the other requests    *)
(* run. pc is the next statement of a request, saw what it has read so     *)
(* far. The process may die between two statements (requests in flight do  *)
(* not come back; an open transaction leaves nothing).                     *)
(***************************************************************************)
EXTENDS Integers, FiniteSets, FiniteSetsExt, Sequences, TLC

CONSTANTS Calls,       \* the requests there may be
          Input,       \* Input[c]: the operation of c, and its body
          Scenarios    \* what the database holds at first, and who may come

ASSUME RequestAssumption ==
    /\ IsFiniteSet(Calls)
    /\ \A w \in Scenarios : w.calls \subseteq Calls

VARIABLES sent,  \* sent[c]: the operation and the body of c, one of the calls that come
          pc,    \* pc[c]: the next statement of c
          saw    \* saw[c]: what c has read

request == <<sent, pc, saw>>

Op(c) == sent[c].op
Come == DOMAIN pc
Ended == {"done", "refused", "failed", "dead"}
Open == {c \in Come : pc[c] \notin Ended \union {"start"}}
Died == \E c \in Come : pc[c] = "dead"
Failed == \E c \in Come : pc[c] \in {"failed", "dead"}

RequestsInit(w) ==
    /\ sent = [c \in w.calls |-> Input[c]]
    /\ pc = [c \in w.calls |-> "start"]
    /\ saw = [c \in w.calls |-> <<>>]

Goto(c, label) == pc' = [pc EXCEPT ![c] = label] /\ UNCHANGED sent
Move(c, from, to) == pc[c] = from /\ Goto(c, to)

\* The table f after row k is written as v, there before or not.
Put(f, k, v) == [x \in DOMAIN f \union {k} |-> IF x = k THEN v ELSE f[x]]
\* ... or only when there is none.
PutNew(f, k, v) == IF k \in DOMAIN f THEN f ELSE Put(f, k, v)

\* A row after an update with the columns of body.
Updated(row, body) == [x \in DOMAIN row \union DOMAIN body |->
                           IF x \in DOMAIN body THEN body[x] ELSE row[x]]

\* c goes on with v in hand; or with what it had.
Keep(c, v) == saw' = [saw EXCEPT ![c] = v]
Forget == UNCHANGED saw

\* The process dies while c is between two statements.
Die(c) == /\ pc[c] \notin Ended \union {"start"}
          /\ Goto(c, "dead")
          /\ Forget
=============================================================================
