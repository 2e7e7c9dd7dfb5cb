---------------------------- MODULE IdAllocator ----------------------------
(***************************************************************************)
(* What the public-id engine promises (src/README.md, "Immutable public    *)
(* IDs"): for every prefix the numbers are handed out one after the other, *)
(* and a number handed out is never handed out again.                      *)
(***************************************************************************)
EXTENDS Integers

CONSTANTS Prefixes,  \* the id prefixes (JFEV, JFTK, ...)
          Callers,   \* the requests that want a number
          Start      \* the first number of every prefix

VARIABLES last,      \* last[p]: the last number handed out under p
          granted    \* the triples <<p, n, c>>: c was handed number n of p

vars == <<last, granted>>

Init == /\ last = [p \in Prefixes |-> Start - 1]
        /\ granted = {}

\* Caller c is handed the successor of the last number of p.
Grant(p, c) == /\ last' = [last EXCEPT ![p] = @ + 1]
               /\ granted' = granted \union {<<p, last[p] + 1, c>>}

Next == \E p \in Prefixes, c \in Callers : Grant(p, c)

Spec == Init /\ [][Next]_vars
=============================================================================
