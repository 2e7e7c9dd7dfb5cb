-------------------------------- MODULE Days --------------------------------
(***************************************************************************)
(* The date, as "new Date()" and the daily jobs see it: it passes while    *)
(* requests are under way.                                                 *)
(***************************************************************************)
EXTENDS Integers

CONSTANT LastDay    \* the bound of the clock

VARIABLE today

NextDay == today < LastDay /\ today' = today + 1
=============================================================================
