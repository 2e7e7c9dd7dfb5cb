----------------------------- MODULE ServiceDesk -----------------------------
(***************************************************************************)
(* The services devotees and guards use at the same time: tours, counters, *)
(* the gate, donations and the dining hall, over one pool of requests and  *)
(* one queue. They share no rows; what they share is the server that may   *)
(* die under any of them, and the worker.                                  *)
(***************************************************************************)
EXTENDS Tours, Counters, Gate, Donations, Bhojanshala

vars == <<request, allTour, counterVars, gateVars, donationVars, mealVars>>

Init == \E w \in Scenarios :
    /\ RequestsInit(w) /\ ToursInit(w) /\ CountersInit(w) /\ GateInit(w)
    /\ DonationsInit(w) /\ BhojanshalaInit(w)

Running == {c \in Come : pc[c] \notin Ended}

CallStep == \E c \in Running :
    \/ TourStep(c) /\ UNCHANGED <<counterVars, gateVars, donationVars, mealVars>>
    \/ CounterStep(c) /\ UNCHANGED <<allTour, gateVars, donationVars, mealVars>>
    \/ GateRequest(c) /\ UNCHANGED <<allTour, counterVars, donationVars, mealVars>>
    \/ DonationStep(c) /\ UNCHANGED <<allTour, counterVars, gateVars, mealVars>>
    \/ MealStep(c) /\ UNCHANGED <<allTour, counterVars, gateVars, donationVars>>

WorkerStep ==
    /\ \E m \in Pilgrims : CertificateWork(m)
    /\ UNCHANGED <<request, counterVars, gateVars, donationVars, mealVars>>

\* At most one request dies; a job fails as often as it may.
Fail ==
    \/ /\ ~Died
       /\ \E c \in Come : Die(c)
       /\ UNCHANGED <<allTour, counterVars, gateVars, donationVars, mealVars>>
    \/ /\ \E m \in Pilgrims : CertificateFails(m)
       /\ UNCHANGED <<request, counterVars, gateVars, donationVars, mealVars>>

Next == CallStep \/ WorkerStep \/ Fail

Spec == Init /\ [][Next]_vars

\* The server goes on with its requests and the worker with its jobs. Every
\* request and every job takes finitely many steps, so that fairness of the
\* two together is enough.
FairSpec == Spec /\ WF_vars(CallStep \/ WorkerStep)

\* Every part has its type.
DeskTypeOK == /\ TourTypeOK /\ CounterTypeOK /\ GateTypeOK
              /\ DonationTypeOK /\ MealTypeOK
=============================================================================
