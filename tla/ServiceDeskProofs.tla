-------------------------- MODULE ServiceDeskProofs --------------------------
(***************************************************************************)
(* Proofs about ServiceDesk, for every set of members, rooms, days, calls  *)
(* and scenarios. The five services share the requests and the process     *)
(* that may die, and no rows: what a step of the others is to a service is *)
(* proved once (Apart), and then each service by itself.                   *)
(***************************************************************************)
EXTENDS ServiceDesk, SumProofs

TourOps == {"createTour", "updateTour", "transitionTour", "join", "leave", "medicalForm",
            "assignRoom", "count", "attendance"} \union PlainRows
CounterOps == {"delta"} \union ResetOps \union TypeOps
GateOps == {"checkIn", "checkOut"}
DonationOps == {"donate", "campaign", "donateOnline", "decide"}
MealOps == {"createPass", "scanPass", "approvePass", "cancelPass", "markPending", "addItem",
            "deleteItem", "addManager", "removeManager"}

\* The requests that come keep what they were sent with.
RequestInv ==
    /\ Come \subseteq Calls /\ sent = [c \in Come |-> Input[c]]
    /\ pc = [c \in Come |-> pc[c]] /\ saw = [c \in Come |-> saw[c]]

\* One request goes on, and no other is touched.
Goes(c) ==
    /\ UNCHANGED sent
    /\ \E l : pc' = [pc EXCEPT ![c] = l]
    /\ UNCHANGED saw \/ \E v : saw' = [saw EXCEPT ![c] = v]

\* What a step of another service is to the requests of these operations: they
\* stay where they are, or the process of one of them dies.
Apart(ops) ==
    \A d \in Come : Op(d) \in ops =>
        /\ saw'[d] = saw[d]
        /\ \/ pc'[d] = pc[d]
           \/ pc'[d] = "dead" /\ pc[d] \notin Ended \union {"start"}

-----------------------------------------------------------------------------
(* Requests *)

LEMMA TourGoes ==
  ASSUME NEW c, TourStep(c)
  PROVE  Goes(c) /\ Op(c) \in TourOps
  <1>1. Op(c) \in TourOps
    BY DEF TourStep, TourOps
  <1> USE DEF Goes, Goto, Move, Keep, Forget
  <1>2. CASE CreateTour(c) \/ UpdateTourRead(c) \/ UpdateTourWrite(c)
    BY <1>1, <1>2 DEF CreateTour, UpdateTourRead, UpdateTourWrite
  <1>3. CASE TransitionTour(c) \/ AnnounceTour(c) \/ AddParticipantRead(c) \/ AddParticipantCreate(c)
    BY <1>1, <1>3 DEF TransitionTour, AnnounceTour, AddParticipantRead, AddParticipantCreate
  <1>4. CASE DeleteParticipant(c) \/ SubmitMedicalForm(c) \/ WriteTourRow(c) \/ MarkAttendance(c)
    BY <1>1, <1>4 DEF DeleteParticipant, SubmitMedicalForm, WriteTourRow, MarkAttendance
  <1>5. CASE AssignRoomCount(c) \/ AssignRoomFind(c) \/ AssignRoomWrite(c) \/ AssignRoomLog(c)
    BY <1>1, <1>5 DEF AssignRoomCount, AssignRoomFind, AssignRoomWrite, AssignRoomLog
  <1>6. CASE EntryRead(c) \/ EntrySum(c) \/ EntrySave(c) \/ MilestoneFind(c)
    BY <1>1, <1>6 DEF EntryRead, EntrySum, EntrySave, MilestoneFind
  <1>7. CASE MilestoneCreate(c) \/ AddCertificateJob(c) \/ MarkEntryAttended(c) \/ ParticipantGone(c)
    BY <1>1, <1>7 DEF MilestoneCreate, AddCertificateJob, MarkEntryAttended, ParticipantGone
  <1>8. QED
    BY <1>2, <1>3, <1>4, <1>5, <1>6, <1>7 DEF TourStep

LEMMA CounterGoes ==
  ASSUME NEW c, CounterStep(c)
  PROVE  Goes(c) /\ Op(c) \in CounterOps
  <1>1. Op(c) \in CounterOps
    BY DEF CounterStep, CounterOps
  <1> USE DEF Goes, Goto, Move, Keep, Forget
  <1>2. CASE DeltaRead(c) \/ DeltaNotify(c) \/ DeltaCommit(c)
    BY <1>1, <1>2 DEF DeltaRead, DeltaNotify, DeltaCommit
  <1>3. CASE ResetRead(c) \/ ResetLog(c) \/ ResetWrite(c)
    BY <1>1, <1>3 DEF ResetRead, ResetLog, ResetWrite
  <1>4. CASE TypeRead(c) \/ TypeWrite(c)
    BY <1>1, <1>4 DEF TypeRead, TypeWrite
  <1>5. QED
    BY <1>2, <1>3, <1>4 DEF CounterStep

LEMMA GateGoes ==
  ASSUME NEW c, GateRequest(c)
  PROVE  Goes(c) /\ Op(c) \in GateOps
  <1>1. Op(c) \in GateOps
    BY DEF GateRequest, GateOps
  <1> USE DEF Goes, Goto, Move, Forget, Answer
  <1>2. CASE GateKey(c) \/ GateMember(c) \/ GateVehicle(c) \/ GateCreate(c)
    BY <1>1, <1>2 DEF GateKey, GateMember, GateVehicle, GateCreate
  <1>3. CASE CheckOutRead(c) \/ CheckOutWrite(c)
    BY <1>1, <1>3 DEF CheckOutRead, CheckOutWrite
  <1>4. QED
    BY <1>2, <1>3 DEF GateRequest

LEMMA DonationGoes ==
  ASSUME NEW c, DonationStep(c)
  PROVE  Goes(c) /\ Op(c) \in DonationOps
  <1> USE DEF Goes, Goto, Move, Forget, DonationOps
  <1>1. QED
    BY DEF DonationStep, SubmitManualDonation, SetCampaign, CampaignRead, CreateVerified,
           DecideRead, DecideWrite, ReceiptNumber, ReceiptCreate

LEMMA MealGoes ==
  ASSUME NEW c, MealStep(c)
  PROVE  Goes(c) /\ Op(c) \in MealOps
  <1>1. Op(c) \in MealOps
    BY DEF MealStep, MealOps
  <1> USE DEF Goes, Goto, Move, Forget
  <1>2. CASE CreatePass(c) \/ ScanPassRead(c) \/ ScanPassWrite(c) \/ ApproveRead(c) \/ ApproveWrite(c)
    BY <1>1, <1>2 DEF CreatePass, ScanPassRead, ScanPassWrite, ApproveRead, ApproveWrite
  <1>3. CASE CancelPassRead(c) \/ CancelPassWrite(c) \/ MarkPassPending(c)
    BY <1>1, <1>3 DEF CancelPassRead, CancelPassWrite, MarkPassPending
  <1>4. CASE AddMenuItem(c) \/ MenuItemRead(c) \/ DeleteMenuItem(c)
    BY <1>1, <1>4 DEF AddMenuItem, MenuItemRead, DeleteMenuItem
  <1>5. CASE \/ ManagerUser(c) \/ ManagerCreateUser(c) \/ ManagerCheck(c)
             \/ ManagerGrant(c) \/ RemoveManager(c)
    BY <1>1, <1>5 DEF ManagerUser, ManagerCreateUser, ManagerCheck, ManagerGrant, RemoveManager
  <1>6. QED
    BY <1>2, <1>3, <1>4, <1>5 DEF MealStep

\* The operations of the services are disjoint.
LEMMA OpsApart ==
  /\ TourOps \intersect (CounterOps \union GateOps \union DonationOps \union MealOps) = {}
  /\ CounterOps \intersect (GateOps \union DonationOps \union MealOps) = {}
  /\ GateOps \intersect (DonationOps \union MealOps) = {}
  /\ DonationOps \intersect MealOps = {}
  BY DEF TourOps, PlainRows, CounterOps, ResetOps, TypeOps, GateOps, DonationOps, MealOps

\* A request that goes on is no event for the operations it is not of.
LEMMA GoesApart ==
  ASSUME RequestInv, NEW c \in Come, Goes(c), NEW ops, Op(c) \notin ops
  PROVE  Apart(ops)
  <1> SUFFICES ASSUME NEW d \in Come, Op(d) \in ops
               PROVE  saw'[d] = saw[d] /\ pc'[d] = pc[d]
    BY DEF Apart
  <1>1. d # c
    OBVIOUS
  <1>2. pc'[d] = pc[d]
    BY <1>1 DEF RequestInv, Goes, Come
  <1>3. saw'[d] = saw[d]
    BY <1>1 DEF RequestInv, Goes, Come
  <1>4. QED
    BY <1>2, <1>3

LEMMA ComeFinite ==
  ASSUME RequestInv
  PROVE  IsFiniteSet(Come)
  <1>1. Come \in SUBSET Calls
    BY DEF RequestInv
  <1>2. IsFiniteSet(Calls)
    BY RequestAssumption
  <1>3. QED
    BY <1>1, <1>2, FS_Subset

LEMMA DeathApart ==
  ASSUME RequestInv, NEW c \in Come, Die(c), NEW ops
  PROVE  Apart(ops)
  <1> SUFFICES ASSUME NEW d \in Come
               PROVE  /\ saw'[d] = saw[d]
                      /\ \/ pc'[d] = pc[d]
                         \/ pc'[d] = "dead" /\ pc[d] \notin Ended \union {"start"}
    BY DEF Apart
  <1>1. saw'[d] = saw[d] /\ pc' = [pc EXCEPT ![c] = "dead"] /\ pc[c] \notin Ended \union {"start"}
    BY DEF Die, Goto, Forget
  <1>2. pc'[d] = IF d = c THEN "dead" ELSE pc[d]
    BY <1>1 DEF Come
  <1>3. QED
    BY <1>1, <1>2

LEMMA RequestStep ==
  ASSUME RequestInv, [Next]_vars
  PROVE  RequestInv' /\ Come' = Come /\ UNCHANGED sent
  <1>1. ASSUME NEW c \in Come, Goes(c)
        PROVE  RequestInv' /\ Come' = Come /\ UNCHANGED sent
    BY <1>1 DEF RequestInv, Goes, Come
  <1>2. ASSUME NEW c \in Come, Die(c)
        PROVE  RequestInv' /\ Come' = Come /\ UNCHANGED sent
    BY <1>2 DEF RequestInv, Die, Goto, Forget, Come
  <1>3. ASSUME UNCHANGED request
        PROVE  RequestInv' /\ Come' = Come /\ UNCHANGED sent
    BY <1>3 DEF RequestInv, request, Come
  <1>4. CASE CallStep
    BY <1>1, <1>4, TourGoes, CounterGoes, GateGoes, DonationGoes, MealGoes DEF CallStep, Running
  <1>5. QED
    BY <1>2, <1>3, <1>4 DEF Next, WorkerStep, Fail, vars

\* To each service a step is one of its own, or one it does not notice.
LEMMA Services ==
  ASSUME RequestInv, [Next]_vars
  PROVE  /\ \/ \E c \in Come : DonationStep(c)
            \/ UNCHANGED donationVars /\ Apart(DonationOps)
         /\ \/ \E c \in Come : MealStep(c)
            \/ UNCHANGED mealVars /\ Apart(MealOps)
         /\ \/ \E c \in Come : GateRequest(c)
            \/ UNCHANGED gateVars /\ Apart(GateOps)
         /\ \/ \E c \in Come : CounterStep(c)
            \/ UNCHANGED counterVars /\ Apart(CounterOps)
         /\ \/ \E c \in Come : TourStep(c)
            \/ \E m \in Pilgrims : (CertificateWork(m) \/ CertificateFails(m)) /\ UNCHANGED request
            \/ UNCHANGED allTour /\ Apart(TourOps)
  <1>1. ASSUME NEW c \in Come, Goes(c), NEW own, Op(c) \in own, NEW ops, own \intersect ops = {}
        PROVE  Apart(ops)
    BY <1>1, GoesApart
  <1>2. CASE CallStep
    <2>1. PICK c \in Come :
            \/ TourStep(c) /\ UNCHANGED <<counterVars, gateVars, donationVars, mealVars>>
            \/ CounterStep(c) /\ UNCHANGED <<allTour, gateVars, donationVars, mealVars>>
            \/ GateRequest(c) /\ UNCHANGED <<allTour, counterVars, donationVars, mealVars>>
            \/ DonationStep(c) /\ UNCHANGED <<allTour, counterVars, gateVars, mealVars>>
            \/ MealStep(c) /\ UNCHANGED <<allTour, counterVars, gateVars, donationVars>>
      BY <1>2 DEF CallStep, Running
    <2>2. CASE TourStep(c) /\ UNCHANGED <<counterVars, gateVars, donationVars, mealVars>>
      BY <1>1, <2>2, TourGoes, OpsApart
    <2>3. CASE CounterStep(c) /\ UNCHANGED <<allTour, gateVars, donationVars, mealVars>>
      BY <1>1, <2>3, CounterGoes, OpsApart
    <2>4. CASE GateRequest(c) /\ UNCHANGED <<allTour, counterVars, donationVars, mealVars>>
      BY <1>1, <2>4, GateGoes, OpsApart
    <2>5. CASE DonationStep(c) /\ UNCHANGED <<allTour, counterVars, gateVars, mealVars>>
      BY <1>1, <2>5, DonationGoes, OpsApart
    <2>6. CASE MealStep(c) /\ UNCHANGED <<allTour, counterVars, gateVars, donationVars>>
      BY <1>1, <2>6, MealGoes, OpsApart
    <2>7. QED
      BY <2>1, <2>2, <2>3, <2>4, <2>5, <2>6
  <1>3. UNCHANGED request => \A ops : Apart(ops)
    BY DEF request, Apart
  <1>4. CASE WorkerStep
    BY <1>3, <1>4 DEF WorkerStep
  <1>5. CASE Fail
    BY <1>3, <1>5, DeathApart DEF Fail
  <1>6. CASE UNCHANGED vars
    BY <1>3, <1>6 DEF vars
  <1>7. QED
    BY <1>2, <1>4, <1>5, <1>6 DEF Next

-----------------------------------------------------------------------------
(* Donations *)

Payers == {c \in Come : Op(c) \in {"donateOnline", "decide"}}

DonationTypes ==
    /\ donations \in [DOMAIN donations -> DonationStatuses]
    /\ receipts \subseteq DOMAIN donations /\ IsFiniteSet(receipts)
    /\ campaign \in BOOLEAN /\ receiptNumber \in Nat

\* A donation still to be created has no row.
NewDonations ==
    \A c \in Come : Op(c) \in {"donate", "donateOnline"} /\ pc[c] \in {"start", "create"}
        => c \notin DOMAIN donations

\* Two decisions under way on one donation are known as such.
Deciders == {c \in Open : Op(c) = "decide"}

DecidesAlone ==
    \A b, c \in Deciders : b # c /\ sent[b].donation = sent[c].donation
                              => sent[c].donation \in contested

\* Who decides alone decides what it has read.
DecidesPending ==
    \A c \in Deciders : pc[c] = "decide" =>
        /\ sent[c].donation \in DOMAIN donations
        /\ sent[c].donation \notin contested => donations[sent[c].donation] = "PENDING"

\* Who is to issue a receipt has verified the donation.
ReceiptDue ==
    \A c \in Payers : pc[c] \in {"number", "receipt"} =>
        /\ Target(c) \in DOMAIN donations
        /\ Target(c) \notin contested => donations[Target(c)] = "VERIFIED"

\* Every receipt, and every request about to write one, took a number.
NumberTaken ==
    receiptNumber >= Cardinality(receipts) + Cardinality({c \in Payers : pc[c] = "receipt"})

DonationInv ==
    /\ DonationTypes /\ NewDonations /\ DecidesAlone /\ DecidesPending /\ ReceiptDue
    /\ ReceiptIsForVerified

LEMMA InitDonations ==
  ASSUME NEW w \in Scenarios, RequestsInit(w), DonationsInit(w)
  PROVE  DonationInv /\ NumberTaken
  <1>1. /\ Come = w.calls /\ Come \subseteq Calls
        /\ \A c \in Come : pc[c] = "start" /\ c \notin DOMAIN donations
    BY RequestAssumption, DonationAssumption DEF RequestsInit, DonationsInit, Come
  <1>2. DonationTypes
    BY DonationAssumption, FS_EmptySet DEF DonationsInit, DonationTypes
  <1>3. NewDonations /\ DecidesAlone /\ DecidesPending /\ ReceiptDue /\ ReceiptIsForVerified
    BY <1>1 DEF NewDonations, DecidesAlone, DecidesPending, ReceiptDue, ReceiptIsForVerified,
                Deciders, Open, Payers, DonationsInit
  <1>4. {c \in Payers : pc[c] = "receipt"} = {}
    BY <1>1 DEF Payers
  <1>5. NumberTaken
    BY <1>4, FS_EmptySet DEF NumberTaken, DonationsInit
  <1>6. QED
    BY <1>2, <1>3, <1>5 DEF DonationInv

\* Another service's step leaves the donations as they are.
LEMMA DonationsUntouched ==
  ASSUME RequestInv, DonationInv, UNCHANGED donationVars, Apart(DonationOps),
         Come' = Come, UNCHANGED sent
  PROVE  DonationInv'
  <1>1. \A c \in Come : /\ Op(c)' = Op(c) /\ Target(c)' = Target(c)
                        /\ Op(c) \in DonationOps => \/ pc'[c] = pc[c]
                                                    \/ /\ pc'[c] = "dead"
                                                       /\ pc[c] \notin Ended \union {"start"}
    BY DEF Op, Target, Apart
  <1>2. \A c \in Deciders' : c \in Deciders /\ pc'[c] = pc[c]
    BY <1>1 DEF Deciders, Open, DonationOps, Ended
  <1>3. DonationTypes' /\ ReceiptIsForVerified'
    BY DEF DonationInv, DonationTypes, ReceiptIsForVerified, donationVars
  <1>4. NewDonations'
    BY <1>1 DEF DonationInv, NewDonations, donationVars, DonationOps
  <1>5. DecidesAlone' /\ DecidesPending'
    BY <1>2 DEF DonationInv, DecidesAlone, DecidesPending, donationVars
  <1>6. ReceiptDue'
    BY <1>1 DEF DonationInv, ReceiptDue, Payers, donationVars, DonationOps
  <1>7. QED
    BY <1>3, <1>4, <1>5, <1>6 DEF DonationInv

\* How a request of a donation moves the others: not at all.
LEMMA OnlyGoes ==
  ASSUME RequestInv, NEW c \in Come, NEW l, Goto(c, l)
  PROVE  /\ Come' = Come /\ UNCHANGED sent /\ pc'[c] = l
         /\ \A d \in Come : Op(d)' = Op(d) /\ (d # c => pc'[d] = pc[d])
  BY DEF RequestInv, Goto, Come, Op

\* A step of a request that is not at its decision changes no other decider.
LEMMA DecidersStay ==
  ASSUME RequestInv, DonationInv, NEW c \in Come, Op(c) # "decide" \/ pc[c] \notin {"start", "decide"},
         NEW l \in {"done", "receipt"}, Goto(c, l), UNCHANGED <<donations, contested>>,
         pc[c] \in Ended => Op(c) # "decide"
  PROVE  DecidesAlone' /\ DecidesPending'
  <1>1. /\ Come' = Come /\ UNCHANGED sent /\ pc'[c] = l
        /\ \A d \in Come : Op(d)' = Op(d) /\ (d # c => pc'[d] = pc[d])
    BY OnlyGoes
  <1>2. \A d \in Deciders' : d \in Deciders /\ (pc'[d] = "decide" => pc[d] = "decide")
    BY <1>1 DEF Deciders, Open, Ended
  <1>3. QED
    BY <1>1, <1>2 DEF DonationInv, DecidesAlone, DecidesPending

\* A request that goes on to a label where nothing is expected of it.
LEMMA DonationMoves ==
  ASSUME RequestInv, DonationInv, NEW c \in Come, Op(c) \in DonationOps,
         NEW l \in {"done", "refused", "failed", "create"}, Goto(c, l),
         l = "create" => pc[c] = "start" /\ Op(c) = "donateOnline",
         UNCHANGED donationVars
  PROVE  DonationInv'
  <1>1. /\ Come' = Come /\ UNCHANGED sent /\ pc'[c] = l
        /\ \A d \in Come : Op(d)' = Op(d) /\ Target(d)' = Target(d) /\ (d # c => pc'[d] = pc[d])
    BY OnlyGoes DEF Target, Op
  <1>2. DonationTypes' /\ ReceiptIsForVerified'
    BY DEF DonationInv, DonationTypes, ReceiptIsForVerified, donationVars
  <1>3. \A d \in Deciders' : d \in Deciders /\ pc'[d] = pc[d]
    BY <1>1 DEF Deciders, Open, Ended
  <1>4. DecidesAlone' /\ DecidesPending'
    BY <1>1, <1>3 DEF DonationInv, DecidesAlone, DecidesPending, donationVars
  <1>5. NewDonations' /\ ReceiptDue'
    BY <1>1 DEF DonationInv, NewDonations, ReceiptDue, Payers, donationVars
  <1>6. QED
    BY <1>2, <1>4, <1>5 DEF DonationInv

LEMMA DonationCreated ==
  ASSUME RequestInv, DonationInv, NEW c \in Come, Op(c) \in {"donate", "donateOnline"},
         pc[c] \in {"start", "create"}, NEW s \in DonationStatuses, NEW l \in {"done", "number"},
         Goto(c, l), donations' = Put(donations, c, s), l = "number" => s = "VERIFIED",
         UNCHANGED <<receipts, campaign, contested, receiptNumber>>
  PROVE  DonationInv'
  <1>1. c \notin DOMAIN donations
    BY DEF DonationInv, NewDonations
  <1>2. /\ DOMAIN donations' = DOMAIN donations \union {c} /\ donations'[c] = s
        /\ \A d \in DOMAIN donations : donations'[d] = donations[d] /\ d # c
        /\ donations' \in [DOMAIN donations' -> DonationStatuses]
    BY <1>1 DEF Put, DonationInv, DonationTypes
  <1>3. /\ Come' = Come /\ UNCHANGED sent /\ pc'[c] = l
        /\ \A d \in Come : Op(d)' = Op(d) /\ Target(d)' = Target(d) /\ (d # c => pc'[d] = pc[d])
    BY OnlyGoes DEF Target, Op
  <1>4. \A d \in Deciders' : d \in Deciders /\ pc'[d] = pc[d]
    BY <1>3 DEF Deciders, Open
  <1>5. DonationTypes' /\ ReceiptIsForVerified'
    BY <1>2 DEF DonationInv, DonationTypes, ReceiptIsForVerified
  <1>6. NewDonations'
    BY <1>2, <1>3 DEF DonationInv, NewDonations
  <1>7. DecidesAlone' /\ DecidesPending'
    BY <1>2, <1>3, <1>4 DEF DonationInv, DecidesAlone, DecidesPending
  <1>8. ReceiptDue'
    BY <1>2, <1>3 DEF DonationInv, ReceiptDue, Payers, Target
  <1>9. QED
    BY <1>5, <1>6, <1>7, <1>8 DEF DonationInv

LEMMA DonationStepInv ==
  ASSUME RequestInv, DonationInv, NEW c \in Come, DonationStep(c)
  PROVE  DonationInv'
  <1> USE DEF Move
  <1>1. \A l : Goto(c, l) =>
            /\ Come' = Come /\ UNCHANGED sent /\ pc'[c] = l
            /\ \A d \in Come : Op(d)' = Op(d) /\ Target(d)' = Target(d) /\ (d # c => pc'[d] = pc[d])
    BY OnlyGoes DEF Target, Op
  <1>2. CASE Op(c) = "donate" /\ SubmitManualDonation(c)
    <2>1. CASE SplitsMatch(c)
      BY <1>2, <2>1, DonationCreated DEF SubmitManualDonation, DonationStatuses
    <2>2. CASE ~SplitsMatch(c)
      <3>1. Goto(c, "refused") /\ UNCHANGED donationVars
        BY <1>2, <2>2 DEF SubmitManualDonation, donationVars
      <3>2. QED
        BY <1>2, <3>1, DonationMoves DEF DonationOps
    <2>3. QED
      BY <2>1, <2>2
  <1>3. CASE Op(c) = "donateOnline" /\ CreateVerified(c)
    BY <1>3, DonationCreated DEF CreateVerified, DonationStatuses
  <1>4. CASE Op(c) = "donateOnline" /\ CampaignRead(c)
    BY <1>4, DonationMoves DEF CampaignRead, DonationOps
  <1>5. CASE Op(c) = "campaign" /\ SetCampaign(c)
    <2>1. sent[c].active \in BOOLEAN
      BY <1>5, DonationAssumption DEF RequestInv, Op
    <2>2. /\ Goto(c, "done") /\ campaign' = sent[c].active
          /\ UNCHANGED <<donations, receipts, contested, receiptNumber>>
      BY <1>5 DEF SetCampaign
    <2>3. DonationTypes' /\ ReceiptIsForVerified'
      BY <2>1, <2>2 DEF DonationInv, DonationTypes, ReceiptIsForVerified
    <2>4. NewDonations' /\ ReceiptDue'
      BY <1>1, <1>5, <2>2 DEF DonationInv, NewDonations, ReceiptDue, Payers
    <2>5. DecidesAlone' /\ DecidesPending'
      BY <1>1, <1>5, <2>2, DecidersStay DEF Ended
    <2>6. QED
      BY <2>3, <2>4, <2>5 DEF DonationInv
  <1>6. CASE Op(c) = "decide" /\ DecideRead(c)
    <2> DEFINE d == sent[c].donation
    <2>1. PICK l \in {"decide", "refused"} :
              Goto(c, l) /\ (l = "decide" => donations[d] = "PENDING")
      BY <1>6 DEF DecideRead
    <2>2. /\ pc[c] = "start" /\ d \in DOMAIN donations
          /\ contested' = contested \union (IF Deciding(d) # {} THEN {d} ELSE {})
          /\ UNCHANGED <<donations, receipts, campaign, receiptNumber>>
      BY <1>6 DEF DecideRead
    <2>3. DonationTypes' /\ ReceiptIsForVerified'
      BY <2>2 DEF DonationInv, DonationTypes, ReceiptIsForVerified
    <2>4. NewDonations' /\ ReceiptDue'
      BY <1>1, <1>6, <2>1, <2>2 DEF DonationInv, NewDonations, ReceiptDue, Payers
    <2>5. \A b \in Deciders' \ {c} : b \in Deciders /\ pc'[b] = pc[b]
      BY <1>1, <2>1 DEF Deciders, Open
    <2>6. \A b \in Deciders : sent[b].donation = d => d \in contested'
      BY <2>2 DEF Deciding, Deciders
    <2>7. DecidesAlone'
      BY <1>1, <2>1, <2>2, <2>5, <2>6 DEF DonationInv, DecidesAlone
    <2>8. DecidesPending'
      BY <1>1, <2>1, <2>2, <2>5 DEF DonationInv, DecidesPending
    <2>9. QED
      BY <2>3, <2>4, <2>7, <2>8 DEF DonationInv
  <1>7. CASE Op(c) = "decide" /\ DecideWrite(c)
    <2> DEFINE d == sent[c].donation
    <2>1. PICK l \in {"number", "done"}, s \in DonationStatuses :
              /\ Goto(c, l) /\ (l = "number" => s = "VERIFIED")
              /\ donations' = [donations EXCEPT ![d] = s]
      BY <1>7 DEF DecideWrite, DonationStatuses
    <2>2. pc[c] = "decide" /\ UNCHANGED <<receipts, campaign, contested, receiptNumber>>
      BY <1>7 DEF DecideWrite
    <2>3. /\ d \in DOMAIN donations /\ Target(c) = d
          /\ d \notin contested => donations[d] = "PENDING" /\ d \notin receipts
      BY <1>7, <2>2 DEF DonationInv, DecidesPending, Deciders, Open, Ended, ReceiptIsForVerified, Target
    <2>4. DonationTypes' /\ ReceiptIsForVerified'
      BY <2>1, <2>2, <2>3 DEF DonationInv, DonationTypes, ReceiptIsForVerified
    <2>5. NewDonations'
      BY <1>1, <1>7, <2>1, <2>2 DEF DonationInv, NewDonations
    <2>6. c \in Deciders /\ \A b \in Deciders' : b \in Deciders /\ (b # c => pc'[b] = pc[b])
      BY <1>1, <1>7, <2>1, <2>2 DEF Deciders, Open, Ended
    <2>7. DecidesAlone' /\ DecidesPending'
      <3>1. DecidesAlone'
        BY <1>1, <2>1, <2>2, <2>6 DEF DonationInv, DecidesAlone
      <3>2. \A b \in Deciders \ {c} : sent[b].donation = d => d \in contested
        BY <2>6 DEF DonationInv, DecidesAlone
      <3>3. DecidesPending'
        BY <1>1, <2>1, <2>2, <2>3, <2>6, <3>2 DEF DonationInv, DecidesPending
      <3>4. QED
        BY <3>1, <3>3
    <2>8. ReceiptDue'
      <3> SUFFICES ASSUME NEW b \in Come, Op(b) \in {"donateOnline", "decide"},
                          pc'[b] \in {"number", "receipt"}
                   PROVE  /\ Target(b) \in DOMAIN donations
                          /\ Target(b) \notin contested => donations'[Target(b)] = "VERIFIED"
        BY <1>1, <2>1, <2>2 DEF ReceiptDue, Payers
      <3>1. CASE b = c
        BY <1>1, <2>1, <2>3, <3>1
      <3>2. CASE b # c
        <4>1. /\ Target(b) \in DOMAIN donations /\ pc[b] \in {"number", "receipt"}
              /\ Target(b) \notin contested => donations[Target(b)] = "VERIFIED"
          BY <1>1, <2>1, <3>2 DEF DonationInv, ReceiptDue, Payers
        <4>2. Target(b) # d \/ d \in contested
          BY <2>3, <4>1
        <4>3. QED
          BY <2>1, <4>1, <4>2
      <3>3. QED
        BY <3>1, <3>2
    <2>9. QED
      BY <2>4, <2>5, <2>7, <2>8 DEF DonationInv
  <1>8. CASE Op(c) \in {"donateOnline", "decide"} /\ ReceiptNumber(c)
    <2>1. /\ pc[c] = "number" /\ Goto(c, "receipt") /\ receiptNumber' = receiptNumber + 1
          /\ UNCHANGED <<donations, receipts, campaign, contested>>
      BY <1>8 DEF ReceiptNumber
    <2>2. DonationTypes' /\ ReceiptIsForVerified'
      BY <2>1 DEF DonationInv, DonationTypes, ReceiptIsForVerified
    <2>3. NewDonations' /\ ReceiptDue'
      BY <1>1, <1>8, <2>1 DEF DonationInv, NewDonations, ReceiptDue, Payers
    <2>4. DecidesAlone' /\ DecidesPending'
      BY <1>1, <1>8, <2>1, DecidersStay DEF Ended
    <2>5. QED
      BY <2>2, <2>3, <2>4 DEF DonationInv
  <1>9. CASE Op(c) \in {"donateOnline", "decide"} /\ ReceiptCreate(c)
    <2>1. CASE Target(c) \in receipts
      BY <1>9, <2>1, DonationMoves DEF ReceiptCreate, DonationOps, donationVars
    <2>2. CASE Target(c) \notin receipts
      <3>1. /\ pc[c] = "receipt" /\ Goto(c, "done") /\ receipts' = receipts \union {Target(c)}
            /\ UNCHANGED <<donations, campaign, contested, receiptNumber>>
        BY <1>9, <2>2 DEF ReceiptCreate
      <3>2. /\ Target(c) \in DOMAIN donations
            /\ Target(c) \notin contested => donations[Target(c)] = "VERIFIED"
        BY <1>9, <3>1 DEF DonationInv, ReceiptDue, Payers
      <3>3. DonationTypes'
        BY <3>1, <3>2, FS_AddElement DEF DonationInv, DonationTypes
      <3>4. ReceiptIsForVerified'
        BY <3>1, <3>2 DEF DonationInv, ReceiptIsForVerified
      <3>5. NewDonations' /\ ReceiptDue'
        BY <1>1, <1>9, <3>1 DEF DonationInv, NewDonations, ReceiptDue, Payers
      <3>6. DecidesAlone' /\ DecidesPending'
        BY <1>1, <1>9, <3>1, DecidersStay DEF Ended
      <3>7. QED
        BY <3>3, <3>4, <3>5, <3>6 DEF DonationInv
    <2>3. QED
      BY <2>1, <2>2
  <1>10. QED
    BY <1>2, <1>3, <1>4, <1>5, <1>6, <1>7, <1>8, <1>9 DEF DonationStep

\* A receipt number is taken before its receipt: none is used twice.
LEMMA NumberTakenStep ==
  ASSUME RequestInv, DonationInv, NumberTaken, [Next]_vars
  PROVE  NumberTaken'
  <1> DEFINE due == {c \in Payers : pc[c] = "receipt"}
  <1>1. /\ IsFiniteSet(Come) /\ IsFiniteSet(due) /\ Cardinality(due) \in Nat
        /\ IsFiniteSet(receipts) /\ Cardinality(receipts) \in Nat /\ receiptNumber \in Nat
    <2>1. IsFiniteSet(Come)
      BY ComeFinite
    <2>2. due \subseteq Come
      BY DEF Payers
    <2>3. IsFiniteSet(receipts) /\ receiptNumber \in Nat
      BY DEF DonationInv, DonationTypes
    <2> HIDE DEF due
    <2>4. QED
      BY <2>1, <2>2, <2>3, FS_Subset, FS_CardinalityType
  <1>2. Come' = Come /\ UNCHANGED sent
    BY RequestStep
  <1>3. ASSUME due' \subseteq due, UNCHANGED <<receipts, receiptNumber>>
        PROVE  NumberTaken'
    <2>1. Cardinality(due') <= Cardinality(due) /\ Cardinality(due') \in Nat
      BY <1>1, <1>3, FS_Subset, FS_CardinalityType
    <2>2. receiptNumber >= Cardinality(receipts) + Cardinality(due)
      BY DEF NumberTaken
    <2>3. receiptNumber' >= Cardinality(receipts') + Cardinality(due')
      BY <1>1, <1>3, <2>1, <2>2
    <2>4. QED
      BY <2>3 DEF NumberTaken
  <1>4. CASE UNCHANGED donationVars /\ Apart(DonationOps)
    BY <1>2, <1>3, <1>4 DEF donationVars, Apart, Payers, DonationOps, Op
  <1>5. ASSUME NEW c \in Come, DonationStep(c) PROVE NumberTaken'
    <2> USE DEF Move
    <2>1. \A l : Goto(c, l) =>
              /\ pc'[c] = l
              /\ \A d \in Come : Op(d)' = Op(d) /\ (d # c => pc'[d] = pc[d])
      BY OnlyGoes
    <2>2. CASE Op(c) \in {"donateOnline", "decide"} /\ ReceiptNumber(c)
      <3>1. /\ Goto(c, "receipt") /\ receiptNumber' = receiptNumber + 1
            /\ receipts' = receipts
        BY <2>2 DEF ReceiptNumber
      <3>2. due' \subseteq due \union {c}
        BY <1>2, <2>1, <3>1 DEF Payers
      <3>3. /\ IsFiniteSet(due \union {c}) /\ Cardinality(due \union {c}) \in Nat
            /\ Cardinality(due \union {c}) <= Cardinality(due) + 1
        BY <1>1, OneMore
      <3>4. Cardinality(due') <= Cardinality(due \union {c}) /\ Cardinality(due') \in Nat
        BY <3>2, <3>3, FS_Subset, FS_CardinalityType
      <3>5. receiptNumber >= Cardinality(receipts) + Cardinality(due)
        BY DEF NumberTaken
      <3>6. receiptNumber' >= Cardinality(receipts') + Cardinality(due')
        BY <1>1, <3>1, <3>3, <3>4, <3>5
      <3>7. QED
        BY <3>6 DEF NumberTaken
    <2>3. CASE Op(c) \in {"donateOnline", "decide"} /\ ReceiptCreate(c)
      <3>1. CASE Target(c) \in receipts
        BY <1>2, <1>3, <2>1, <2>3, <3>1 DEF ReceiptCreate, Payers
      <3>2. CASE Target(c) \notin receipts
        <4>1. /\ pc[c] = "receipt" /\ Goto(c, "done") /\ receipts' = receipts \union {Target(c)}
              /\ receiptNumber' = receiptNumber
          BY <2>3, <3>2 DEF ReceiptCreate
        <4>2. due' = due \ {c} /\ c \in due
          BY <1>2, <2>1, <2>3, <4>1 DEF Payers
        <4>3. Cardinality(due') = Cardinality(due) - 1
          BY <1>1, <4>2, FS_RemoveElement
        <4>4. Cardinality(receipts') <= Cardinality(receipts) + 1 /\ Cardinality(receipts') \in Nat
          BY <1>1, <4>1, OneMore
        <4>5. receiptNumber >= Cardinality(receipts) + Cardinality(due)
          BY DEF NumberTaken
        <4>6. receiptNumber' >= Cardinality(receipts') + Cardinality(due')
          BY <1>1, <4>1, <4>3, <4>4, <4>5
        <4>7. QED
          BY <4>6 DEF NumberTaken
      <3>3. QED
        BY <3>1, <3>2
    <2>4. CASE Op(c) = "donate" /\ SubmitManualDonation(c)
      BY <1>2, <1>3, <2>1, <2>4 DEF SubmitManualDonation, Payers
    <2>5. CASE Op(c) = "campaign" /\ SetCampaign(c)
      BY <1>2, <1>3, <2>1, <2>5 DEF SetCampaign, Payers
    <2>6. CASE Op(c) = "donateOnline" /\ (CampaignRead(c) \/ CreateVerified(c))
      BY <1>2, <1>3, <2>1, <2>6 DEF CampaignRead, CreateVerified, Payers, donationVars
    <2>7. CASE Op(c) = "decide" /\ (DecideRead(c) \/ DecideWrite(c))
      BY <1>2, <1>3, <2>1, <2>7 DEF DecideRead, DecideWrite, Payers
    <2>8. QED
      BY <1>5, <2>2, <2>3, <2>4, <2>5, <2>6, <2>7 DEF DonationStep
  <1>6. QED
    BY <1>4, <1>5, Services

-----------------------------------------------------------------------------
(* The dining hall *)

Served(p) == {s \in meals : s[1] = p}
Serving(p) == {c \in Come : Op(c) = "scanPass" /\ pc[c] = "serve" /\ Pass(c) = p}

MealTypes ==
    /\ passes \in [DOMAIN passes -> PassStatuses]
    /\ bookedTimes \in [DOMAIN passes -> Nat]
    /\ IsFiniteSet(meals) /\ \A s \in meals : s[1] \in DOMAIN passes

\* A pass still to be created has no row; one that is written by id has.
PassesExist ==
    \A c \in Come :
        /\ Op(c) = "createPass" /\ pc[c] = "start" => c \notin DOMAIN passes
        /\ /\ Op(c) \in {"scanPass", "approvePass", "cancelPass"}
           /\ pc[c] \in {"serve", "approve", "cancel"}
           => Pass(c) \in DOMAIN passes

ScansAlone ==
    \A p \in DOMAIN passes \ twoScans : \A b, c \in Serving(p) : b = c

\* A pass that may still feed, or is being scanned, was booked once more than
\* it was served.
MealsEarned ==
    \A p \in DOMAIN passes \ twoScans :
        /\ Cardinality(Served(p)) <= bookedTimes[p]
        /\ passes[p] = "BOOKED" \/ Serving(p) # {} => Cardinality(Served(p)) + 1 <= bookedTimes[p]

MealInv == MealTypes /\ PassesExist /\ ScansAlone /\ MealsEarned

\* A manager is a user.
ManagerInv ==
    /\ {r[1] : r \in managers} \subseteq users
    /\ \A c \in Come : Op(c) = "addManager" /\ pc[c] \in {"check", "grant"}
                           => sent[c].mobile \in users

LEMMA InitMeals ==
  ASSUME NEW w \in Scenarios, RequestsInit(w), BhojanshalaInit(w)
  PROVE  MealInv /\ ManagerInv
  <1>1. \A c \in Come : pc[c] = "start" /\ c \notin DOMAIN passes
    BY RequestAssumption, MealAssumption DEF RequestsInit, BhojanshalaInit, Come
  <1>2. MealTypes
    BY MealAssumption, FS_EmptySet DEF BhojanshalaInit, MealTypes
  <1>3. PassesExist /\ ScansAlone
    BY <1>1 DEF PassesExist, ScansAlone, Serving
  <1>4. MealsEarned
    <2>1. \A p : Served(p) = {} /\ Serving(p) = {}
      BY <1>1 DEF Served, Serving, BhojanshalaInit
    <2>2. \A p \in DOMAIN passes : bookedTimes[p] = IF passes[p] = "BOOKED" THEN 1 ELSE 0
      BY DEF BhojanshalaInit
    <2>3. QED
      BY <2>1, <2>2, FS_EmptySet DEF MealsEarned
  <1>5. ManagerInv
    BY <1>1 DEF ManagerInv, BhojanshalaInit
  <1>6. QED
    BY <1>2, <1>3, <1>4, <1>5 DEF MealInv

LEMMA ServedFinite ==
  ASSUME MealTypes, NEW p
  PROVE  IsFiniteSet(Served(p)) /\ Cardinality(Served(p)) \in Nat
  BY FS_Subset, FS_CardinalityType DEF MealTypes, Served

\* Nothing happens to a pass: what is enough of a step that serves and books none.
PassesStay ==
    /\ Come' = Come /\ UNCHANGED <<sent, passes, meals, bookedTimes>>
    /\ twoScans \subseteq twoScans'
    /\ \A c \in Come : Op(c) = "scanPass" /\ pc'[c] = "serve" => pc[c] = "serve"
    /\ \A c \in Come : Op(c) = "createPass" /\ pc'[c] = "start" => pc[c] = "start"
    /\ \A c \in Come : /\ Op(c) \in {"scanPass", "approvePass", "cancelPass"}
                       /\ pc'[c] \in {"serve", "approve", "cancel"}
                       => pc'[c] = pc[c] \/ Pass(c) \in DOMAIN passes

LEMMA MealFrame ==
  ASSUME MealInv, PassesStay
  PROVE  MealInv'
  <1> USE DEF PassesStay
  <1>1. \A p : Serving(p)' \subseteq Serving(p) /\ Served(p)' = Served(p)
    BY DEF Serving, Served, Op, Pass
  <1>2. MealTypes'
    BY DEF MealInv, MealTypes
  <1>3. PassesExist'
    BY DEF MealInv, PassesExist, Op, Pass
  <1>4. ScansAlone'
    BY <1>1 DEF MealInv, ScansAlone
  <1>5. MealsEarned'
    BY <1>1 DEF MealInv, MealsEarned
  <1>6. QED
    BY <1>2, <1>3, <1>4, <1>5 DEF MealInv

LEMMA MealsUntouched ==
  ASSUME RequestInv, MealInv, UNCHANGED mealVars, Apart(MealOps), Come' = Come, UNCHANGED sent
  PROVE  MealInv'
  <1>1. PassesStay
    BY DEF PassesStay, Apart, MealOps, mealVars, Op
  <1>2. QED
    BY <1>1, MealFrame

\* A status is written by id to a pass that exists: it may be booked once more,
\* and is then counted as such.
LEMMA PassWritten ==
  ASSUME RequestInv, MealInv, NEW c \in Come,
         Op(c) \in {"approvePass", "cancelPass", "markPending"}, Goto(c, "done"),
         Pass(c) \in DOMAIN passes, NEW s \in PassStatuses,
         passes' = [passes EXCEPT ![Pass(c)] = s],
         \/ s # "BOOKED" /\ UNCHANGED bookedTimes
         \/ bookedTimes' = Booked(Pass(c)),
         UNCHANGED <<meals, twoScans>>
  PROVE  MealInv'
  <1>1. /\ Come' = Come /\ UNCHANGED sent /\ pc'[c] = "done"
        /\ \A d \in Come : Op(d)' = Op(d) /\ Pass(d)' = Pass(d) /\ (d # c => pc'[d] = pc[d])
    BY OnlyGoes DEF Pass
  <1>2. /\ DOMAIN passes' = DOMAIN passes
        /\ \A p \in DOMAIN passes : /\ passes'[p] = IF p = Pass(c) THEN s ELSE passes[p]
                                    /\ bookedTimes[p] \in Nat /\ bookedTimes'[p] \in Nat
                                    /\ bookedTimes'[p] >= bookedTimes[p]
                                    /\ p = Pass(c) /\ s = "BOOKED" => bookedTimes'[p] = bookedTimes[p] + 1
    BY DEF MealInv, MealTypes, Booked
  <1>3. \A p : Serving(p)' = Serving(p) /\ Served(p)' = Served(p)
    BY <1>1 DEF Serving, Served
  <1>4. MealTypes'
    <2>1. bookedTimes' \in [DOMAIN passes -> Nat]
      BY DEF MealInv, MealTypes, Booked
    <2>2. QED
      BY <1>2, <2>1 DEF MealInv, MealTypes
  <1>5. PassesExist'
    BY <1>1, <1>2 DEF MealInv, PassesExist
  <1>6. ScansAlone'
    BY <1>2, <1>3 DEF MealInv, ScansAlone
  <1>7. MealsEarned'
    <2> SUFFICES ASSUME NEW p \in DOMAIN passes \ twoScans
                 PROVE  /\ Cardinality(Served(p)) <= bookedTimes'[p]
                        /\ passes'[p] = "BOOKED" \/ Serving(p) # {}
                              => Cardinality(Served(p)) + 1 <= bookedTimes'[p]
      BY <1>2, <1>3 DEF MealsEarned
    <2>1. /\ Cardinality(Served(p)) <= bookedTimes[p] /\ Cardinality(Served(p)) \in Nat
          /\ passes[p] = "BOOKED" \/ Serving(p) # {} => Cardinality(Served(p)) + 1 <= bookedTimes[p]
      BY ServedFinite DEF MealInv, MealsEarned
    <2>2. QED
      BY <1>2, <2>1
  <1>8. QED
    BY <1>4, <1>5, <1>6, <1>7 DEF MealInv

LEMMA PassCreated ==
  ASSUME RequestInv, MealInv, NEW c \in Come, Op(c) = "createPass", CreatePass(c)
  PROVE  MealInv'
  <1> DEFINE s == IF sent[c].byIdentifier THEN "PENDING" ELSE "BOOKED"
             n == IF sent[c].byIdentifier THEN 0 ELSE 1
  <1>1. /\ pc[c] = "start" /\ Goto(c, "done") /\ UNCHANGED <<meals, twoScans>>
        /\ passes' = Put(passes, c, s) /\ bookedTimes' = Put(bookedTimes, c, n)
    BY DEF CreatePass, Move
  <1>2. s \in PassStatuses /\ n \in Nat /\ (s = "BOOKED" => n = 1)
    BY DEF PassStatuses
  <1> HIDE DEF s, n
  <1>3. c \notin DOMAIN passes
    BY <1>1 DEF MealInv, PassesExist
  <1>4. /\ DOMAIN passes' = DOMAIN passes \union {c} /\ passes'[c] = s /\ bookedTimes'[c] = n
        /\ \A p \in DOMAIN passes : passes'[p] = passes[p] /\ bookedTimes'[p] = bookedTimes[p]
        /\ bookedTimes' \in [DOMAIN passes \union {c} -> Nat]
        /\ passes' \in [DOMAIN passes \union {c} -> PassStatuses]
    BY <1>1, <1>2, <1>3 DEF Put, MealInv, MealTypes
  <1>5. /\ Come' = Come /\ UNCHANGED sent /\ pc'[c] = "done"
        /\ \A d \in Come : Op(d)' = Op(d) /\ Pass(d)' = Pass(d) /\ (d # c => pc'[d] = pc[d])
    BY <1>1, OnlyGoes DEF Pass
  <1>6. \A p : Serving(p)' = Serving(p) /\ Served(p)' = Served(p)
    BY <1>1, <1>5 DEF Serving, Served
  <1>7. Serving(c) = {} /\ Served(c) = {}
    BY <1>3 DEF Serving, Served, MealInv, PassesExist, MealTypes
  <1>8. MealTypes'
    BY <1>1, <1>4 DEF MealInv, MealTypes
  <1>9. PassesExist'
    BY <1>4, <1>5 DEF MealInv, PassesExist
  <1>10. ScansAlone'
    BY <1>1, <1>4, <1>6, <1>7 DEF MealInv, ScansAlone
  <1>11. MealsEarned'
    BY <1>1, <1>2, <1>4, <1>6, <1>7, FS_EmptySet DEF MealInv, MealsEarned
  <1>12. QED
    BY <1>8, <1>9, <1>10, <1>11 DEF MealInv

LEMMA PassRead ==
  ASSUME RequestInv, MealInv, NEW c \in Come, Op(c) = "scanPass", ScanPassRead(c)
  PROVE  MealInv'
  <1>0. PICK q : q = Pass(c)
    OBVIOUS
  <1>1. PICK l \in {"serve", "refused"} : Goto(c, l) /\ (l = "serve" => passes[q] = "BOOKED")
    BY <1>0 DEF ScanPassRead, Move
  <1>2. /\ pc[c] = "start" /\ q \in DOMAIN passes /\ UNCHANGED <<passes, meals, bookedTimes>>
        /\ twoScans \subseteq twoScans'
        /\ (\E d \in Open : Op(d) = "scanPass" /\ Pass(d) = q) => q \in twoScans'
    BY <1>0 DEF ScanPassRead, Move
  <1>3. /\ Come' = Come /\ UNCHANGED sent /\ pc'[c] = l
        /\ \A d \in Come : Op(d)' = Op(d) /\ Pass(d)' = Pass(d) /\ (d # c => pc'[d] = pc[d])
    BY <1>1, OnlyGoes DEF Pass
  <1>4. CASE l = "refused"
    <2>1. PassesStay
      BY <1>0, <1>2, <1>3, <1>4 DEF PassesStay
    <2>2. QED
      BY <2>1, MealFrame
  <1>5. CASE l = "serve"
    <2>1. \A p : p # q => Serving(p)' = Serving(p)
      BY <1>0, <1>3 DEF Serving
    <2>2. Serving(q)' = Serving(q) \union {c} /\ \A p : Served(p)' = Served(p)
      BY <1>0, <1>2, <1>3, <1>5 DEF Serving, Served
    <2>3. Serving(q) # {} => q \in twoScans'
      BY <1>0, <1>2 DEF Serving, Open, Ended
    <2>4. MealTypes'
      BY <1>2 DEF MealInv, MealTypes
    <2>5. PassesExist'
      BY <1>0, <1>2, <1>3 DEF MealInv, PassesExist
    <2>6. ScansAlone'
      <3> SUFFICES ASSUME NEW p \in DOMAIN passes \ twoScans', NEW a \in Serving(p)', NEW b \in Serving(p)'
                   PROVE  a = b
        BY <1>2 DEF ScansAlone
      <3>1. \A d, e \in Serving(p) : d = e
        BY <1>2 DEF MealInv, ScansAlone
      <3>2. QED
        BY <2>1, <2>2, <2>3, <3>1
    <2>7. MealsEarned'
      BY <1>1, <1>2, <1>5, <2>1, <2>2 DEF MealInv, MealsEarned
    <2>8. QED
      BY <2>4, <2>5, <2>6, <2>7 DEF MealInv
  <1>6. QED
    BY <1>1, <1>4, <1>5

\* A scan serves one meal, which a pass not scanned twice has left.
LEMMA PassScanned ==
  ASSUME RequestInv, MealInv, NEW c \in Come, Op(c) = "scanPass", ScanPassWrite(c)
  PROVE  MealInv'
  <1>0. PICK q : q = Pass(c)
    OBVIOUS
  <1>1. /\ pc[c] = "serve" /\ Goto(c, "done") /\ UNCHANGED <<bookedTimes, twoScans>>
        /\ passes' = [passes EXCEPT ![q] = "SCANNED"] /\ meals' = meals \union {<<q, c>>}
    BY <1>0 DEF ScanPassWrite, Move
  <1>2. /\ Come' = Come /\ UNCHANGED sent /\ pc'[c] = "done"
        /\ \A d \in Come : Op(d)' = Op(d) /\ Pass(d)' = Pass(d) /\ (d # c => pc'[d] = pc[d])
    BY <1>1, OnlyGoes DEF Pass
  <1>3. q \in DOMAIN passes /\ c \in Serving(q)
    BY <1>0, <1>1 DEF MealInv, PassesExist, Serving
  <1>4. /\ DOMAIN passes' = DOMAIN passes
        /\ \A p \in DOMAIN passes : passes'[p] = IF p = q THEN "SCANNED" ELSE passes[p]
    BY <1>1 DEF MealInv, MealTypes
  <1>5. /\ \A p : p # q => Serving(p)' = Serving(p) /\ Served(p)' = Served(p)
        /\ Serving(q)' = Serving(q) \ {c} /\ Served(q)' = Served(q) \union {<<q, c>>}
    BY <1>0, <1>1, <1>2 DEF Serving, Served
  <1>6. MealTypes'
    <2>1. IsFiniteSet(meals') /\ \A s \in meals' : s[1] \in DOMAIN passes
      <3>1. IsFiniteSet(meals)
        BY DEF MealInv, MealTypes
      <3>2. IsFiniteSet(meals \union {<<q, c>>})
        BY <3>1, FS_AddElement
      <3>3. QED
        BY <1>1, <1>3, <3>2 DEF MealInv, MealTypes
    <2>2. QED
      BY <1>1, <1>4, <2>1 DEF MealInv, MealTypes, PassStatuses
  <1>7. PassesExist'
    BY <1>2, <1>4 DEF MealInv, PassesExist
  <1>8. ScansAlone'
    <2> SUFFICES ASSUME NEW p \in DOMAIN passes \ twoScans, NEW a \in Serving(p)', NEW b \in Serving(p)'
                 PROVE  a = b
      BY <1>1, <1>4 DEF ScansAlone
    <2>1. \A d, e \in Serving(p) : d = e
      BY DEF MealInv, ScansAlone
    <2>2. QED
      BY <1>5, <2>1
  <1>9. MealsEarned'
    <2>1. ASSUME q \notin twoScans
          PROVE  Serving(q)' = {} /\ Cardinality(Served(q)') <= bookedTimes[q]
      <3>1. Serving(q)' = {}
        BY <1>3, <1>5, <2>1 DEF MealInv, ScansAlone
      <3>2. Cardinality(Served(q)) + 1 <= bookedTimes[q] /\ bookedTimes[q] \in Nat
        BY <1>3, <2>1 DEF MealInv, MealsEarned, MealTypes
      <3>3. /\ Cardinality(Served(q)') <= Cardinality(Served(q)) + 1
            /\ Cardinality(Served(q)') \in Nat /\ Cardinality(Served(q)) \in Nat
        BY <1>5, ServedFinite, OneMore DEF MealInv
      <3>4. QED
        BY <3>1, <3>2, <3>3
    <2> SUFFICES ASSUME NEW p \in DOMAIN passes \ twoScans
                 PROVE  /\ Cardinality(Served(p)') <= bookedTimes[p]
                        /\ passes'[p] = "BOOKED" \/ Serving(p)' # {}
                              => Cardinality(Served(p)') + 1 <= bookedTimes[p]
      BY <1>1, <1>4 DEF MealsEarned
    <2>2. CASE p = q
      BY <1>4, <2>1, <2>2
    <2>3. CASE p # q
      BY <1>4, <1>5, <2>3 DEF MealInv, MealsEarned
    <2>4. QED
      BY <2>2, <2>3
  <1>10. QED
    BY <1>6, <1>7, <1>8, <1>9 DEF MealInv

LEMMA MealStepInv ==
  ASSUME RequestInv, MealInv, NEW c \in Come, MealStep(c)
  PROVE  MealInv'
  <1>1. \A l : Goto(c, l) =>
            /\ Come' = Come /\ UNCHANGED sent /\ pc'[c] = l
            /\ \A d \in Come : Op(d)' = Op(d) /\ Pass(d)' = Pass(d) /\ (d # c => pc'[d] = pc[d])
    BY OnlyGoes DEF Pass
  <1> USE DEF Move
  <1>2. CASE Op(c) = "createPass" /\ CreatePass(c)
    BY <1>2, PassCreated
  <1>3. CASE Op(c) = "scanPass" /\ (ScanPassRead(c) \/ ScanPassWrite(c))
    BY <1>3, PassRead, PassScanned
  <1>4. CASE Op(c) = "approvePass" /\ ApproveWrite(c)
    BY <1>4, PassWritten DEF ApproveWrite, PassStatuses, MealInv, PassesExist
  <1>5. CASE Op(c) = "cancelPass" /\ CancelPassWrite(c)
    BY <1>5, PassWritten DEF CancelPassWrite, PassStatuses, MealInv, PassesExist
  <1>6. CASE Op(c) = "markPending" /\ MarkPassPending(c)
    BY <1>6, PassWritten DEF MarkPassPending, PassStatuses
  <1>7. ASSUME \/ Op(c) = "approvePass" /\ ApproveRead(c)
               \/ Op(c) = "cancelPass" /\ CancelPassRead(c)
               \/ Op(c) = "addItem" /\ AddMenuItem(c)
               \/ Op(c) = "deleteItem" /\ (MenuItemRead(c) \/ DeleteMenuItem(c))
               \/ Op(c) = "addManager" /\ (ManagerUser(c) \/ ManagerCreateUser(c))
               \/ Op(c) = "addManager" /\ (ManagerCheck(c) \/ ManagerGrant(c))
               \/ Op(c) = "removeManager" /\ RemoveManager(c)
        PROVE  PassesStay
    <2>1. UNCHANGED <<passes, meals, bookedTimes, twoScans>> /\ \E l : Goto(c, l)
      BY <1>7 DEF ApproveRead, CancelPassRead, AddMenuItem, MenuItemRead, DeleteMenuItem, mealVars,
                  ManagerUser, ManagerCreateUser, ManagerCheck, ManagerGrant, RemoveManager
    <2>2. Come' = Come /\ UNCHANGED sent /\ \A d \in Come : d # c => pc'[d] = pc[d]
      BY <1>1, <2>1
    <2>3. CASE Op(c) \notin {"approvePass", "cancelPass"}
      BY <1>7, <2>1, <2>2, <2>3 DEF PassesStay
    <2>4. CASE Op(c) = "approvePass" /\ ApproveRead(c)
      BY <2>1, <2>2, <2>4 DEF PassesStay, ApproveRead
    <2>5. CASE Op(c) = "cancelPass" /\ CancelPassRead(c)
      BY <2>1, <2>2, <2>5 DEF PassesStay, CancelPassRead
    <2>6. QED
      BY <1>7, <2>3, <2>4, <2>5
  <1>8. QED
    BY <1>2, <1>3, <1>4, <1>5, <1>6, <1>7, MealFrame DEF MealStep

\* Who is made a manager was a user before.
LEMMA ManagerStepInv ==
  ASSUME RequestInv, ManagerInv, [Next]_vars
  PROVE  ManagerInv'
  <1>1. Come' = Come /\ UNCHANGED sent
    BY RequestStep
  <1>2. CASE UNCHANGED mealVars /\ Apart(MealOps)
    BY <1>1, <1>2 DEF ManagerInv, mealVars, Apart, MealOps, Op
  <1>3. ASSUME NEW c \in Come, MealStep(c) PROVE ManagerInv'
    <2> USE DEF Move
    <2>1. \A l : Goto(c, l) =>
              /\ pc'[c] = l
              /\ \A d \in Come : Op(d)' = Op(d) /\ (d # c => pc'[d] = pc[d])
      BY OnlyGoes
    <2>2. CASE Op(c) = "addManager" /\ (ManagerUser(c) \/ ManagerCheck(c))
      BY <1>1, <2>1, <2>2 DEF ManagerUser, ManagerCheck, ManagerInv, mealVars
    <2>3. CASE Op(c) = "addManager" /\ (ManagerCreateUser(c) \/ ManagerGrant(c))
      BY <1>1, <2>1, <2>3 DEF ManagerCreateUser, ManagerGrant, ManagerInv
    <2>4. CASE Op(c) = "removeManager" /\ RemoveManager(c)
      BY <1>1, <2>1, <2>4 DEF RemoveManager, ManagerInv
    <2>5. CASE Op(c) # "addManager" /\ UNCHANGED <<managers, users>>
      BY <1>1, <1>3, <2>5, MealGoes DEF Goes, ManagerInv, Op, Come
    <2>6. QED
      BY <1>3, <2>2, <2>3, <2>4, <2>5
         DEF MealStep, CreatePass, ScanPassRead, ScanPassWrite, ApproveRead, ApproveWrite,
             CancelPassRead, CancelPassWrite, MarkPassPending, AddMenuItem, MenuItemRead,
             DeleteMenuItem, mealVars
  <1>4. QED
    BY <1>2, <1>3, Services

-----------------------------------------------------------------------------
(* The gate *)

Asking == {c \in GateCalls : pc[c] \in {"start", "member", "vehicle", "create"}}

GateTypes ==
    /\ entries \subseteq VisitorEntries /\ IsFiniteSet(entries)
    /\ answers \in [Come -> Seq({"ok", "replayed", "error"})]
    /\ \A c \in GateCalls : Len(answers[c]) <= Len(sent[c].entries)
    /\ \A c \in Asking : Len(answers[c]) < Len(sent[c].entries)

UniqueKeys == \A e, f \in entries : e.key = f.key => e = f

\* Two check-ins of a member or a vehicle at once are known as such.
RivalsAreKnown ==
    \A b, c \in Asking : b # c /\ pc[b] # "start" /\ pc[c] # "start"
        => Who(AtGate(b)) \intersect Who(AtGate(c)) \subseteq crowded

\* What a check-in has looked for and not found is not there, unless crowded.
LookedUp ==
    \A c \in Asking : \A x \in Inside :
        LET e == AtGate(c) IN
        /\ pc[c] \in {"vehicle", "create"} /\ x.m = e.m => e.m \in crowded \union {NoOne}
        /\ pc[c] = "create" /\ x.vehicle = e.vehicle => e.vehicle \in crowded \union {NoVehicle}

GateInv == GateTypes /\ UniqueKeys /\ RivalsAreKnown /\ LookedUp /\ OneActiveEntry

LEMMA InitGate ==
  ASSUME NEW w \in Scenarios, RequestsInit(w), GateInit(w)
  PROVE  GateInv /\ SyncedOnce
  <1>1. /\ Come \subseteq Calls /\ crowded = {} /\ entries = w.entries
        /\ \A c \in Come : pc[c] = "start" /\ Op(c) = Input[c].op /\ sent[c] = Input[c]
        /\ answers = [c \in Come |-> <<>>]
    BY RequestAssumption DEF RequestsInit, GateInit, Come, Op
  <1>2. \A c \in GateCalls : sent[c].entries \in Seq(Arrivals) /\ sent[c].entries # <<>>
    BY <1>1, GateAssumption DEF GateCalls
  <1>3. GateTypes
    <2>1. entries \subseteq VisitorEntries /\ IsFiniteSet(entries)
      BY <1>1, GateAssumption
    <2>2. answers \in [Come -> Seq({"ok", "replayed", "error"})]
      BY <1>1
    <2>3. \A c \in GateCalls : Len(answers[c]) = 0 /\ Len(sent[c].entries) > 0
      BY <1>1, <1>2 DEF GateCalls
    <2>4. \A c \in GateCalls : Len(sent[c].entries) \in Nat
      BY <1>2
    <2>5. QED
      BY <2>1, <2>2, <2>3, <2>4 DEF GateTypes, Asking
  <1>4. UniqueKeys
    BY <1>1, GateAssumption DEF UniqueKeys
  <1>5. RivalsAreKnown /\ LookedUp
    BY <1>1 DEF RivalsAreKnown, LookedUp, Asking, GateCalls
  <1>6. OneActiveEntry
    BY <1>1, GateAssumption DEF OneActiveEntry, Inside, Who
  <1>7. SyncedOnce
    <2>1. \A c \in GateCalls : DOMAIN answers[c] = {}
      BY <1>1 DEF GateCalls
    <2>2. QED
      BY <2>1 DEF SyncedOnce
  <1>8. QED
    BY <1>3, <1>4, <1>5, <1>6, <1>7 DEF GateInv

\* The entry that a batch is at is one of it.
LEMMA AtGateType ==
  ASSUME RequestInv, GateTypes, NEW c \in Asking
  PROVE  /\ AtGate(c) \in Arrivals /\ Len(answers[c]) \in Nat
         /\ sent[c].entries \in Seq(Arrivals) /\ c \in GateCalls /\ c \in Come
  <1>1. c \in GateCalls /\ c \in Come /\ c \in Calls /\ sent[c] = Input[c]
    BY DEF Asking, GateCalls, RequestInv
  <1>2. sent[c].entries \in Seq(Arrivals)
    BY <1>1, GateAssumption DEF GateCalls, Op
  <1>3. answers[c] \in Seq({"ok", "replayed", "error"}) /\ Len(answers[c]) < Len(sent[c].entries)
    BY <1>1 DEF GateTypes
  <1>4. Len(answers[c]) \in Nat /\ Len(answers[c]) + 1 \in 1 .. Len(sent[c].entries)
    BY <1>2, <1>3
  <1>5. AtGate(c) \in Arrivals
    BY <1>2, <1>4 DEF AtGate
  <1>6. QED
    BY <1>1, <1>2, <1>4, <1>5

\* An answer is about the entry the batch is at, and the last one ends it.
LEMMA Answered ==
  ASSUME RequestInv, GateTypes, NEW c \in Asking, NEW word \in {"ok", "replayed", "error"},
         Answer(c, word)
  PROVE  /\ Come' = Come /\ UNCHANGED sent
         /\ answers' \in [Come -> Seq({"ok", "replayed", "error"})]
         /\ \A d \in Come : d # c => pc'[d] = pc[d] /\ answers'[d] = answers[d]
         /\ pc'[c] \in {"start", "done", "refused"}
         /\ Len(answers'[c]) = Len(answers[c]) + 1 /\ Len(answers'[c]) <= Len(sent[c].entries)
         /\ pc'[c] = "start" => Len(answers'[c]) < Len(sent[c].entries)
         /\ \A i \in DOMAIN answers'[c] :
               \/ i \in DOMAIN answers[c] /\ answers'[c][i] = answers[c][i]
               \/ i = Len(answers[c]) + 1 /\ answers'[c][i] = word
  <1>1. /\ c \in Come /\ sent[c].entries \in Seq(Arrivals)
        /\ answers[c] \in Seq({"ok", "replayed", "error"}) /\ Len(answers[c]) < Len(sent[c].entries)
        /\ answers' = [answers EXCEPT ![c] = Append(answers[c], word)]
    BY AtGateType DEF GateTypes, Answer
  <1>2. PICK l \in {"start", "done", "refused"} :
            Goto(c, l) /\ (l = "start" => Len(answers[c]) + 1 < Len(sent[c].entries))
    BY DEF Answer
  <1>3. /\ Come' = Come /\ UNCHANGED sent /\ pc'[c] = l
        /\ \A d \in Come : d # c => pc'[d] = pc[d]
    BY <1>1, <1>2, OnlyGoes
  <1>4. /\ Append(answers[c], word) \in Seq({"ok", "replayed", "error"})
        /\ Len(Append(answers[c], word)) = Len(answers[c]) + 1
        /\ \A i \in DOMAIN Append(answers[c], word) :
               \/ i \in DOMAIN answers[c] /\ Append(answers[c], word)[i] = answers[c][i]
               \/ i = Len(answers[c]) + 1 /\ Append(answers[c], word)[i] = word
    BY <1>1
  <1>5. /\ answers' \in [Come -> Seq({"ok", "replayed", "error"})]
        /\ answers'[c] = Append(answers[c], word) /\ \A d \in Come : d # c => answers'[d] = answers[d]
    BY <1>1, <1>4 DEF GateTypes
  <1>6. Len(answers[c]) + 1 <= Len(sent[c].entries)
    BY <1>1
  <1>7. QED
    BY <1>2, <1>3, <1>4, <1>5, <1>6

\* The requests that were past their key, and still are at the same entry.
LEMMA RivalsStay ==
  ASSUME RivalsAreKnown, Come' = Come, UNCHANGED sent, crowded \subseteq crowded',
         \A c \in Asking' : pc'[c] # "start" =>
             c \in Asking /\ pc[c] # "start" /\ answers'[c] = answers[c]
  PROVE  RivalsAreKnown'
  <1> SUFFICES ASSUME NEW b \in Asking', NEW c \in Asking', b # c, pc'[b] # "start", pc'[c] # "start"
               PROVE  Who(AtGate(b)') \intersect Who(AtGate(c)') \subseteq crowded'
    BY DEF RivalsAreKnown, Who
  <1>1. AtGate(b)' = AtGate(b) /\ AtGate(c)' = AtGate(c)
    BY DEF AtGate
  <1>2. Who(AtGate(b)) \intersect Who(AtGate(c)) \subseteq crowded
    BY DEF RivalsAreKnown
  <1>3. QED
    BY <1>1, <1>2

\* Nobody enters, and nobody goes on to the next look.
NobodyEnters ==
    /\ Come' = Come /\ UNCHANGED sent /\ crowded \subseteq crowded' /\ Inside' \subseteq Inside
    /\ \A c \in Asking' : pc'[c] # "start" =>
           c \in Asking /\ pc'[c] = pc[c] /\ answers'[c] = answers[c]

LEMMA GateFrame ==
  ASSUME GateInv, NobodyEnters
  PROVE  RivalsAreKnown' /\ LookedUp' /\ OneActiveEntry'
  <1>1. RivalsAreKnown'
    <2>1. \A c \in Asking' : pc'[c] # "start" =>
              c \in Asking /\ pc[c] # "start" /\ answers'[c] = answers[c]
      BY DEF NobodyEnters
    <2>2. QED
      BY <2>1, RivalsStay DEF NobodyEnters, GateInv
  <1>2. LookedUp'
    <2>1. \A c \in Asking' : pc'[c] # "start" => AtGate(c)' = AtGate(c)
      BY DEF NobodyEnters, AtGate
    <2>2. QED
      BY <2>1 DEF NobodyEnters, GateInv, LookedUp
  <1>3. OneActiveEntry'
    BY DEF NobodyEnters, GateInv, OneActiveEntry, Who
  <1>4. QED
    BY <1>1, <1>2, <1>3

LEMMA GateUntouched ==
  ASSUME RequestInv, GateInv, SyncedOnce, UNCHANGED gateVars, Apart(GateOps),
         Come' = Come, UNCHANGED sent
  PROVE  GateInv' /\ SyncedOnce'
  <1>1. /\ GateCalls' = GateCalls
        /\ \A c \in GateCalls : pc'[c] = pc[c] \/ pc'[c] = "dead"
    BY DEF GateCalls, Apart, GateOps, Op
  <1>2. Asking' \subseteq Asking /\ \A c \in Asking' : pc'[c] = pc[c]
    BY <1>1 DEF Asking
  <1>3. NobodyEnters
    BY <1>2 DEF NobodyEnters, gateVars, Inside
  <1>4. GateTypes' /\ UniqueKeys' /\ SyncedOnce'
    BY <1>1, <1>2 DEF GateInv, GateTypes, UniqueKeys, SyncedOnce, gateVars
  <1>5. QED
    BY <1>3, <1>4, GateFrame DEF GateInv

\* An answer leaves the rest of the gate as it was.
LEMMA AnswerFrame ==
  ASSUME RequestInv, GateInv, SyncedOnce, NEW c \in Asking, NEW word \in {"replayed", "error"},
         Answer(c, word), UNCHANGED entries, crowded \subseteq crowded',
         word = "replayed" => \E x \in entries : x.key = AtGate(c).key
  PROVE  GateInv' /\ SyncedOnce'
  <1>1. /\ Come' = Come /\ UNCHANGED sent
        /\ answers' \in [Come -> Seq({"ok", "replayed", "error"})]
        /\ \A d \in Come : d # c => pc'[d] = pc[d] /\ answers'[d] = answers[d]
        /\ pc'[c] \in {"start", "done", "refused"}
        /\ Len(answers'[c]) = Len(answers[c]) + 1 /\ Len(answers'[c]) <= Len(sent[c].entries)
        /\ pc'[c] = "start" => Len(answers'[c]) < Len(sent[c].entries)
        /\ \A i \in DOMAIN answers'[c] :
              \/ i \in DOMAIN answers[c] /\ answers'[c][i] = answers[c][i]
              \/ i = Len(answers[c]) + 1 /\ answers'[c][i] = word
    BY Answered DEF GateInv
  <1>2. GateCalls' = GateCalls /\ \A d \in Asking' : d = c \/ (d \in Asking /\ d \in Come /\ d # c)
    BY <1>1 DEF GateCalls, Asking, Op
  <1>3. NobodyEnters
    <2>1. \A d \in Asking' : pc'[d] # "start" => d \in Asking /\ d # c
      BY <1>1, <1>2 DEF Asking
    <2>2. \A d \in Asking' : pc'[d] # "start" => pc'[d] = pc[d] /\ answers'[d] = answers[d]
      BY <1>1, <1>2, <2>1
    <2>3. Inside' = Inside
      BY DEF Inside
    <2>4. QED
      BY <1>1, <2>1, <2>2, <2>3 DEF NobodyEnters
  <1>4. GateTypes'
    <2>1. entries' \subseteq VisitorEntries /\ IsFiniteSet(entries')
      BY DEF GateInv, GateTypes
    <2>2. \A d \in GateCalls' : Len(answers'[d]) <= Len(sent'[d].entries)
      BY <1>1, <1>2 DEF GateInv, GateTypes, GateCalls
    <2>3. \A d \in Asking' : Len(answers'[d]) < Len(sent'[d].entries)
      <3>1. \A d \in Asking' : d = c => pc'[c] = "start"
        BY <1>1 DEF Asking
      <3>2. QED
        BY <1>1, <1>2, <3>1 DEF GateInv, GateTypes
    <2>4. QED
      BY <1>1, <2>1, <2>2, <2>3 DEF GateTypes
  <1>5. UniqueKeys'
    BY DEF GateInv, UniqueKeys
  <1>6. SyncedOnce'
    <2>1. \A d \in GateCalls : \A i \in DOMAIN answers'[d] :
              \/ i \in DOMAIN answers[d] /\ answers'[d][i] = answers[d][i]
              \/ d = c /\ i = Len(answers[c]) + 1 /\ answers'[d][i] = word
      BY <1>1 DEF GateCalls
    <2>2. \A d \in GateCalls : \A i \in DOMAIN answers'[d] :
              answers'[d][i] # "error" => \E x \in entries : x.key = sent[d].entries[i].key
      BY <2>1 DEF SyncedOnce, AtGate
    <2>3. \A d, e \in GateCalls : \A i \in DOMAIN answers'[d], j \in DOMAIN answers'[e] :
              /\ sent[d].entries[i].key = sent[e].entries[j].key
              /\ answers'[d][i] = "ok" /\ answers'[e][j] = "ok"
              => d = e /\ i = j
      BY <2>1 DEF SyncedOnce
    <2>4. QED
      BY <1>1, <1>2, <2>2, <2>3 DEF SyncedOnce
  <1>7. QED
    BY <1>3, <1>4, <1>5, <1>6, GateFrame DEF GateInv

\* A batch that finds its key unknown: it knows its rivals now.
LEMMA KeyUnknown ==
  ASSUME RequestInv, GateInv, SyncedOnce, NEW c \in GateCalls, GateKey(c), Goto(c, "member"),
         UNCHANGED answers
  PROVE  GateInv' /\ SyncedOnce'
  <1>1. /\ c \in Come /\ c \in Asking /\ pc[c] = "start" /\ Come' = Come /\ UNCHANGED <<sent, entries>>
        /\ pc'[c] = "member"
        /\ \A d \in Come : d # c => pc'[d] = pc[d]
        /\ crowded \subseteq crowded'
    BY OnlyGoes DEF GateKey, Asking, GateCalls
  <1>2. GateCalls' = GateCalls /\ Asking' = Asking /\ Inside' = Inside
    BY <1>1 DEF GateCalls, Asking, Inside, Op
  <1>3. \A d : AtGate(d)' = AtGate(d)
    BY <1>1 DEF AtGate
  <1>4. \A d \in Asking : d # c /\ pc'[d] # "start"
                              => Who(AtGate(c)) \intersect Who(AtGate(d)) \subseteq crowded'
    <2>1. SUFFICES ASSUME NEW d \in Asking, d # c, pc[d] # "start"
                   PROVE  Who(AtGate(c)) \intersect Who(AtGate(d)) \subseteq crowded'
      BY <1>1 DEF Asking, GateCalls
    <2>2. Checking(d) = Who(AtGate(d)) /\ d \in Come \ {c}
      BY <2>1 DEF Checking, Asking, GateCalls
    <2>3. QED
      BY <2>1, <2>2 DEF GateKey
  <1>5. RivalsAreKnown'
    <2> SUFFICES ASSUME NEW b \in Asking, NEW d \in Asking, b # d, pc'[b] # "start", pc'[d] # "start"
                 PROVE  Who(AtGate(b)) \intersect Who(AtGate(d)) \subseteq crowded'
      BY <1>2, <1>3 DEF RivalsAreKnown, Who
    <2>1. CASE b = c \/ d = c
      BY <1>4, <2>1
    <2>2. CASE b # c /\ d # c
      <3>1. pc[b] # "start" /\ pc[d] # "start"
        BY <1>1, <2>2 DEF Asking, GateCalls
      <3>2. Who(AtGate(b)) \intersect Who(AtGate(d)) \subseteq crowded
        BY <3>1 DEF GateInv, RivalsAreKnown
      <3>3. QED
        BY <1>1, <3>2
    <2>3. QED
      BY <2>1, <2>2
  <1>6. LookedUp'
    <2> SUFFICES ASSUME NEW d \in Asking, NEW x \in Inside
                 PROVE  /\ pc'[d] \in {"vehicle", "create"} /\ x.m = AtGate(d).m
                              => AtGate(d).m \in crowded' \union {NoOne}
                        /\ pc'[d] = "create" /\ x.vehicle = AtGate(d).vehicle
                              => AtGate(d).vehicle \in crowded' \union {NoVehicle}
      BY <1>2, <1>3 DEF LookedUp
    <2>1. pc'[d] \in {"vehicle", "create"} => pc'[d] = pc[d]
      BY <1>1 DEF Asking, GateCalls
    <2>2. QED
      BY <1>1, <2>1 DEF GateInv, LookedUp
  <1>7. GateTypes' /\ UniqueKeys' /\ OneActiveEntry' /\ SyncedOnce'
    BY <1>1, <1>2 DEF GateInv, GateTypes, UniqueKeys, OneActiveEntry, Who, SyncedOnce
  <1>8. QED
    BY <1>5, <1>6, <1>7 DEF GateInv

\* A batch that has looked for its member, or its vehicle, and found nobody.
LEMMA LookedAndFoundNobody ==
  ASSUME RequestInv, GateInv, SyncedOnce, NEW c \in GateCalls, UNCHANGED gateVars,
         \/ pc[c] = "member" /\ ~IsInside(c) /\ Goto(c, "vehicle")
         \/ pc[c] = "vehicle" /\ ~VehicleInside(c) /\ Goto(c, "create")
  PROVE  GateInv' /\ SyncedOnce'
  <1>1. /\ c \in Come /\ c \in Asking /\ Come' = Come /\ UNCHANGED sent
        /\ \A d \in Come : d # c => pc'[d] = pc[d]
        /\ \/ pc[c] = "member" /\ ~IsInside(c) /\ pc'[c] = "vehicle"
           \/ pc[c] = "vehicle" /\ ~VehicleInside(c) /\ pc'[c] = "create"
    BY OnlyGoes DEF Asking, GateCalls
  <1>2. GateCalls' = GateCalls /\ Asking' = Asking /\ Inside' = Inside
    BY <1>1 DEF GateCalls, Asking, Inside, Op, gateVars
  <1>3. \A d : AtGate(d)' = AtGate(d)
    BY <1>1 DEF AtGate, gateVars
  <1>4. RivalsAreKnown'
    <2>1. \A d \in Asking' : pc'[d] # "start" => d \in Asking /\ pc[d] # "start" /\ answers'[d] = answers[d]
      BY <1>1, <1>2 DEF Asking, GateCalls, gateVars
    <2>2. QED
      BY <1>1, <2>1, RivalsStay DEF GateInv, gateVars
  <1>5. LookedUp'
    <2> SUFFICES ASSUME NEW d \in Asking, NEW x \in Inside
                 PROVE  /\ pc'[d] \in {"vehicle", "create"} /\ x.m = AtGate(d).m
                              => AtGate(d).m \in crowded \union {NoOne}
                        /\ pc'[d] = "create" /\ x.vehicle = AtGate(d).vehicle
                              => AtGate(d).vehicle \in crowded \union {NoVehicle}
      BY <1>2, <1>3 DEF LookedUp, gateVars
    <2>1. CASE d # c
      <3>1. pc'[d] = pc[d]
        BY <1>1, <2>1 DEF Asking, GateCalls
      <3>2. QED
        BY <3>1 DEF GateInv, LookedUp
    <2>2. CASE d = c /\ pc[c] = "member"
      BY <1>1, <2>2 DEF IsInside
    <2>3. CASE d = c /\ pc[c] = "vehicle"
      BY <1>1, <2>3 DEF VehicleInside, GateInv, LookedUp
    <2>4. QED
      BY <1>1, <2>1, <2>2, <2>3
  <1>6. GateTypes' /\ UniqueKeys' /\ OneActiveEntry' /\ SyncedOnce'
    BY <1>1, <1>2 DEF GateInv, GateTypes, UniqueKeys, OneActiveEntry, Who, SyncedOnce, gateVars
  <1>7. QED
    BY <1>4, <1>5, <1>6 DEF GateInv

\* The entry a batch creates is of a key, a member and a vehicle not inside.
LEMMA EntryCreated ==
  ASSUME RequestInv, GateInv, SyncedOnce, NEW c \in GateCalls, pc[c] = "create",
         NEW e \in Arrivals, e = AtGate(c), \A x \in entries : x.key # e.key, Answer(c, "ok"),
         entries' = entries \union {[key |-> e.key, m |-> e.m, vehicle |-> e.vehicle, out |-> FALSE]},
         UNCHANGED crowded
  PROVE  GateInv' /\ SyncedOnce'
  <1>1. c \in Asking
    BY DEF Asking
  <1>2. /\ Come' = Come /\ UNCHANGED sent
        /\ answers' \in [Come -> Seq({"ok", "replayed", "error"})]
        /\ \A d \in Come : d # c => pc'[d] = pc[d] /\ answers'[d] = answers[d]
        /\ pc'[c] \in {"start", "done", "refused"}
        /\ Len(answers'[c]) = Len(answers[c]) + 1 /\ Len(answers'[c]) <= Len(sent[c].entries)
        /\ pc'[c] = "start" => Len(answers'[c]) < Len(sent[c].entries)
        /\ \A i \in DOMAIN answers'[c] :
              \/ i \in DOMAIN answers[c] /\ answers'[c][i] = answers[c][i]
              \/ i = Len(answers[c]) + 1 /\ answers'[c][i] = "ok"
    BY <1>1, Answered DEF GateInv
  <1>3. /\ GateCalls' = GateCalls
        /\ \A d \in Asking' : d \in Come /\ (d = c => pc'[c] = "start")
        /\ \A d \in Asking' : d # c => d \in Asking /\ pc'[d] = pc[d] /\ answers'[d] = answers[d]
    BY <1>2 DEF GateCalls, Asking, Op
  <1>4. PICK r \in VisitorEntries : /\ r.key = e.key /\ r.m = e.m /\ r.vehicle = e.vehicle /\ ~r.out
                                    /\ entries' = entries \union {r}
    BY DEF Arrivals, VisitorEntries
  <1>5. Inside' = Inside \union {r}
    BY <1>4 DEF Inside
  <1>6. RivalsAreKnown'
    <2>1. \A d \in Asking' : pc'[d] # "start" => d \in Asking /\ pc[d] # "start" /\ answers'[d] = answers[d]
      BY <1>3
    <2>2. QED
      BY <1>2, <2>1, RivalsStay DEF GateInv
  <1>7. LookedUp'
    <2> SUFFICES ASSUME NEW d \in Asking', NEW x \in Inside', pc'[d] # "start"
                 PROVE  /\ pc'[d] \in {"vehicle", "create"} /\ x.m = AtGate(d)'.m
                              => AtGate(d)'.m \in crowded \union {NoOne}
                        /\ pc'[d] = "create" /\ x.vehicle = AtGate(d)'.vehicle
                              => AtGate(d)'.vehicle \in crowded \union {NoVehicle}
      BY DEF LookedUp
    <2>1. /\ d \in Asking /\ d # c /\ pc'[d] = pc[d] /\ AtGate(d)' = AtGate(d)
          /\ AtGate(d) \in Arrivals
      BY <1>2, <1>3, AtGateType DEF GateInv, AtGate
    <2>2. CASE x \in Inside
      BY <2>1, <2>2 DEF GateInv, LookedUp
    <2>3. CASE x = r
      <3>1. Who(AtGate(d)) \intersect Who(e) \subseteq crowded
        BY <1>1, <2>1 DEF GateInv, RivalsAreKnown
      <3>2. /\ e.m = AtGate(d).m /\ e.m # NoOne => e.m \in Who(AtGate(d)) \intersect Who(e)
            /\ e.vehicle = AtGate(d).vehicle /\ e.vehicle # NoVehicle
                  => e.vehicle \in Who(AtGate(d)) \intersect Who(e)
        BY <2>1, GateAssumption DEF Who, Arrivals
      <3>3. QED
        BY <1>4, <2>1, <2>3, <3>1, <3>2
    <2>4. QED
      BY <1>5, <2>2, <2>3
  <1>8. OneActiveEntry'
    <2>1. ASSUME NEW f \in Inside
          PROVE  Who(r) \intersect Who(f) \subseteq crowded
      <3>1. f \in VisitorEntries
        BY DEF Inside, GateInv, GateTypes
      <3>2. /\ f.m = r.m => r.m \in crowded \union {NoOne}
            /\ f.vehicle = r.vehicle => r.vehicle \in crowded \union {NoVehicle}
        BY <1>1, <1>4 DEF GateInv, LookedUp
      <3>3. /\ r.m \in Guests \union {NoOne} /\ f.m \in Guests \union {NoOne}
            /\ r.vehicle \in Vehicles \union {NoVehicle} /\ f.vehicle \in Vehicles \union {NoVehicle}
        BY <1>4, <3>1 DEF VisitorEntries
      <3>4. QED
        BY <3>2, <3>3, GateAssumption DEF Who
    <2>2. \A f \in Inside' : f = r \/ f \in Inside
      BY <1>5
    <2>3. \A f, g \in Inside : f # g => Who(f) \intersect Who(g) \subseteq crowded
      BY DEF GateInv, OneActiveEntry
    <2>4. \A f, g \in Inside' : f # g => Who(f) \intersect Who(g) \subseteq crowded
      BY <2>1, <2>2, <2>3
    <2>5. QED
      BY <2>4 DEF OneActiveEntry, Who
  <1>9. GateTypes'
    <2>1. IsFiniteSet(entries) /\ entries \subseteq VisitorEntries
      BY DEF GateInv, GateTypes
    <2>2. IsFiniteSet(entries \union {r})
      BY <2>1, FS_AddElement
    <2>3. entries' \subseteq VisitorEntries /\ IsFiniteSet(entries')
      BY <1>4, <2>1, <2>2
    <2>4. \A d \in GateCalls' : Len(answers'[d]) <= Len(sent'[d].entries)
      BY <1>2, <1>3 DEF GateInv, GateTypes, GateCalls
    <2>5. \A d \in Asking' : Len(answers'[d]) < Len(sent'[d].entries)
      BY <1>2, <1>3 DEF GateInv, GateTypes
    <2>6. QED
      BY <1>2, <2>3, <2>4, <2>5 DEF GateTypes
  <1>10. UniqueKeys'
    BY <1>4 DEF GateInv, UniqueKeys
  <1>11. SyncedOnce'
    <2>1. \A d \in GateCalls : \A i \in DOMAIN answers'[d] :
              \/ i \in DOMAIN answers[d] /\ answers'[d][i] = answers[d][i]
              \/ /\ d = c /\ i = Len(answers[c]) + 1 /\ answers'[d][i] = "ok"
                 /\ sent[d].entries[i] = e
      BY <1>2 DEF GateCalls, AtGate
    <2>2. \A d \in GateCalls : \A i \in DOMAIN answers[d] :
              answers[d][i] # "error" => /\ \E x \in entries : x.key = sent[d].entries[i].key
                                         /\ sent[d].entries[i].key # e.key
      BY DEF SyncedOnce
    <2>3. \A d \in GateCalls : \A i \in DOMAIN answers'[d] :
              answers'[d][i] # "error" => \E x \in entries' : x.key = sent[d].entries[i].key
      BY <1>4, <2>1, <2>2
    <2>4. \A d, f \in GateCalls : \A i \in DOMAIN answers'[d], j \in DOMAIN answers'[f] :
              /\ sent[d].entries[i].key = sent[f].entries[j].key
              /\ answers'[d][i] = "ok" /\ answers'[f][j] = "ok"
              => d = f /\ i = j
      BY <2>1, <2>2 DEF SyncedOnce
    <2>5. QED
      BY <1>2, <1>3, <2>3, <2>4 DEF SyncedOnce
  <1>12. QED
    BY <1>6, <1>7, <1>8, <1>9, <1>10, <1>11 DEF GateInv

\* A check-out: the entries of a key are left, and no key is lost.
LEMMA EntryLeft ==
  ASSUME RequestInv, GateInv, SyncedOnce, NEW c \in Come, Op(c) = "checkOut", CheckOutWrite(c)
  PROVE  GateInv' /\ SyncedOnce'
  <1> DEFINE Left(x) == IF x.key = sent[c].key THEN [x EXCEPT !.out = TRUE] ELSE x
  <1>1. /\ Come' = Come /\ UNCHANGED <<sent, answers, crowded>>
        /\ \A d \in Come : d # c => pc'[d] = pc[d]
        /\ entries' = {Left(x) : x \in entries}
    BY OnlyGoes DEF CheckOutWrite, Move
  <1>2. \A x \in entries : /\ Left(x) \in VisitorEntries /\ Left(x).key = x.key
                           /\ Left(x) = x \/ Left(x).out
    BY DEF GateInv, GateTypes, VisitorEntries
  <1>3. IsFiniteSet({Left(x) : x \in entries})
    <2>1. IsFiniteSet(entries)
      BY DEF GateInv, GateTypes
    <2> DEFINE f == [x \in entries |-> Left(x)]
    <2>2. f \in Surjection(entries, {Left(x) : x \in entries})
      BY DEF Surjection
    <2> HIDE DEF f
    <2>3. QED
      BY <2>1, <2>2, FS_Surjection
  <1> HIDE DEF Left
  <1>4. GateCalls' = GateCalls /\ Asking' = Asking /\ c \notin GateCalls
    BY <1>1 DEF GateCalls, Asking, Op
  <1>5. Inside' \subseteq Inside
    BY <1>1, <1>2 DEF Inside
  <1>6. NobodyEnters
    BY <1>1, <1>4, <1>5 DEF NobodyEnters, Asking, GateCalls
  <1>7. GateTypes' /\ UniqueKeys'
    BY <1>1, <1>2, <1>3, <1>4 DEF GateInv, GateTypes, UniqueKeys
  <1>8. SyncedOnce'
    <2>1. \A x \in entries : \E y \in entries' : y.key = x.key
      BY <1>1, <1>2
    <2>2. QED
      BY <1>1, <1>4, <2>1 DEF SyncedOnce
  <1>9. QED
    BY <1>6, <1>7, <1>8, GateFrame DEF GateInv

LEMMA GateStepInv ==
  ASSUME RequestInv, GateInv, SyncedOnce, [Next]_vars
  PROVE  GateInv' /\ SyncedOnce'
  <1>1. CASE UNCHANGED gateVars /\ Apart(GateOps)
    BY <1>1, RequestStep, GateUntouched
  <1>2. ASSUME NEW c \in Come, GateRequest(c) PROVE GateInv' /\ SyncedOnce'
    <2>1. CASE Op(c) = "checkOut" /\ CheckOutWrite(c)
      BY <2>1, EntryLeft
    <2>2. CASE Op(c) = "checkOut" /\ CheckOutRead(c)
      <3>1. PICK l \in {"leave", "refused"} : Goto(c, l)
        BY <2>2 DEF CheckOutRead, Move
      <3>2. /\ Come' = Come /\ UNCHANGED sent /\ UNCHANGED gateVars
            /\ \A d \in Come : d # c => pc'[d] = pc[d]
        BY <2>2, <3>1, OnlyGoes DEF CheckOutRead
      <3>3. GateCalls' = GateCalls /\ Asking' = Asking /\ c \notin GateCalls
        BY <2>2, <3>2 DEF GateCalls, Asking, Op
      <3>4. NobodyEnters
        BY <3>2, <3>3 DEF NobodyEnters, Asking, GateCalls, Inside, gateVars
      <3>5. GateTypes' /\ UniqueKeys' /\ SyncedOnce'
        BY <3>2, <3>3 DEF GateInv, GateTypes, UniqueKeys, SyncedOnce, gateVars
      <3>6. QED
        BY <3>4, <3>5, GateFrame DEF GateInv
    <2>3. ASSUME Op(c) = "checkIn", GateKey(c) \/ GateMember(c) \/ GateVehicle(c) \/ GateCreate(c)
          PROVE  GateInv' /\ SyncedOnce'
      <3>1. c \in GateCalls /\ c \in Asking
        BY <2>3 DEF GateCalls, Asking, GateKey, GateMember, GateVehicle, GateCreate
      <3>2. CASE GateKey(c) /\ ~(Goto(c, "member") /\ UNCHANGED answers)
        BY <3>1, <3>2, AnswerFrame DEF GateKey
      <3>3. CASE GateKey(c) /\ Goto(c, "member") /\ UNCHANGED answers
        BY <3>1, <3>3, KeyUnknown
      <3>4. CASE GateMember(c)
        BY <3>1, <3>4, AnswerFrame, LookedAndFoundNobody DEF GateMember, gateVars
      <3>5. CASE GateVehicle(c)
        BY <3>1, <3>5, AnswerFrame, LookedAndFoundNobody DEF GateVehicle, gateVars
      <3>6. CASE GateCreate(c)
        <4>1. PICK e \in Arrivals : e = AtGate(c)
          BY <3>1, AtGateType DEF GateInv
        <4>2. CASE UNCHANGED entries /\ Answer(c, "error")
          BY <3>1, <3>6, <4>2, AnswerFrame DEF GateCreate
        <4>3. CASE ~(UNCHANGED entries /\ Answer(c, "error"))
          <5>1. /\ pc[c] = "create" /\ \A x \in entries : x.key # e.key
                /\ entries' = entries \union
                       {[key |-> e.key, m |-> e.m, vehicle |-> e.vehicle, out |-> FALSE]}
                /\ Answer(c, "ok") /\ UNCHANGED crowded
            BY <3>6, <4>1, <4>3 DEF GateCreate
          <5>2. QED
            BY <3>1, <4>1, <5>1, EntryCreated
        <4>4. QED
          BY <4>2, <4>3
      <3>7. QED
        BY <2>3, <3>2, <3>3, <3>4, <3>5, <3>6
    <2>4. QED
      BY <1>2, <2>1, <2>2, <2>3 DEF GateRequest
  <1>3. QED
    BY <1>1, <1>2, Services

-----------------------------------------------------------------------------
(* Counters *)

\* m was notified of level n, or of a later one.
Told(m, n) == n > 0 => \E l \in crossed[m] : l >= n

Tapping == {c \in Come : Op(c) = "delta" /\ pc[c] \in {"apply", "commit"}}

CounterInv ==
    /\ IsFiniteSet(DOMAIN mala)
    /\ \A r \in DOMAIN mala : /\ mala[r].m \in Devotees /\ mala[r].count \in Nat
                            /\ mala[r] = RowOf(mala[r])
    /\ crossed \in [Devotees -> SUBSET Nat]
    /\ \A l \in resetLogs : l.row \in DOMAIN mala /\ l.previous \in Nat
    /\ \A c \in Come : Op(c) \in ResetOps /\ pc[c] = "log" =>
           \A l \in saw[c].rows : l[1] \in DOMAIN mala /\ l[2] \in Nat
    /\ \A c \in Tapping :
           /\ saw[c].before \in Nat /\ Told(sent[c].m, Level(saw[c].before))
           /\ pc[c] = "commit" => Told(sent[c].m, Level(After(c)))

LEMMA LevelType ==
  ASSUME NEW n \in Nat
  PROVE  Level(n) \in Nat /\ (n = 0 => Level(n) = 0)
  BY CounterAssumption DEF Level

\* A count is clamped at zero.
LEMMA Clamped ==
  ASSUME NEW x \in Int
  PROVE  Max({0, x}) = IF x > 0 THEN x ELSE 0
  <1> DEFINE big == IF x > 0 THEN x ELSE 0
  <1>1. big \in {0, x} /\ (\A y \in {0, x} : big >= y)
    OBVIOUS
  <1>2. \A z \in {0, x} : (\A y \in {0, x} : z >= y) => z = big
    OBVIOUS
  <1>3. QED
    BY <1>1, <1>2 DEF Max

LEMMA InitCounters ==
  ASSUME NEW w \in Scenarios, RequestsInit(w), CountersInit(w)
  PROVE  CounterInv /\ CrossedIsTold
  <1>1. \A c \in Come : pc[c] = "start"
    BY DEF RequestsInit, Come
  <1>2. /\ mala = w.mala /\ resetLogs = {} /\ IsFiniteSet(DOMAIN mala)
        /\ \A r \in DOMAIN mala : /\ mala[r].m \in Devotees /\ mala[r].count \in Nat
                                /\ mala[r] = RowOf(mala[r])
    BY CounterAssumption DEF CountersInit
  <1>3. \A m \in Devotees : crossed[m] = {Level(mala[r].count) : r \in {x \in DOMAIN mala : mala[x].m = m}}
    BY DEF CountersInit
  <1>4. \A r \in DOMAIN mala : Level(mala[r].count) \in Nat
    BY <1>2, LevelType
  <1>5. crossed \in [Devotees -> SUBSET Nat]
    <2>1. \A m \in Devotees : crossed[m] \in SUBSET Nat
      BY <1>3, <1>4
    <2>2. QED
      BY <2>1 DEF CountersInit
  <1>6. CrossedIsTold
    <2>1. \A r \in DOMAIN mala : Level(mala[r].count) \in crossed[mala[r].m]
      BY <1>2, <1>3
    <2>2. QED
      BY <1>4, <2>1 DEF CrossedIsTold
  <1>7. CounterInv
    BY <1>1, <1>2, <1>5 DEF CounterInv, Tapping
  <1>8. QED
    BY <1>6, <1>7

\* What is enough of a step of c: nothing is untold, what is written is told,
\* and c has in hand what it has read.
CounterMoves(c) ==
    /\ Come' = Come /\ UNCHANGED sent
    /\ \A d \in Come : d # c => pc'[d] = pc[d] /\ saw'[d] = saw[d]
    /\ crossed' \in [Devotees -> SUBSET Nat] /\ \A m \in Devotees : crossed[m] \subseteq crossed'[m]
    /\ DOMAIN mala \subseteq DOMAIN mala' /\ IsFiniteSet(DOMAIN mala')
    /\ \A r \in DOMAIN mala' : /\ mala'[r].m \in Devotees /\ mala'[r].count \in Nat
                               /\ mala'[r] = RowOf(mala'[r])
                               /\ Told(mala'[r].m, Level(mala'[r].count))
                                  \/ UNCHANGED mala
    /\ \A l \in resetLogs' : l \in resetLogs \/ (l.row \in DOMAIN mala /\ l.previous \in Nat)
    /\ Op(c) \in ResetOps /\ pc'[c] = "log" =>
           \A l \in saw'[c].rows : l[1] \in DOMAIN mala /\ l[2] \in Nat
    /\ Op(c) = "delta" /\ pc'[c] \in {"apply", "commit"} =>
           /\ saw'[c].before \in Nat /\ Told(sent[c].m, Level(saw'[c].before))
           /\ pc'[c] = "commit" => /\ saw'[c] = saw[c]
                                   /\ \E l \in crossed'[sent[c].m] : l >= Level(After(c))

LEMMA ToldStays ==
  ASSUME NEW m \in Devotees, NEW n, Told(m, n), crossed[m] \subseteq crossed'[m]
  PROVE  n > 0 => \E l \in crossed'[m] : l >= n
  BY DEF Told

LEMMA DevoteesTap ==
  ASSUME RequestInv, NEW c \in Come, Op(c) = "delta"
  PROVE  sent[c].m \in Devotees /\ sent[c].delta \in Int
  BY CounterAssumption DEF RequestInv, Op

LEMMA CounterFrame ==
  ASSUME RequestInv, CounterInv, CrossedIsTold, NEW c \in Come, CounterMoves(c)
  PROVE  CounterInv' /\ CrossedIsTold'
  <1>1. CrossedIsTold'
    <2> SUFFICES ASSUME NEW r \in DOMAIN mala', Level(mala'[r].count) > 0
                 PROVE  \E l \in crossed'[mala'[r].m] : l >= Level(mala'[r].count)
      BY DEF CrossedIsTold, Level
    <2>1. mala'[r].m \in Devotees /\ Told(mala'[r].m, Level(mala'[r].count))
      BY DEF CounterMoves, CrossedIsTold, Told
    <2>2. QED
      BY <2>1, ToldStays DEF CounterMoves
  <1>2. \A d \in Come : Op(d)' = Op(d)
    BY DEF CounterMoves, Op
  <1>3. \A d \in Tapping' :
            /\ saw'[d].before \in Nat /\ Told(sent[d].m, Level(saw[d].before))'
            /\ pc'[d] = "commit" => Told(sent[d].m, Level(After(d)))'
    <2> SUFFICES ASSUME NEW d \in Tapping'
                 PROVE  /\ saw'[d].before \in Nat
                        /\ Level(saw'[d].before) > 0 => \E l \in crossed'[sent[d].m] : l >= Level(saw'[d].before)
                        /\ pc'[d] = "commit" /\ Level(After(d)') > 0
                             => \E l \in crossed'[sent[d].m] : l >= Level(After(d)')
      BY DEF Told, Level, CounterMoves
    <2>1. /\ d \in Come /\ Op(d) = "delta" /\ sent[d].m \in Devotees /\ sent'[d] = sent[d]
          /\ pc'[d] \in {"apply", "commit"} /\ crossed[sent[d].m] \subseteq crossed'[sent[d].m]
      BY <1>2, DevoteesTap DEF Tapping, CounterMoves
    <2>2. CASE d = c
      <3>1. saw'[d].before \in Nat /\ Told(sent[d].m, Level(saw'[d].before))
        BY <2>1, <2>2 DEF CounterMoves
      <3>2. pc'[d] = "commit" => /\ After(d)' = After(d)
                                 /\ \E l \in crossed'[sent[d].m] : l >= Level(After(d))
        BY <2>1, <2>2 DEF CounterMoves, After
      <3>3. QED
        BY <2>1, <3>1, <3>2, ToldStays
    <2>3. CASE d # c
      <3>1. d \in Tapping /\ pc'[d] = pc[d] /\ saw'[d] = saw[d] /\ After(d)' = After(d)
        BY <2>1, <2>3 DEF CounterMoves, Tapping, After
      <3>2. /\ saw[d].before \in Nat /\ Told(sent[d].m, Level(saw[d].before))
            /\ pc[d] = "commit" => Told(sent[d].m, Level(After(d)))
        BY <3>1 DEF CounterInv
      <3>3. QED
        BY <2>1, <3>1, <3>2, ToldStays
    <2>4. QED
      BY <2>2, <2>3
  <1>4. /\ IsFiniteSet(DOMAIN mala') /\ crossed' \in [Devotees -> SUBSET Nat]
        /\ \A r \in DOMAIN mala' : /\ mala'[r].m \in Devotees /\ mala'[r].count \in Nat
                                 /\ mala'[r] = RowOf(mala'[r])
    BY DEF CounterMoves
  <1>5. \A l \in resetLogs' : l.row \in DOMAIN mala' /\ l.previous \in Nat
    BY DEF CounterMoves, CounterInv
  <1>6. \A d \in Come' : Op(d)' \in ResetOps /\ pc'[d] = "log" =>
           \A l \in saw'[d].rows : l[1] \in DOMAIN mala' /\ l[2] \in Nat
    <2>1. \A d \in Come : Op(d) \in ResetOps /\ pc'[d] = "log" =>
           \A l \in saw'[d].rows : l[1] \in DOMAIN mala /\ l[2] \in Nat
      BY DEF CounterMoves, CounterInv
    <2>2. QED
      BY <1>2, <2>1 DEF CounterMoves
  <1>7. QED
    BY <1>1, <1>3, <1>4, <1>5, <1>6 DEF CounterInv

LEMMA CountersUntouched ==
  ASSUME RequestInv, CounterInv, CrossedIsTold, UNCHANGED counterVars, Apart(CounterOps),
         Come' = Come, UNCHANGED sent
  PROVE  CounterInv' /\ CrossedIsTold'
  <1>1. \A c \in Come : /\ Op(c)' = Op(c) /\ After(c)' = IF saw'[c] = saw[c] THEN After(c) ELSE After(c)'
                        /\ Op(c) \in CounterOps => saw'[c] = saw[c] /\ (pc'[c] = pc[c] \/ pc'[c] = "dead")
    BY DEF Op, After, Apart
  <1>2. \A c \in Tapping' : c \in Tapping /\ pc'[c] = pc[c] /\ saw'[c] = saw[c] /\ After(c)' = After(c)
    BY <1>1 DEF Tapping, CounterOps, After
  <1>3. \A c \in Come : Op(c) \in ResetOps /\ pc'[c] = "log" => pc[c] = "log" /\ saw'[c] = saw[c]
    BY <1>1 DEF CounterOps, ResetOps
  <1>4. \A m, n : Told(m, n)' <=> Told(m, n)
    BY DEF Told, counterVars
  <1>5. CrossedIsTold'
    BY DEF CrossedIsTold, Level, counterVars
  <1>6. CounterInv'
    <2>1. \A d \in Tapping' :
            /\ saw'[d].before \in Nat /\ Told(sent[d].m, Level(saw[d].before))
            /\ pc'[d] = "commit" => Told(sent[d].m, Level(After(d)))
      BY <1>2 DEF CounterInv
    <2>2. \A d \in Tapping' :
            /\ Told(sent[d].m, Level(saw[d].before))' <=> Told(sent[d].m, Level(saw[d].before))
            /\ Told(sent[d].m, Level(After(d)))' <=> Told(sent[d].m, Level(After(d)))
      BY <1>2 DEF Told, Level, counterVars
    <2>3. \A d \in Come' : Op(d)' \in ResetOps /\ pc'[d] = "log" =>
             \A l \in saw'[d].rows : l[1] \in DOMAIN mala' /\ l[2] \in Nat
      BY <1>1, <1>3 DEF CounterInv, counterVars
    <2>4. QED
      BY <2>1, <2>2, <2>3 DEF CounterInv, counterVars
  <1>7. QED
    BY <1>5, <1>6

LEMMA AfterType ==
  ASSUME RequestInv, CounterInv, NEW c \in Tapping
  PROVE  /\ After(c) \in Nat /\ Level(After(c)) \in Nat
         /\ saw[c].before \in Nat /\ Level(saw[c].before) \in Nat
  <1>1. c \in Come /\ Op(c) = "delta" /\ saw[c].before \in Nat /\ sent[c].delta \in Int
    BY DevoteesTap DEF Tapping, CounterInv
  <1>2. saw[c].before + sent[c].delta \in Int
    BY <1>1
  <1>3. After(c) \in Nat
    BY <1>2, Clamped DEF After
  <1>4. QED
    BY <1>1, <1>3, LevelType

LEMMA TapRead ==
  ASSUME RequestInv, CounterInv, CrossedIsTold, NEW c \in Come, Op(c) = "delta", DeltaRead(c)
  PROVE  CounterMoves(c)
  <1>1. PICK l \in {"apply", "refused"} : pc[c] = "start" /\ Goto(c, l)
    BY DEF DeltaRead, Move
  <1>2. /\ Come' = Come /\ UNCHANGED sent /\ pc'[c] = l /\ UNCHANGED counterVars
        /\ \A d \in Come : d # c => pc'[d] = pc[d]
    BY <1>1, OnlyGoes DEF DeltaRead
  <1>3. PICK v : /\ saw' = [saw EXCEPT ![c] = v]
                 /\ \/ v.before = 0
                    \/ \E r \in DOMAIN mala : mala[r].m = sent[c].m /\ v.before = mala[r].count
    <2>1. CASE \E r \in DOMAIN mala : mala[r].m = sent[c].m /\ Keep(c, [row |-> r, before |-> mala[r].count])
      <3>1. PICK r \in DOMAIN mala : /\ mala[r].m = sent[c].m
                                     /\ saw' = [saw EXCEPT ![c] = [row |-> r, before |-> mala[r].count]]
        BY <2>1 DEF Keep
      <3>2. PICK v : v = [row |-> r, before |-> mala[r].count]
        OBVIOUS
      <3>3. v.before = mala[r].count /\ saw' = [saw EXCEPT ![c] = v]
        BY <3>1, <3>2
      <3>4. QED
        BY <3>1, <3>3
    <2>2. CASE Keep(c, [row |-> c, before |-> 0])
      <3>1. PICK v : v = [row |-> c, before |-> 0]
        OBVIOUS
      <3>2. v.before = 0 /\ saw' = [saw EXCEPT ![c] = v]
        BY <2>2, <3>1 DEF Keep
      <3>3. QED
        BY <3>2
    <2>3. QED
      BY <2>1, <2>2 DEF DeltaRead, Matches
  <1>4. saw'[c] = v /\ \A d \in Come : d # c => saw'[d] = saw[d]
    BY <1>3 DEF RequestInv, Come
  <1>5. v.before \in Nat /\ Told(sent[c].m, Level(v.before))
    <2>1. CASE v.before = 0
      BY <2>1, LevelType DEF Told
    <2>2. ASSUME NEW r \in DOMAIN mala, mala[r].m = sent[c].m, v.before = mala[r].count
          PROVE  v.before \in Nat /\ Told(sent[c].m, Level(v.before))
      BY <2>2 DEF CounterInv, CrossedIsTold, Told
    <2>3. QED
      BY <1>3, <2>1, <2>2
  <1>6. QED
    BY <1>1, <1>2, <1>4, <1>5 DEF CounterMoves, CounterInv, counterVars, ResetOps

LEMMA TapNotified ==
  ASSUME RequestInv, CounterInv, CrossedIsTold, NEW c \in Come, Op(c) = "delta", DeltaNotify(c)
  PROVE  CounterMoves(c)
  <1>1. /\ c \in Tapping /\ Goto(c, "commit") /\ UNCHANGED <<saw, mala, resetLogs>>
        /\ crossed' = [crossed EXCEPT ![sent[c].m] = @ \union {Level(After(c))}]
    BY DEF DeltaNotify, Move, Tapping, Forget
  <1>2. /\ Come' = Come /\ UNCHANGED sent /\ pc'[c] = "commit"
        /\ \A d \in Come : d # c => pc'[d] = pc[d]
    BY <1>1, OnlyGoes
  <1>3. sent[c].m \in Devotees /\ Level(After(c)) \in Nat
    BY <1>1, DevoteesTap, AfterType
  <1>4. /\ crossed' \in [Devotees -> SUBSET Nat] /\ \A m \in Devotees : crossed[m] \subseteq crossed'[m]
        /\ Level(After(c)) \in crossed'[sent[c].m]
    BY <1>1, <1>3 DEF CounterInv
  <1>5. \E l \in crossed'[sent[c].m] : l >= Level(After(c))
    BY <1>3, <1>4
  <1>6. saw[c].before \in Nat /\ Told(sent[c].m, Level(saw[c].before))
    BY <1>1 DEF CounterInv
  <1>7. QED
    BY <1>1, <1>2, <1>4, <1>5, <1>6 DEF CounterMoves, CounterInv, ResetOps

LEMMA TapCommitted ==
  ASSUME RequestInv, CounterInv, CrossedIsTold, NEW c \in Come, Op(c) = "delta", DeltaCommit(c)
  PROVE  CounterMoves(c)
  <1>1. PICK l \in {"done", "failed"} : Goto(c, l) /\ UNCHANGED <<saw, crossed, resetLogs>>
    BY DEF DeltaCommit, Forget
  <1>2. /\ Come' = Come /\ UNCHANGED sent /\ pc'[c] = l
        /\ \A d \in Come : d # c => pc'[d] = pc[d]
    BY <1>1, OnlyGoes
  <1>3. c \in Tapping /\ sent[c].m \in Devotees
    BY DevoteesTap DEF DeltaCommit, Tapping
  <1>4. Told(sent[c].m, Level(After(c)))
    <2>1. CASE pc[c] = "commit"
      BY <1>3, <2>1 DEF CounterInv
    <2>2. CASE pc[c] = "apply" /\ Level(After(c)) <= Level(saw[c].before)
      <3>1. Told(sent[c].m, Level(saw[c].before))
        BY <1>3 DEF CounterInv
      <3>2. Level(After(c)) \in Nat /\ Level(saw[c].before) \in Nat
        BY <1>3, AfterType
      <3>3. crossed[sent[c].m] \subseteq Nat
        BY <1>3 DEF CounterInv
      <3>4. QED
        BY <2>2, <3>1, <3>2, <3>3 DEF Told
    <2>3. pc[c] = "commit" \/ Level(After(c)) <= Level(saw[c].before)
      BY <1>3, AfterType DEF DeltaCommit, Crosses
    <2>4. QED
      BY <2>1, <2>2, <2>3 DEF DeltaCommit
  <1>5. CASE UNCHANGED mala
    BY <1>1, <1>2, <1>5 DEF CounterMoves, CounterInv, ResetOps
  <1>6. CASE mala' = Put(mala, saw[c].row, NewRow(c))
    <2>1. PICK q : q = saw[c].row
      OBVIOUS
    <2>2. NewRow(c).m = sent[c].m /\ NewRow(c).count = After(c) /\ After(c) \in Nat
      BY <1>3, AfterType DEF NewRow
    <2>3. /\ DOMAIN mala' = DOMAIN mala \union {q} /\ mala'[q] = NewRow(c)
          /\ \A r \in DOMAIN mala : r # q => mala'[r] = mala[r]
      BY <1>6, <2>1 DEF Put
    <2>4. IsFiniteSet(DOMAIN mala')
      BY <2>3, FS_AddElement DEF CounterInv
    <2>5. \A r \in DOMAIN mala' : /\ mala'[r].m \in Devotees /\ mala'[r].count \in Nat
                                 /\ mala'[r] = RowOf(mala'[r])
      BY <1>3, <2>2, <2>3 DEF CounterInv, NewRow, RowOf
    <2>6. \A r \in DOMAIN mala' : Told(mala'[r].m, Level(mala'[r].count))
      <3>1. \A r \in DOMAIN mala : Told(mala[r].m, Level(mala[r].count))
        BY DEF CrossedIsTold, Told
      <3>2. Told(mala'[q].m, Level(mala'[q].count))
        BY <1>4, <2>2, <2>3
      <3>3. QED
        BY <2>3, <3>1, <3>2
    <2>7. QED
      BY <1>1, <1>2, <2>3, <2>4, <2>5, <2>6 DEF CounterMoves, CounterInv, ResetOps
  <1>7. QED
    BY <1>5, <1>6 DEF DeltaCommit

LEMMA ResetMoves ==
  ASSUME RequestInv, CounterInv, CrossedIsTold, NEW c \in Come, Op(c) \in ResetOps,
         ResetRead(c) \/ ResetLog(c) \/ ResetWrite(c)
  PROVE  CounterMoves(c)
  <1>1. Op(c) # "delta"
    BY DEF ResetOps
  <1>2. \A l : Goto(c, l) => /\ Come' = Come /\ UNCHANGED sent /\ pc'[c] = l
                             /\ \A d \in Come : d # c => pc'[d] = pc[d]
    BY OnlyGoes
  <1>3. CASE ResetRead(c)
    <2>1. PICK l \in {"log", "refused"} :
              Goto(c, l) /\ (l = "log" => ~(Op(c) = "reset" /\ InScope(c) = {}))
      BY <1>3 DEF ResetRead, Move
    <2>2. \A r \in InScope(c) : r \in DOMAIN mala /\ mala[r].count \in Nat
      BY DEF InScope, CounterInv
    <2>3. \/ UNCHANGED saw /\ l = "refused"
          \/ \E v : /\ saw' = [saw EXCEPT ![c] = v]
                    /\ \A x \in v.rows : x[1] \in DOMAIN mala /\ x[2] \in Nat
      <3>1. CASE UNCHANGED saw /\ Op(c) = "reset" /\ InScope(c) = {}
        BY <2>1, <3>1
      <3>2. CASE \E r \in InScope(c) : Keep(c, [rows |-> {<<r, mala[r].count>>}])
        <4>1. PICK r \in InScope(c) : saw' = [saw EXCEPT ![c] = [rows |-> {<<r, mala[r].count>>}]]
          BY <3>2 DEF Keep
        <4>2. PICK v : v = [rows |-> {<<r, mala[r].count>>}]
          OBVIOUS
        <4>3. \A x \in v.rows : x[1] = r /\ x[2] = mala[r].count
          BY <4>2
        <4>4. QED
          BY <2>2, <4>1, <4>2, <4>3
      <3>3. CASE Keep(c, [rows |-> {<<r, mala[r].count>> : r \in InScope(c)}])
        <4>1. PICK v : v = [rows |-> {<<r, mala[r].count>> : r \in InScope(c)}]
          OBVIOUS
        <4>2. \A x \in v.rows : \E r \in InScope(c) : x[1] = r /\ x[2] = mala[r].count
          BY <4>1
        <4>3. QED
          BY <2>2, <3>3, <4>1, <4>2 DEF Keep
      <3>4. QED
        BY <1>3, <3>1, <3>2, <3>3 DEF ResetRead, Forget
    <2>4. /\ \A d \in Come : d # c => saw'[d] = saw[d]
          /\ l = "log" => \A x \in saw'[c].rows : x[1] \in DOMAIN mala /\ x[2] \in Nat
      BY <2>3 DEF RequestInv, Come
    <2>5. UNCHANGED <<mala, resetLogs, crossed>>
      BY <1>3 DEF ResetRead, counterVars
    <2>6. QED
      BY <1>1, <1>2, <2>1, <2>4, <2>5 DEF CounterMoves, CounterInv
  <1>4. CASE ResetLog(c)
    <2>1. /\ pc[c] = "log" /\ Goto(c, "log") /\ UNCHANGED <<saw, mala, crossed>>
      BY <1>4 DEF ResetLog, Forget
    <2>2. \A l \in saw[c].rows : l[1] \in DOMAIN mala /\ l[2] \in Nat
      BY <2>1 DEF CounterInv
    <2>3. \A l \in resetLogs' : l \in resetLogs \/ (l.row \in DOMAIN mala /\ l.previous \in Nat)
      BY <1>4, <2>2 DEF ResetLog
    <2>4. QED
      BY <1>1, <1>2, <2>1, <2>2, <2>3 DEF CounterMoves, CounterInv
  <1>5. CASE ResetWrite(c)
    <2>1. Goto(c, "done") /\ UNCHANGED <<saw, resetLogs, crossed>>
      BY <1>5 DEF ResetWrite, Move, Forget
    <2>2. /\ DOMAIN mala' = DOMAIN mala
          /\ \A r \in DOMAIN mala :
                \/ mala'[r] = mala[r]
                \/ mala'[r] = [m |-> mala[r].m, type |-> mala[r].type, sub |-> mala[r].sub, count |-> 0]
      <3>1. \A r \in DOMAIN mala :
                [mala[r] EXCEPT !.count = 0]
                    = [m |-> mala[r].m, type |-> mala[r].type, sub |-> mala[r].sub, count |-> 0]
        BY DEF CounterInv, RowOf
      <3>2. QED
        BY <1>5, <3>1 DEF ResetWrite
    <2>3. \A r \in DOMAIN mala' : /\ mala'[r].m \in Devotees /\ mala'[r].count \in Nat
                                 /\ mala'[r] = RowOf(mala'[r])
      <3> SUFFICES ASSUME NEW r \in DOMAIN mala
                   PROVE  /\ mala'[r].m \in Devotees /\ mala'[r].count \in Nat
                          /\ mala'[r] = RowOf(mala'[r])
        BY <2>2
      <3>1. mala[r].m \in Devotees /\ mala[r].count \in Nat /\ mala[r] = RowOf(mala[r])
        BY DEF CounterInv
      <3>2. QED
        BY <2>2, <3>1 DEF RowOf
    <2>4. \A r \in DOMAIN mala' : Told(mala'[r].m, Level(mala'[r].count))
      <3> SUFFICES ASSUME NEW r \in DOMAIN mala
                   PROVE  Told(mala'[r].m, Level(mala'[r].count))
        BY <2>2
      <3>1. CASE mala'[r] = mala[r]
        BY <3>1 DEF CrossedIsTold, Told
      <3>2. CASE mala'[r].count = 0
        BY <3>2, LevelType DEF Told
      <3>3. QED
        BY <2>2, <3>1, <3>2
    <2>5. QED
      BY <1>1, <1>2, <2>1, <2>2, <2>3, <2>4 DEF CounterMoves, CounterInv
  <1>6. QED
    BY <1>3, <1>4, <1>5

LEMMA TypeMoves ==
  ASSUME RequestInv, CounterInv, CrossedIsTold, NEW c \in Come, Op(c) \in TypeOps,
         TypeRead(c) \/ TypeWrite(c)
  PROVE  CounterMoves(c)
  <1>1. Op(c) # "delta" /\ Op(c) \notin ResetOps
    BY DEF TypeOps, ResetOps
  <1>2. UNCHANGED <<saw, mala, resetLogs, crossed>> /\ \E l : Goto(c, l)
    BY DEF TypeRead, TypeWrite, Move, Forget, counterVars
  <1>3. Come' = Come /\ UNCHANGED sent /\ \A d \in Come : d # c => pc'[d] = pc[d]
    BY <1>2, OnlyGoes
  <1>4. QED
    BY <1>1, <1>2, <1>3 DEF CounterMoves, CounterInv

LEMMA CounterStepInv ==
  ASSUME RequestInv, CounterInv, CrossedIsTold, [Next]_vars
  PROVE  CounterInv' /\ CrossedIsTold'
  <1>1. CASE UNCHANGED counterVars /\ Apart(CounterOps)
    BY <1>1, RequestStep, CountersUntouched
  <1>2. ASSUME NEW c \in Come, CounterStep(c) PROVE CounterInv' /\ CrossedIsTold'
    <2>1. CounterMoves(c)
      BY <1>2, TapRead, TapNotified, TapCommitted, ResetMoves, TypeMoves DEF CounterStep
    <2>2. QED
      BY <2>1, CounterFrame
  <1>3. QED
    BY <1>1, <1>2, Services

\* A counter type with taps has members who tapped.
LEMMA OverviewAdds ==
  ASSUME CounterInv, NEW t \in CounterTypes
  PROVE  Overview(t).count = 0 \/ Overview(t).memberCount > 0
  <1> DEFINE rows == {r \in DOMAIN mala : mala[r].type = t}
             f == [r \in rows |-> mala[r].count]
             g == [r \in rows |-> mala[r].m]
             who == {mala[r].m : r \in rows}
  <1>1. IsFiniteSet(rows)
    BY FS_Subset DEF CounterInv
  <1>2. Overview(t).count = SumFunctionOnSet(f, rows) /\ Overview(t).memberCount = Cardinality(who)
    BY DEF Overview
  <1>3. CASE rows = {}
    <2>1. SumFunctionOnSet(f, {}) = 0
      BY SumEmpty
    <2>2. QED
      BY <1>2, <1>3, <2>1
  <1>4. CASE rows # {}
    <2>1. g \in Surjection(rows, who)
      BY DEF Surjection
    <2>2. who # {}
      BY <1>4
    <2> HIDE DEF g, who, rows
    <2>3. IsFiniteSet(who)
      BY <1>1, <2>1, FS_Surjection
    <2>4. Cardinality(who) # 0 /\ Cardinality(who) \in Nat
      BY <2>2, <2>3, FS_EmptySet, FS_CardinalityType
    <2>5. QED
      BY <1>2, <2>4
  <1>5. QED
    BY <1>3, <1>4

-----------------------------------------------------------------------------
(* Tours *)

\* Requests that have begun an entry of a participant of a tour with a target.
EntryLabels == {"sum", "save", "milestones", "reach", "certify", "attend", "next"}
Entering == {c \in Come : Op(c) = "count" /\ pc[c] \in EntryLabels}
Progress == [i : Nat, target : Nat, cum : Nat, due : SUBSET MILESTONES]

TourTypes ==
    /\ tour \in [status : TourStatuses, target : Nat, locked : BOOLEAN] /\ leastTarget \in Nat
    /\ milestones \in [Pilgrims -> SUBSET MILESTONES]
    /\ peak \in [Pilgrims -> [Days -> Nat]]
    /\ daily = [m \in Pilgrims |-> daily[m]]
    /\ \A m \in Pilgrims : /\ DOMAIN daily[m] \subseteq Days
                           /\ \A d \in DOMAIN daily[m] : daily[m][d].n \in Nat

\* A count that stands was entered.
BelowPeak == \A m \in Pilgrims, d \in Days : CountOf(m, d) <= peak[m][d]

\* The counts entered reach p percent of every target the tour had.
Reached(counts, target, p) == 100 * SumFunctionOnSet(counts, Days) >= p * target

\* What a request has in hand of entry e: a target the tour had, and a total
\* and milestones that the counts entered bear out.
Borne(e, label, hand, counts, target) ==
    /\ target > 0 /\ hand.target >= target
    /\ label = "save" => hand.cum <= SumFunctionOnSet(counts[e.m], Days \ {e.day}) + e.n
    /\ label \in {"milestones", "reach", "certify"} =>
           \A p \in hand.due : Reached(counts[e.m], target, p)
    /\ label = "reach" => hand.due # {}

EntryInv ==
    \A c \in Entering :
        /\ saw[c] \in Progress /\ saw[c].i \in 1 .. Len(sent[c].entries)
        /\ pc[c] = "next" => saw[c].i < Len(sent[c].entries)
        /\ Borne(Entry(c), pc[c], saw[c], peak, leastTarget)

\* There is no target before the tour, and no milestone before a target.
TargetInv ==
    /\ tour.status = "none" => tour.target = 0 /\ leastTarget = 0
    /\ tour.target > 0 => leastTarget > 0 /\ tour.target >= leastTarget
    /\ \A m \in Pilgrims : milestones[m] # {} => leastTarget > 0
    /\ \A c \in Come : Op(c) = "updateTour" /\ pc[c] = "update" => tour.status # "none"

EarnedInv == TourTypes /\ BelowPeak /\ EntryInv /\ TargetInv /\ MilestoneEarned

\* Rooms are of participants, and a request moves rooms of its own member.
Beds == [id : Calls, m : Pilgrims, room : DOMAIN TourRooms]

RoomInv ==
    /\ enrolled \subseteq Pilgrims /\ beds \subseteq Beds
    /\ \A b \in beds : b.m \in enrolled
    /\ \A c \in Come : Op(c) = "assignRoom" /\ pc[c] = "assign" =>
           \A b \in saw[c].beds : b \in Beds /\ b.m = sent[c].m

JobInv ==
    /\ jobs \in [JobIds -> JobType]
    /\ \A j \in JobIds : jobs[j].state \in {"none", "waiting", "active"} => jobs[j].tries < Attempts
    /\ certificate \subseteq Pilgrims /\ awards \in [Pilgrims -> Nat]

\* A member whose certificate is stored (in) or not, with the job j: the attempt
\* that has stored it is the only one that counts it, unless it failed then (lost).
Certified(in, reached, counted, lost, j) ==
    /\ in => reached
    /\ counted = IF in /\ ~lost /\ ~(j.state = "active" /\ j.at = "award") THEN 1 ELSE 0
    /\ lost => in /\ ~(j.state = "active" /\ j.at = "award")
    /\ j.state = "active" /\ j.at = "save" => reached /\ ~in
    /\ j.state = "active" /\ j.at = "award" => in

CertificateInv ==
    \A m \in Pilgrims : Certified(m \in certificate, 100 \in milestones[m], awards[m],
                                 m \in uncounted, jobs[CertJob(m)])

\* A percentage that is reached, without the division.
LEMMA PctReached ==
  ASSUME NEW total \in Nat, NEW target \in Nat \ {0}, NEW p \in MILESTONES, Pct(total, target) >= p
  PROVE  100 * total >= p * target
  <1>1. PICK q : q = (total * 100) \div target
    OBVIOUS
  <1>2. target * q <= total * 100 /\ q \in Nat /\ q >= p
    BY <1>1 DEF Pct
  <1>3. target * p <= target * q
    BY <1>2 DEF MILESTONES
  <1>4. QED
    BY <1>2, <1>3 DEF MILESTONES

LEMMA FirstMilestone ==
  ASSUME NEW S \in SUBSET MILESTONES, S # {}
  PROVE  Min(S) \in S
  <1>1. \E x \in S : \A y \in S : x <= y
    <2>1. CASE 25 \in S
      BY <2>1 DEF MILESTONES
    <2>2. CASE 25 \notin S /\ 50 \in S
      BY <2>2 DEF MILESTONES
    <2>3. CASE 25 \notin S /\ 50 \notin S /\ 75 \in S
      BY <2>3 DEF MILESTONES
    <2>4. CASE 25 \notin S /\ 50 \notin S /\ 75 \notin S
      <3>1. \A x \in S : x = 100
        BY <2>4 DEF MILESTONES
      <3>2. QED
        BY <3>1
    <2>5. QED
      BY <2>1, <2>2, <2>3, <2>4
  <1>2. QED
    BY <1>1 DEF Min

\* Counts that grow and a target that sinks do not take a milestone back.
Grows(counts, more) ==
    /\ counts \in [Pilgrims -> [Days -> Nat]] /\ more \in [Pilgrims -> [Days -> Nat]]
    /\ \A m \in Pilgrims, d \in Days : counts[m][d] <= more[m][d]
Sinks(target, less) == target > 0 => less > 0 /\ less <= target

LEMMA SumGrows ==
  ASSUME NEW counts, NEW more, Grows(counts, more), NEW m \in Pilgrims, NEW S \in SUBSET Days
  PROVE  /\ SumFunctionOnSet(counts[m], S) \in Nat /\ SumFunctionOnSet(more[m], S) \in Nat
         /\ SumFunctionOnSet(counts[m], S) <= SumFunctionOnSet(more[m], S)
  <1>1. IsFiniteSet(S)
    BY FS_Subset, TourAssumption
  <1>2. \A d \in S : counts[m][d] \in Nat /\ more[m][d] \in Nat /\ counts[m][d] <= more[m][d]
    BY DEF Grows
  <1> HIDE DEF Grows
  <1>3. QED
    BY ONLY <1>1, <1>2, SumType, SumDominated

LEMMA ReachedStays ==
  ASSUME NEW counts, NEW more, Grows(counts, more), NEW m \in Pilgrims, NEW p \in MILESTONES,
         NEW target \in Nat, NEW less \in Nat, target > 0, Sinks(target, less),
         Reached(counts[m], target, p)
  PROVE  Reached(more[m], less, p)
  <1>1. PICK a, b \in Nat : /\ a = SumFunctionOnSet(counts[m], Days) /\ a <= b
                            /\ b = SumFunctionOnSet(more[m], Days)
    BY SumGrows
  <1>2. 100 * a >= p * target
    BY <1>1 DEF Reached
  <1>3. p * target >= p * less
    BY DEF Sinks, MILESTONES
  <1>4. 100 * b >= p * less
    BY <1>1, <1>2, <1>3 DEF MILESTONES
  <1>5. QED
    BY <1>1, <1>4 DEF Reached

Entries == [m : Pilgrims, day : Days, n : Nat, present : BOOLEAN]

LEMMA BorneStays ==
  ASSUME NEW e \in Entries, NEW label, NEW hand \in Progress,
         NEW counts, NEW more, Grows(counts, more), NEW target \in Nat, NEW less \in Nat,
         Sinks(target, less), Borne(e, label, hand, counts, target)
  PROVE  Borne(e, label, hand, more, less)
  <1>1. /\ e.m \in Pilgrims /\ e.n \in Nat /\ hand.target \in Nat /\ hand.cum \in Nat
        /\ hand.due \subseteq MILESTONES
    BY DEF Entries, Progress
  <1>2. less > 0 /\ hand.target >= less
    BY <1>1 DEF Borne, Sinks
  <1>3. label = "save" => hand.cum <= SumFunctionOnSet(more[e.m], Days \ {e.day}) + e.n
    <2>1. PICK a, b \in Nat : /\ a = SumFunctionOnSet(counts[e.m], Days \ {e.day}) /\ a <= b
                              /\ b = SumFunctionOnSet(more[e.m], Days \ {e.day})
      BY <1>1, SumGrows
    <2>2. QED
      BY <1>1, <2>1 DEF Borne
  <1>4. label \in {"milestones", "reach", "certify"} => \A p \in hand.due : Reached(more[e.m], less, p)
    BY <1>1, ReachedStays DEF Borne
  <1>5. QED
    BY <1>2, <1>3, <1>4 DEF Borne

\* The entries of a request are as its body gives them.
LEMMA EntryType ==
  ASSUME RequestInv, NEW c \in Come, Op(c) = "count"
  PROVE  sent[c].entries \in Seq(Entries) /\ sent[c].entries # <<>>
  BY TourInputs DEF RequestInv, Op, Entries

LEMMA EntryOfBody ==
  ASSUME RequestInv, NEW c \in Come, Op(c) = "count", NEW i \in 1 .. Len(sent[c].entries)
  PROVE  sent[c].entries[i] \in Entries
  BY EntryType

-----------------------------------------------------------------------------
(* What is enough of a step that touches a tour: of its rows, and of what  *)
(* the request that takes it has in hand.                                  *)

RowsMove ==
    /\ TourTypes' /\ BelowPeak'
    /\ Grows(peak, peak') /\ Sinks(leastTarget, leastTarget')
    /\ \A m \in Pilgrims : \A p \in milestones'[m] :
           p \in milestones[m] \/ (leastTarget > 0 /\ Reached(peak[m], leastTarget, p))
    /\ tour'.status = "none" => tour.status = "none" /\ tour'.target = 0 /\ leastTarget' = 0
    /\ tour'.target > 0 => leastTarget' > 0 /\ tour'.target >= leastTarget'

HandMoves(c) ==
    /\ Come' = Come /\ UNCHANGED sent
    /\ \A d \in Come : d # c => pc'[d] = pc[d] /\ saw'[d] = saw[d]
    /\ Op(c) = "updateTour" /\ pc'[c] = "update" => tour'.status # "none"
    /\ Op(c) = "count" /\ pc'[c] \in EntryLabels =>
           /\ saw'[c] \in Progress /\ saw'[c].i \in 1 .. Len(sent[c].entries)
           /\ pc'[c] = "next" => saw'[c].i < Len(sent[c].entries)
           /\ Borne(sent[c].entries[saw'[c].i], pc'[c], saw'[c], peak', leastTarget')

LEMMA EarnedFrame ==
  ASSUME RequestInv, EarnedInv, NEW c \in Come, RowsMove, HandMoves(c)
  PROVE  EarnedInv'
  <1>1. /\ leastTarget \in Nat /\ leastTarget' \in Nat
        /\ milestones \in [Pilgrims -> SUBSET MILESTONES]
        /\ milestones' \in [Pilgrims -> SUBSET MILESTONES]
    BY DEF EarnedInv, TourTypes, RowsMove
  <1>2. \A m \in Pilgrims : \A p \in milestones'[m] :
            leastTarget > 0 /\ Reached(peak[m], leastTarget, p)
    BY DEF EarnedInv, TargetInv, MilestoneEarned, Reached, RowsMove
  <1>3. \A m \in Pilgrims : \A p \in milestones'[m] :
            leastTarget' > 0 /\ Reached(peak'[m], leastTarget', p)
    <2> SUFFICES ASSUME NEW m \in Pilgrims, NEW p \in milestones'[m]
                 PROVE  leastTarget' > 0 /\ Reached(peak'[m], leastTarget', p)
      OBVIOUS
    <2>1. leastTarget > 0 /\ Reached(peak[m], leastTarget, p) /\ p \in MILESTONES
      BY <1>1, <1>2
    <2>2. Grows(peak, peak') /\ Sinks(leastTarget, leastTarget')
      BY DEF RowsMove
    <2>3. Reached(peak'[m], leastTarget', p)
      BY <1>1, <2>1, <2>2, ReachedStays
    <2>4. leastTarget' > 0
      BY <2>1, <2>2 DEF Sinks
    <2>5. QED
      BY <2>3, <2>4
  <1>4. MilestoneEarned'
    BY <1>3 DEF MilestoneEarned, Reached
  <1>5. TargetInv'
    <2>1. \A d \in Come' : Op(d)' = "updateTour" /\ pc'[d] = "update" => tour'.status # "none"
      BY DEF HandMoves, RowsMove, EarnedInv, TargetInv, Op
    <2>2. \A m \in Pilgrims : milestones'[m] # {} => leastTarget' > 0
      BY <1>3
    <2>3. QED
      BY <2>1, <2>2 DEF TargetInv, RowsMove
  <1>6. EntryInv'
    <2> SUFFICES ASSUME NEW d \in Come, Op(d) = "count", pc'[d] \in EntryLabels
                 PROVE  /\ saw'[d] \in Progress /\ saw'[d].i \in 1 .. Len(sent[d].entries)
                        /\ pc'[d] = "next" => saw'[d].i < Len(sent[d].entries)
                        /\ Borne(sent[d].entries[saw'[d].i], pc'[d], saw'[d], peak', leastTarget')
      BY DEF EntryInv, Entering, Entry, HandMoves, Op, Borne, Reached
    <2>1. CASE d = c
      BY <2>1 DEF HandMoves
    <2>2. CASE d # c
      <3>1. d \in Entering /\ pc'[d] = pc[d] /\ saw'[d] = saw[d]
        BY <2>2 DEF HandMoves, Entering
      <3>2. /\ saw[d] \in Progress /\ saw[d].i \in 1 .. Len(sent[d].entries)
            /\ pc[d] = "next" => saw[d].i < Len(sent[d].entries)
            /\ Borne(sent[d].entries[saw[d].i], pc[d], saw[d], peak, leastTarget)
        BY <3>1 DEF EarnedInv, EntryInv, Entry
      <3>3. sent[d].entries[saw[d].i] \in Entries
        BY <3>2, EntryOfBody
      <3>4. Grows(peak, peak') /\ Sinks(leastTarget, leastTarget')
        BY DEF RowsMove
      <3>5. Borne(sent[d].entries[saw[d].i], pc[d], saw[d], peak', leastTarget')
        BY <1>1, <3>2, <3>3, <3>4, BorneStays
      <3>6. QED
        BY <3>1, <3>2, <3>5
    <2>3. QED
      BY <2>1, <2>2
  <1>7. QED
    BY <1>4, <1>5, <1>6 DEF EarnedInv, RowsMove

\* A tour whose rows stay.
LEMMA RowsStay ==
  ASSUME EarnedInv, UNCHANGED <<tour, daily, milestones, peak, leastTarget>>
  PROVE  RowsMove
  <1>1. TourTypes' /\ BelowPeak'
    BY DEF EarnedInv, TourTypes, BelowPeak, CountOf
  <1>2. Grows(peak, peak') /\ Sinks(leastTarget, leastTarget')
    BY DEF EarnedInv, TourTypes, Grows, Sinks
  <1>3. QED
    BY <1>1, <1>2 DEF RowsMove, EarnedInv, TargetInv

\* The tour itself is written: its counts and milestones stay.
LEMMA TourWritten ==
  ASSUME EarnedInv, UNCHANGED <<daily, milestones, peak>>,
         tour' \in [status : TourStatuses, target : Nat, locked : BOOLEAN], leastTarget' \in Nat,
         Sinks(leastTarget, leastTarget'),
         tour'.status = "none" => tour.status = "none" /\ tour'.target = 0 /\ leastTarget' = 0,
         tour'.target > 0 => leastTarget' > 0 /\ tour'.target >= leastTarget'
  PROVE  RowsMove
  <1>1. TourTypes' /\ BelowPeak'
    BY DEF EarnedInv, TourTypes, BelowPeak, CountOf
  <1>2. Grows(peak, peak')
    BY DEF EarnedInv, TourTypes, Grows
  <1>3. QED
    BY <1>1, <1>2 DEF RowsMove

LEMMA Writes ==
  ASSUME RequestInv, EarnedInv, NEW c \in Come, NEW l, Goto(c, l),
         Op(c) # "count", UNCHANGED saw \/ \E v : saw' = [saw EXCEPT ![c] = v],
         Op(c) = "updateTour" /\ l = "update" => tour'.status # "none"
  PROVE  HandMoves(c)
  <1>1. /\ Come' = Come /\ UNCHANGED sent /\ pc'[c] = l
        /\ \A d \in Come : d # c => pc'[d] = pc[d]
    BY OnlyGoes
  <1>2. \A d \in Come : d # c => saw'[d] = saw[d]
    BY DEF RequestInv, Come
  <1>3. QED
    BY <1>1, <1>2 DEF HandMoves

\* Steps of requests that enter no count.
LEMMA TourSetUp ==
  ASSUME RequestInv, EarnedInv, NEW c \in Come, Op(c) # "count", TourStep(c)
  PROVE  RowsMove /\ HandMoves(c)
  <1> USE DEF Move, Forget, Keep
  <1>1. /\ tour \in [status : TourStatuses, target : Nat, locked : BOOLEAN] /\ leastTarget \in Nat
        /\ tour.status = "none" => tour.target = 0 /\ leastTarget = 0
        /\ tour.target > 0 => leastTarget > 0 /\ tour.target >= leastTarget
    BY DEF EarnedInv, TourTypes, TargetInv
  <1>2. CASE Op(c) = "createTour" /\ CreateTour(c)
    <2>1. sent[c].target \in Nat
      BY <1>2, TourInputs DEF RequestInv, Op
    <2>2. CASE UNCHANGED <<tour, leastTarget>>
      BY <1>2, <2>2, RowsStay, Writes DEF CreateTour
    <2>3. CASE /\ tour' = [status |-> "DRAFT", target |-> sent[c].target, locked |-> FALSE]
               /\ leastTarget' = sent[c].target
      <3>1. leastTarget = 0 /\ UNCHANGED <<daily, milestones, peak, saw>> /\ Goto(c, "done")
        BY <1>1, <1>2, <2>3 DEF CreateTour
      <3>2. RowsMove
        BY <1>1, <2>1, <2>3, <3>1, TourWritten DEF TourStatuses, Sinks
      <3>3. QED
        BY <1>2, <3>1, <3>2, Writes
    <2>4. QED
      BY <1>2, <2>2, <2>3 DEF CreateTour
  <1>3. CASE Op(c) = "updateTour" /\ UpdateTourRead(c)
    BY <1>3, RowsStay, Writes DEF UpdateTourRead, allTour, tourVars, tourHistory
  <1>4. CASE Op(c) = "updateTour" /\ UpdateTourWrite(c)
    <2>1. sent[c].target \in Nat
      BY <1>4, TourInputs DEF RequestInv, Op
    <2>2. tour.status # "none"
      BY <1>4 DEF UpdateTourWrite, EarnedInv, TargetInv
    <2>3. /\ tour' = [tour EXCEPT !.target = sent[c].target]
          /\ UNCHANGED <<daily, milestones, peak, saw>> /\ Goto(c, "done")
          /\ leastTarget' = IF \/ leastTarget = 0
                               \/ sent[c].target > 0 /\ sent[c].target < leastTarget
                            THEN sent[c].target ELSE leastTarget
      BY <1>4 DEF UpdateTourWrite
    <2>4. /\ tour' \in [status : TourStatuses, target : Nat, locked : BOOLEAN]
          /\ tour'.status = tour.status /\ tour'.target = sent[c].target
      BY <1>1, <2>1, <2>3
    <2>5. /\ leastTarget' \in Nat /\ Sinks(leastTarget, leastTarget')
          /\ tour'.target > 0 => leastTarget' > 0 /\ tour'.target >= leastTarget'
      BY <1>1, <2>1, <2>3, <2>4 DEF Sinks
    <2>6. RowsMove
      BY <2>2, <2>3, <2>4, <2>5, TourWritten
    <2>7. QED
      BY <1>4, <2>3, <2>6, Writes
  <1>5. CASE Op(c) = "transitionTour" /\ (TransitionTour(c) \/ AnnounceTour(c))
    <2>1. CASE AnnounceTour(c)
      BY <1>5, <2>1, RowsStay, Writes DEF AnnounceTour, tourHistory
    <2>2. CASE TransitionTour(c)
      <3>1. sent[c].to \in TourStatuses \ {"none"}
        BY <1>5, TourInputs DEF RequestInv, Op
      <3>2. /\ tour' = [tour EXCEPT !.status = sent[c].to]
            /\ UNCHANGED <<daily, milestones, peak, leastTarget, saw>> /\ \E l : Goto(c, l)
        BY <2>2 DEF TransitionTour, tourHistory
      <3>3. /\ tour' \in [status : TourStatuses, target : Nat, locked : BOOLEAN]
            /\ tour'.status # "none" /\ tour'.target = tour.target
        BY <1>1, <3>1, <3>2
      <3>4. RowsMove
        BY <1>1, <3>2, <3>3, TourWritten DEF Sinks
      <3>5. QED
        BY <1>5, <3>2, <3>4, Writes
    <2>3. QED
      BY <1>5, <2>1, <2>2
  <1>6. CASE Op(c) = "join" /\ AddParticipantCreate(c)
    <2>1. CASE UNCHANGED tour
      BY <1>6, <2>1, RowsStay, Writes DEF AddParticipantCreate, tourHistory
    <2>2. CASE tour' = [tour EXCEPT !.locked = @ \/ ~saw[c].locked]
      <3>1. UNCHANGED <<daily, milestones, peak, leastTarget, saw>> /\ \E l : Goto(c, l)
        BY <1>6, <2>2 DEF AddParticipantCreate, tourHistory
      <3>2. /\ tour' \in [status : TourStatuses, target : Nat, locked : BOOLEAN]
            /\ tour'.status = tour.status /\ tour'.target = tour.target
        <4>1. PICK b \in BOOLEAN : b = (tour.locked \/ ~saw[c].locked)
          OBVIOUS
        <4>2. tour' = [tour EXCEPT !.locked = b]
          BY <2>2, <4>1
        <4>3. QED
          BY <1>1, <4>2
      <3>3. RowsMove
        BY <1>1, <3>1, <3>2, TourWritten DEF Sinks
      <3>4. QED
        BY <1>6, <3>1, <3>3, Writes
    <2>3. QED
      BY <1>6, <2>1, <2>2 DEF AddParticipantCreate
  <1>7. CASE /\ Op(c) \notin {"createTour", "updateTour", "transitionTour", "count"}
             /\ UNCHANGED <<tour, daily, milestones, peak, leastTarget>>
    BY <1>7, RowsStay, Writes, TourGoes DEF Goes, HandMoves, RequestInv, Come
  <1>8. QED
    BY <1>2, <1>3, <1>4, <1>5, <1>6, <1>7
       DEF TourStep, PlainRows, AddParticipantRead, DeleteParticipant, SubmitMedicalForm, WriteTourRow,
           AssignRoomCount, AssignRoomFind, AssignRoomWrite, AssignRoomLog, MarkAttendance,
           ParticipantGone, allTour, tourVars, tourHistory

\* A request at an entry goes on with v in hand.
LEMMA EntryGoes ==
  ASSUME RequestInv, NEW c \in Come, Op(c) = "count", NEW l, Goto(c, l),
         NEW v, saw' = [saw EXCEPT ![c] = v],
         l \in EntryLabels => /\ v \in Progress /\ v.i \in 1 .. Len(sent[c].entries)
                              /\ l = "next" => v.i < Len(sent[c].entries)
                              /\ Borne(sent[c].entries[v.i], l, v, peak', leastTarget')
  PROVE  HandMoves(c)
  <1>1. /\ Come' = Come /\ UNCHANGED sent /\ pc'[c] = l
        /\ \A d \in Come : d # c => pc'[d] = pc[d]
    BY OnlyGoes
  <1>2. saw'[c] = v /\ \A d \in Come : d # c => saw'[d] = saw[d]
    BY DEF RequestInv, Come
  <1>3. QED
    BY <1>1, <1>2 DEF HandMoves

\* What a request at an entry has in hand.
LEMMA InHand ==
  ASSUME RequestInv, EarnedInv, NEW c \in Come, Op(c) = "count", pc[c] \in EntryLabels
  PROVE  /\ saw[c] \in Progress /\ saw[c].i \in 1 .. Len(sent[c].entries)
         /\ pc[c] = "next" => saw[c].i < Len(sent[c].entries)
         /\ Entry(c) \in Entries /\ Entry(c) = sent[c].entries[saw[c].i]
         /\ Borne(Entry(c), pc[c], saw[c], peak, leastTarget)
         /\ saw[c].due \subseteq MILESTONES /\ saw[c].cum \in Nat /\ saw[c].target \in Nat
         /\ saw' = saw => saw' = [saw EXCEPT ![c] = saw[c]]
  <1>1. c \in Entering
    BY DEF Entering
  <1>2. /\ saw[c] \in Progress /\ saw[c].i \in 1 .. Len(sent[c].entries)
        /\ pc[c] = "next" => saw[c].i < Len(sent[c].entries)
        /\ Borne(Entry(c), pc[c], saw[c], peak, leastTarget)
    BY <1>1 DEF EarnedInv, EntryInv
  <1>3. Entry(c) \in Entries
    BY <1>2, EntryOfBody DEF Entry
  <1>4. saw[c].due \subseteq MILESTONES /\ saw[c].cum \in Nat /\ saw[c].target \in Nat
    BY <1>2 DEF Progress
  <1>5. saw' = saw => saw' = [saw EXCEPT ![c] = saw[c]]
    BY DEF RequestInv, Come
  <1>6. QED
    BY <1>2, <1>3, <1>4, <1>5 DEF Entry

LEMMA EntryBegun ==
  ASSUME RequestInv, EarnedInv, NEW c \in Come, Op(c) = "count", EntryRead(c)
  PROVE  RowsMove /\ HandMoves(c)
  <1>1. RowsMove /\ UNCHANGED <<peak, leastTarget>>
    BY RowsStay DEF EntryRead, allTour, tourVars, tourHistory
  <1>2. PICK i : i = IF pc[c] = "start" THEN 1 ELSE saw[c].i + 1
    OBVIOUS
  <1>3. i \in 1 .. Len(sent[c].entries) /\ i \in Nat
    <2>1. Len(sent[c].entries) \in Nat /\ Len(sent[c].entries) > 0
      BY EntryType
    <2>2. CASE pc[c] = "start"
      BY <1>2, <2>1, <2>2
    <2>3. CASE pc[c] = "next"
      <3>1. saw[c].i \in 1 .. Len(sent[c].entries) /\ saw[c].i < Len(sent[c].entries)
        BY <2>3, InHand DEF EntryLabels
      <3>2. QED
        BY <1>2, <2>1, <2>3, <3>1
    <2>4. QED
      BY <2>2, <2>3 DEF EntryRead
  <1>4. PICK l \in {"sum", "refused"} : Goto(c, l) /\ (l = "sum" => tour.target > 0)
    BY DEF EntryRead
  <1>5. PICK v : v = [i |-> i, target |-> tour.target, cum |-> 0, due |-> {}]
    OBVIOUS
  <1>6. saw' = [saw EXCEPT ![c] = v]
    BY <1>2, <1>5 DEF EntryRead, Keep
  <1>7. tour.target \in Nat /\ (tour.target > 0 => leastTarget > 0 /\ tour.target >= leastTarget)
    BY DEF EarnedInv, TourTypes, TargetInv
  <1>8. /\ v \in Progress /\ v.i = i
        /\ l = "sum" => Borne(sent[c].entries[v.i], l, v, peak, leastTarget)
    BY <1>3, <1>4, <1>5, <1>7 DEF Progress, Borne
  <1>9. HandMoves(c)
    BY <1>1, <1>3, <1>4, <1>6, <1>8, EntryGoes DEF EntryLabels
  <1>10. QED
    BY <1>1, <1>9

\* The total of the other days is at most that of the counts entered for them.
LEMMA EntrySummed ==
  ASSUME RequestInv, EarnedInv, NEW c \in Come, Op(c) = "count", EntrySum(c)
  PROVE  RowsMove /\ HandMoves(c)
  <1>1. RowsMove /\ UNCHANGED <<peak, leastTarget>>
    BY RowsStay DEF EntrySum, allTour, tourVars, tourHistory
  <1>2. pc[c] = "sum" /\ Goto(c, "save")
    BY DEF EntrySum, Move
  <1>3. PICK e \in Entries : e = Entry(c)
    BY <1>2, InHand DEF EntryLabels
  <1>4. e.m \in Pilgrims /\ e.day \in Days /\ e.n \in Nat
    BY DEF Entries
  <1>5. /\ SumFunctionOnSet(Counts(e.m), Days \ {e.day}) \in Nat
        /\ SumFunctionOnSet(Counts(e.m), Days \ {e.day}) <= SumFunctionOnSet(peak[e.m], Days \ {e.day})
        /\ SumFunctionOnSet(peak[e.m], Days \ {e.day}) \in Nat
    <2>1. IsFiniteSet(Days \ {e.day})
      BY FS_Subset, TourAssumption
    <2>2. \A d \in Days \ {e.day} :
              /\ Counts(e.m)[d] \in Nat /\ peak[e.m][d] \in Nat /\ Counts(e.m)[d] <= peak[e.m][d]
      BY <1>4 DEF Counts, CountOf, EarnedInv, TourTypes, BelowPeak
    <2>3. QED
      BY ONLY <2>1, <2>2, SumType, SumDominated
  <1>6. PICK n \in Nat : n = TotalWithout(e.m, e.day) + e.n
    BY <1>4, <1>5 DEF TotalWithout
  <1>7. PICK v : v = [saw[c] EXCEPT !.cum = n]
    OBVIOUS
  <1>8. saw' = [saw EXCEPT ![c] = v]
    BY <1>3, <1>6, <1>7 DEF EntrySum, Keep, PreviousTotal
  <1>9. /\ saw[c] \in Progress /\ saw[c].i \in 1 .. Len(sent[c].entries)
        /\ e = sent[c].entries[saw[c].i]
        /\ Borne(e, "sum", saw[c], peak, leastTarget)
    BY <1>2, <1>3, InHand DEF EntryLabels
  <1>10. v \in Progress /\ v.i = saw[c].i /\ v.cum = n /\ v.target = saw[c].target
    BY <1>7, <1>9 DEF Progress
  <1>11. n <= SumFunctionOnSet(peak[e.m], Days \ {e.day}) + e.n
    BY <1>4, <1>5, <1>6 DEF TotalWithout
  <1>12. Borne(e, "save", v, peak, leastTarget)
    BY <1>9, <1>10, <1>11 DEF Borne
  <1>13. HandMoves(c)
    BY <1>1, <1>2, <1>8, <1>9, <1>10, <1>12, EntryGoes
  <1>14. QED
    BY <1>1, <1>13

LEMMA Larger ==
  ASSUME NEW a \in Nat, NEW b \in Nat
  PROVE  Max({a, b}) \in Nat /\ Max({a, b}) >= a /\ Max({a, b}) >= b
  <1>1. \E x \in {a, b} : \A y \in {a, b} : x >= y
    OBVIOUS
  <1>2. Max({a, b}) \in {a, b} /\ \A y \in {a, b} : Max({a, b}) >= y
    BY <1>1 DEF Max
  <1>3. QED
    BY <1>2

\* The count that is written is in the peaks, and they bear its milestones out.
LEMMA EntrySaved ==
  ASSUME RequestInv, EarnedInv, NEW c \in Come, Op(c) = "count", EntrySave(c)
  PROVE  RowsMove /\ HandMoves(c)
  <1>1. pc[c] = "save" /\ Goto(c, "milestones") /\ UNCHANGED <<tour, milestones, leastTarget>>
    BY DEF EntrySave, Move
  <1>2. PICK e \in Entries : e = Entry(c)
    BY <1>1, InHand DEF EntryLabels
  <1>3. e.m \in Pilgrims /\ e.day \in Days /\ e.n \in Nat
    BY DEF Entries
  <1>4. /\ saw[c] \in Progress /\ saw[c].i \in 1 .. Len(sent[c].entries)
        /\ e = sent[c].entries[saw[c].i] /\ saw[c].cum \in Nat /\ saw[c].target \in Nat
        /\ Borne(e, "save", saw[c], peak, leastTarget)
    BY <1>1, <1>2, InHand DEF EntryLabels
  <1>5. /\ peak \in [Pilgrims -> [Days -> Nat]] /\ leastTarget \in Nat
        /\ milestones \in [Pilgrims -> SUBSET MILESTONES]
    BY DEF EarnedInv, TourTypes
  <1>6. PICK k \in Nat : k = Max({peak[e.m][e.day], e.n}) /\ k >= peak[e.m][e.day] /\ k >= e.n
    <2>1. peak[e.m][e.day] \in Nat
      BY <1>3, <1>5
    <2>2. QED
      BY <1>3, <2>1, Larger
  <1>7. peak' = [peak EXCEPT ![e.m] = [peak[e.m] EXCEPT ![e.day] = k]]
    BY <1>2, <1>6 DEF EntrySave
  <1>8. /\ peak' \in [Pilgrims -> [Days -> Nat]] /\ peak'[e.m][e.day] = k
        /\ \A m \in Pilgrims, d \in Days : m # e.m \/ d # e.day => peak'[m][d] = peak[m][d]
    BY <1>3, <1>5, <1>7
  <1>9. Grows(peak, peak') /\ Sinks(leastTarget, leastTarget')
    <2>1. \A m \in Pilgrims, d \in Days : peak[m][d] \in Nat /\ peak[m][d] <= peak'[m][d]
      BY <1>5, <1>6, <1>8
    <2>2. QED
      BY <1>1, <1>5, <1>8, <2>1 DEF Grows, Sinks
  <1>10. /\ daily' = [m \in Pilgrims |-> daily'[m]]
         /\ \A m \in Pilgrims : m # e.m => daily'[m] = daily[m]
         /\ DOMAIN daily'[e.m] = DOMAIN daily[e.m] \union {e.day}
         /\ daily'[e.m][e.day].n = e.n
         /\ \A d \in DOMAIN daily[e.m] : d # e.day => daily'[e.m][d] = daily[e.m][d]
    <2>1. daily' = [daily EXCEPT ![e.m] = Put(daily[e.m], e.day, [n |-> e.n, cum |-> saw[c].cum])]
      BY <1>2 DEF EntrySave
    <2>2. daily' = [m \in Pilgrims |-> daily'[m]] /\ \A m \in Pilgrims : m # e.m => daily'[m] = daily[m]
      BY <1>3, <2>1 DEF EarnedInv, TourTypes
    <2>3. daily'[e.m] = Put(daily[e.m], e.day, [n |-> e.n, cum |-> saw[c].cum])
      BY <1>3, <2>1 DEF EarnedInv, TourTypes
    <2>4. QED
      BY <2>2, <2>3 DEF Put
  <1>11. TourTypes'
    <2>1. \A m \in Pilgrims : /\ DOMAIN daily'[m] \subseteq Days
                              /\ \A d \in DOMAIN daily'[m] : daily'[m][d].n \in Nat
      BY <1>3, <1>10 DEF EarnedInv, TourTypes
    <2>2. QED
      BY <1>1, <1>8, <1>10, <2>1 DEF EarnedInv, TourTypes
  <1>12. BelowPeak'
    <2> SUFFICES ASSUME NEW m \in Pilgrims, NEW d \in Days
                 PROVE  CountOf(m, d)' <= peak'[m][d]
      BY DEF BelowPeak
    <2>1. CountOf(m, d) <= peak[m][d] /\ peak[m][d] \in Nat /\ peak'[m][d] \in Nat
      BY <1>5, <1>8 DEF EarnedInv, BelowPeak
    <2>2. CASE m = e.m /\ d = e.day
      BY <1>6, <1>8, <1>10, <2>2 DEF CountOf
    <2>3. CASE m # e.m \/ d # e.day
      <3>1. CountOf(m, d)' = CountOf(m, d)
        BY <1>10, <2>3 DEF CountOf
      <3>2. QED
        BY <1>8, <2>1, <2>3, <3>1
    <2>4. QED
      BY <2>2, <2>3
  <1>13. RowsMove
    BY <1>1, <1>9, <1>11, <1>12 DEF RowsMove, EarnedInv, TargetInv
  <1>14. PICK v : v = [saw[c] EXCEPT !.due = {p \in MILESTONES : Pct(saw[c].cum, saw[c].target) >= p}]
    OBVIOUS
  <1>15. saw' = [saw EXCEPT ![c] = v]
    BY <1>14 DEF EntrySave, Keep
  <1>16. /\ v \in Progress /\ v.i = saw[c].i /\ v.target = saw[c].target
         /\ \A p \in v.due : p \in MILESTONES /\ Pct(saw[c].cum, saw[c].target) >= p
    BY <1>4, <1>14 DEF Progress
  <1>17. saw[c].cum <= SumFunctionOnSet(peak'[e.m], Days) /\ SumFunctionOnSet(peak'[e.m], Days) \in Nat
    <2>1. SumFunctionOnSet(peak'[e.m], Days) = k + SumFunctionOnSet(peak'[e.m], Days \ {e.day})
      <3>1. \A d \in Days : peak'[e.m][d] \in Nat
        BY <1>3, <1>8
      <3>2. IsFiniteSet(Days)
        BY TourAssumption
      <3>3. QED
        BY <1>3, <1>8, <3>1, <3>2, SumRemove
    <2>2. PICK a, b \in Nat : /\ a = SumFunctionOnSet(peak[e.m], Days \ {e.day}) /\ a <= b
                              /\ b = SumFunctionOnSet(peak'[e.m], Days \ {e.day})
      BY <1>3, <1>9, SumGrows
    <2>3. saw[c].cum <= a + e.n
      BY <1>4, <2>2 DEF Borne
    <2>4. saw[c].cum <= k + b /\ k + b \in Nat
      <3>1. PICK t \in Nat : t = saw[c].cum
        BY <1>4
      <3>2. e.n \in Nat /\ e.n <= k
        BY <1>3, <1>6
      <3>3. t <= a + e.n /\ a <= b
        BY <2>2, <2>3, <3>1
      <3>4. t <= k + b
        BY <3>2, <3>3
      <3>5. QED
        BY <3>1, <3>4
    <2>5. QED
      BY <2>1, <2>2, <2>4
  <1>18. \A p \in v.due : Reached(peak'[e.m], leastTarget, p)
    <2> SUFFICES ASSUME NEW p \in v.due PROVE Reached(peak'[e.m], leastTarget, p)
      OBVIOUS
    <2>1. leastTarget > 0 /\ saw[c].target >= leastTarget
      BY <1>4 DEF Borne
    <2>2. p \in MILESTONES /\ 100 * saw[c].cum >= p * saw[c].target
      BY <1>4, <1>5, <1>16, <2>1, PctReached
    <2>3. p * saw[c].target >= p * leastTarget
      BY <1>4, <1>5, <2>1, <2>2 DEF MILESTONES
    <2>4. PICK s \in Nat : s = SumFunctionOnSet(peak'[e.m], Days) /\ saw[c].cum <= s
      BY <1>17
    <2>5. 100 * s >= p * leastTarget
      BY <1>4, <1>5, <2>2, <2>3, <2>4 DEF MILESTONES
    <2>6. QED
      BY <2>4, <2>5 DEF Reached
  <1>19. Borne(e, "milestones", v, peak', leastTarget')
    BY <1>1, <1>4, <1>16, <1>18 DEF Borne
  <1>20. HandMoves(c)
    BY <1>1, <1>4, <1>15, <1>16, <1>19, EntryGoes
  <1>21. QED
    BY <1>13, <1>20

LEMMA MilestonesFound ==
  ASSUME RequestInv, EarnedInv, NEW c \in Come, Op(c) = "count", MilestoneFind(c)
  PROVE  RowsMove /\ HandMoves(c)
  <1>1. RowsMove /\ UNCHANGED <<peak, leastTarget>>
    BY RowsStay DEF MilestoneFind, allTour, tourVars, tourHistory
  <1>2. pc[c] = "milestones"
    BY DEF MilestoneFind
  <1>3. /\ saw[c] \in Progress /\ saw[c].i \in 1 .. Len(sent[c].entries)
        /\ Entry(c) = sent[c].entries[saw[c].i] /\ saw[c].due \subseteq MILESTONES
        /\ Borne(Entry(c), "milestones", saw[c], peak, leastTarget)
    BY <1>2, InHand DEF EntryLabels
  <1>4. PICK due : due = saw[c].due \ milestones[Entry(c).m]
    OBVIOUS
  <1>5. PICK v : v = [saw[c] EXCEPT !.due = due]
    OBVIOUS
  <1>6. saw' = [saw EXCEPT ![c] = v]
    BY <1>4, <1>5 DEF MilestoneFind, Keep
  <1>7. PICK l \in {"reach", "attend", "next", "done"} :
            /\ Goto(c, l) /\ (l = "reach" => due # {})
            /\ l = "next" => saw[c].i < Len(sent[c].entries)
    BY <1>4 DEF MilestoneFind, AfterEntry
  <1>8. /\ v \in Progress /\ v.i = saw[c].i /\ v.target = saw[c].target /\ v.due = due
        /\ due \subseteq saw[c].due
    BY <1>3, <1>4, <1>5 DEF Progress
  <1>9. Borne(Entry(c), l, v, peak, leastTarget)
    BY <1>3, <1>7, <1>8 DEF Borne
  <1>10. HandMoves(c)
    BY <1>1, <1>3, <1>6, <1>7, <1>8, <1>9, EntryGoes
  <1>11. QED
    BY <1>1, <1>10

LEMMA MilestoneCreated ==
  ASSUME RequestInv, EarnedInv, NEW c \in Come, Op(c) = "count", MilestoneCreate(c)
  PROVE  RowsMove /\ HandMoves(c)
  <1>1. pc[c] = "reach" /\ UNCHANGED <<tour, daily, peak, leastTarget>>
    BY DEF MilestoneCreate, tourHistory
  <1>2. /\ saw[c] \in Progress /\ saw[c].i \in 1 .. Len(sent[c].entries)
        /\ Entry(c) \in Entries
        /\ Entry(c) = sent[c].entries[saw[c].i] /\ saw[c].due \subseteq MILESTONES
        /\ Borne(Entry(c), "reach", saw[c], peak, leastTarget)
    BY <1>1, InHand DEF EntryLabels
  <1>3. PICK first \in saw[c].due : first = Min(saw[c].due)
    BY <1>2, FirstMilestone DEF Borne
  <1>4. CASE Goto(c, "failed") /\ UNCHANGED <<saw, milestones>>
    <2>1. RowsMove
      BY <1>1, <1>4, RowsStay
    <2>2. PICK v : saw' = [saw EXCEPT ![c] = v]
      BY <1>1, <1>4, InHand DEF EntryLabels
    <2>3. Goto(c, "failed") /\ "failed" \notin EntryLabels
      BY <1>4 DEF EntryLabels
    <2>4. HandMoves(c)
      BY <2>2, <2>3, EntryGoes
    <2>5. QED
      BY <2>1, <2>4
  <1>5. CASE /\ milestones' = [milestones EXCEPT ![Entry(c).m] = @ \union {first}]
             /\ Keep(c, [saw[c] EXCEPT !.due = @ \ {first}])
             /\ Goto(c, IF first = 100 THEN "certify" ELSE "milestones")
    <2>1. PICK e \in Entries : e = Entry(c)
      BY <1>2
    <2>2. e.m \in Pilgrims /\ first \in MILESTONES
      BY <1>2, <1>3 DEF Entries
    <2>3. leastTarget > 0 /\ Reached(peak[e.m], leastTarget, first)
      BY <1>2, <1>3, <2>1 DEF Borne
    <2>4. /\ milestones' \in [Pilgrims -> SUBSET MILESTONES]
          /\ \A m \in Pilgrims : \A p \in milestones'[m] : p \in milestones[m] \/ (m = e.m /\ p = first)
      BY <1>5, <2>1, <2>2 DEF EarnedInv, TourTypes
    <2>5. TourTypes' /\ BelowPeak'
      BY <1>1, <2>4 DEF EarnedInv, TourTypes, BelowPeak, CountOf
    <2>6. Grows(peak, peak') /\ Sinks(leastTarget, leastTarget')
      BY <1>1 DEF EarnedInv, TourTypes, Grows, Sinks
    <2>7. RowsMove
      BY <1>1, <2>3, <2>4, <2>5, <2>6 DEF RowsMove, EarnedInv, TargetInv
    <2>8. PICK v : v = [saw[c] EXCEPT !.due = saw[c].due \ {first}]
      OBVIOUS
    <2>9. /\ saw' = [saw EXCEPT ![c] = v] /\ v \in Progress /\ v.i = saw[c].i
          /\ v.target = saw[c].target /\ v.due \subseteq saw[c].due
      BY <1>2, <1>5, <2>8 DEF Keep, Progress
    <2>10. PICK l \in {"certify", "milestones"} : Goto(c, l)
      BY <1>5
    <2>11. Borne(e, l, v, peak', leastTarget')
      BY <1>1, <1>2, <2>1, <2>9 DEF Borne
    <2>12. HandMoves(c)
      BY <1>2, <2>1, <2>9, <2>10, <2>11, EntryGoes
    <2>13. QED
      BY <2>7, <2>12
  <1>6. QED
    BY <1>3, <1>4, <1>5 DEF MilestoneCreate, Forget

\* Certificates and attendance; a participant who is gone.
LEMMA EntryEnded ==
  ASSUME RequestInv, EarnedInv, NEW c \in Come, Op(c) = "count",
         AddCertificateJob(c) \/ MarkEntryAttended(c) \/ ParticipantGone(c)
  PROVE  RowsMove /\ HandMoves(c)
  <1>1. RowsMove /\ UNCHANGED <<saw, peak, leastTarget>>
    BY RowsStay DEF AddCertificateJob, MarkEntryAttended, ParticipantGone, Forget, allTour, tourVars, tourHistory
  <1>2. CASE AddCertificateJob(c)
    <2>1. pc[c] = "certify" /\ Goto(c, "milestones")
      BY <1>2 DEF AddCertificateJob, Move
    <2>2. PICK v : v = saw[c] /\ saw' = [saw EXCEPT ![c] = v]
      BY <1>1, <2>1, InHand DEF EntryLabels
    <2>3. /\ v \in Progress /\ v.i \in 1 .. Len(sent[c].entries)
          /\ Borne(sent[c].entries[v.i], "certify", v, peak, leastTarget)
      BY <2>1, <2>2, InHand DEF EntryLabels
    <2>4. Borne(sent[c].entries[v.i], "milestones", v, peak', leastTarget')
      BY <1>1, <2>3 DEF Borne
    <2>5. HandMoves(c)
      BY <2>1, <2>2, <2>3, <2>4, EntryGoes
    <2>6. QED
      BY <1>1, <2>5
  <1>3. CASE MarkEntryAttended(c)
    <2>1. PICK l \in {"next", "done"} :
              Goto(c, l) /\ (l = "next" => saw[c].i < Len(sent[c].entries))
      BY <1>3 DEF MarkEntryAttended, Move
    <2>2. pc[c] = "attend"
      BY <1>3 DEF MarkEntryAttended, Move
    <2>3. PICK v : v = saw[c] /\ saw' = [saw EXCEPT ![c] = v]
      BY <1>1, <2>2, InHand DEF EntryLabels
    <2>4. /\ v \in Progress /\ v.i \in 1 .. Len(sent[c].entries)
          /\ Borne(sent[c].entries[v.i], "attend", v, peak, leastTarget)
      BY <2>2, <2>3, InHand DEF EntryLabels
    <2>5. Borne(sent[c].entries[v.i], l, v, peak', leastTarget')
      BY <1>1, <2>1, <2>4 DEF Borne
    <2>6. HandMoves(c)
      BY <2>1, <2>3, <2>4, <2>5, EntryGoes
    <2>7. QED
      BY <1>1, <2>6
  <1>4. CASE ParticipantGone(c)
    <2>1. Goto(c, "failed") /\ "failed" \notin EntryLabels
      BY <1>4 DEF ParticipantGone, EntryLabels
    <2>2. PICK v : saw' = [saw EXCEPT ![c] = v]
      BY <1>1 DEF RequestInv, Come
    <2>3. HandMoves(c)
      BY <2>1, <2>2, EntryGoes
    <2>4. QED
      BY <1>1, <2>3
  <1>5. QED
    BY <1>2, <1>3, <1>4

LEMMA EarnedUntouched ==
  ASSUME RequestInv, EarnedInv, UNCHANGED <<tour, daily, milestones, peak, leastTarget>>,
         Apart(TourOps), Come' = Come, UNCHANGED sent
  PROVE  EarnedInv'
  <1>1. \A c \in Come : Op(c)' = Op(c) /\ Entry(c)' = sent[c].entries[saw'[c].i]
    BY DEF Op, Entry
  <1>2. \A c \in Come : Op(c) \in {"count", "updateTour"} =>
            saw'[c] = saw[c] /\ (pc'[c] = pc[c] \/ pc'[c] = "dead")
    BY DEF Apart, TourOps
  <1>3. \A c \in Entering' : c \in Entering /\ pc'[c] = pc[c] /\ saw'[c] = saw[c] /\ Entry(c)' = Entry(c)
    BY <1>1, <1>2 DEF Entering, EntryLabels, Entry
  <1>4. EntryInv'
    BY <1>3 DEF EarnedInv, EntryInv, Borne, Reached
  <1>5. TargetInv'
    BY <1>1, <1>2 DEF EarnedInv, TargetInv
  <1>6. TourTypes' /\ BelowPeak' /\ MilestoneEarned'
    BY DEF EarnedInv, TourTypes, BelowPeak, CountOf, MilestoneEarned
  <1>7. QED
    BY <1>4, <1>5, <1>6 DEF EarnedInv

LEMMA WorkApart ==
  ASSUME NEW m, CertificateWork(m) \/ CertificateFails(m)
  PROVE  UNCHANGED <<tour, enrolled, daily, milestones, beds, peak, leastTarget>>
  BY DEF CertificateWork, CertificateRead, CertificateSave, CertificateAward, CertificateNotify,
         CertificateFails, tourVars, tourHistory

LEMMA EarnedStepInv ==
  ASSUME RequestInv, EarnedInv, [Next]_vars
  PROVE  EarnedInv'
  <1>1. ASSUME NEW c \in Come, TourStep(c) PROVE EarnedInv'
    <2>1. CASE Op(c) = "count"
      <3>1. RowsMove /\ HandMoves(c)
        BY <1>1, <2>1, EntryBegun, EntrySummed, EntrySaved, MilestonesFound, MilestoneCreated, EntryEnded
           DEF TourStep, PlainRows
      <3>2. QED
        BY <3>1, EarnedFrame
    <2>2. CASE Op(c) # "count"
      BY <1>1, <2>2, TourSetUp, EarnedFrame
    <2>3. QED
      BY <2>1, <2>2
  <1>2. ASSUME NEW m \in Pilgrims, CertificateWork(m) \/ CertificateFails(m), UNCHANGED request
        PROVE  EarnedInv'
    <2>1. Apart(TourOps) /\ Come' = Come /\ UNCHANGED sent
      BY <1>2 DEF Apart, request, Come
    <2>2. QED
      BY <1>2, <2>1, WorkApart, EarnedUntouched
  <1>3. CASE UNCHANGED allTour /\ Apart(TourOps)
    BY <1>3, RequestStep, EarnedUntouched DEF allTour, tourVars, tourHistory
  <1>4. QED
    BY <1>1, <1>2, <1>3, Services

LEMMA InitTours ==
  ASSUME NEW w \in Scenarios, RequestsInit(w), ToursInit(w)
  PROVE  EarnedInv /\ RoomInv /\ JobInv /\ CertificateInv
  <1>1. \A c \in Come : pc[c] = "start"
    BY DEF RequestsInit, Come
  <1>2. /\ w.tour \in [status : TourStatuses, target : Nat, locked : BOOLEAN]
        /\ w.tour.status = "none" => w.tour.target = 0
        /\ w.enrolled \subseteq Pilgrims
        /\ Attempts \in Nat \ {0} /\ \A m \in Pilgrims : CertJob(m) \in JobIds
    BY TourAssumption
  <1>3. /\ tour = w.tour /\ leastTarget = w.tour.target /\ enrolled = w.enrolled
        /\ daily = [m \in Pilgrims |-> <<>>] /\ milestones = [m \in Pilgrims |-> {}]
        /\ peak = [m \in Pilgrims |-> [d \in Days |-> 0]] /\ awards = [m \in Pilgrims |-> 0]
        /\ certificate = {} /\ beds = {} /\ jobs = [j \in JobIds |-> NoJob]
        /\ uncounted = {}
    BY DEF ToursInit
  <1>4. \A m \in Pilgrims : DOMAIN daily[m] = {}
    BY <1>3
  <1>5. EarnedInv
    <2>1. TourTypes
      BY <1>2, <1>3, <1>4 DEF TourTypes
    <2>2. BelowPeak
      BY <1>3, <1>4 DEF BelowPeak, CountOf
    <2>3. EntryInv
      BY <1>1 DEF EntryInv, Entering, EntryLabels
    <2>4. TargetInv
      BY <1>1, <1>2, <1>3 DEF TargetInv
    <2>5. MilestoneEarned
      BY <1>3 DEF MilestoneEarned
    <2>6. QED
      BY <2>1, <2>2, <2>3, <2>4, <2>5 DEF EarnedInv
  <1>6. RoomInv
    BY <1>1, <1>2, <1>3 DEF RoomInv
  <1>7. JobInv
    <2>1. NoJob \in JobType /\ NoJob.tries = 0
      BY <1>2 DEF NoJob, JobType, JobLabels
    <2>2. QED
      BY <1>2, <1>3, <2>1 DEF JobInv
  <1>8. CertificateInv
    <2>1. \A m \in Pilgrims : jobs[CertJob(m)].state = "none"
      BY <1>2, <1>3 DEF NoJob
    <2>2. QED
      BY <1>3, <2>1 DEF CertificateInv, Certified
  <1>9. QED
    BY <1>5, <1>6, <1>7, <1>8

-----------------------------------------------------------------------------
(* Rooms and jobs of the tour *)

LEMMA RoomStepInv ==
  ASSUME RequestInv, RoomInv, [Next]_vars
  PROVE  RoomInv'
  <1>1. Come' = Come /\ UNCHANGED sent /\ Come \subseteq Calls
    BY RequestStep DEF RequestInv
  <1>2. ASSUME UNCHANGED <<enrolled, beds>>,
               \A c \in Come : Op(c) = "assignRoom" /\ pc'[c] = "assign" =>
                   pc[c] = "assign" /\ saw'[c] = saw[c]
        PROVE  RoomInv'
    BY <1>1, <1>2 DEF RoomInv, Op
  <1>3. CASE UNCHANGED allTour /\ Apart(TourOps)
    <2>1. \A c \in Come : Op(c) = "assignRoom" /\ pc'[c] = "assign" =>
              pc[c] = "assign" /\ saw'[c] = saw[c]
      BY <1>3 DEF Apart, TourOps
    <2>2. QED
      BY <1>2, <1>3, <2>1 DEF allTour, tourVars
  <1>4. ASSUME NEW m \in Pilgrims, CertificateWork(m) \/ CertificateFails(m), UNCHANGED request
        PROVE  RoomInv'
    BY <1>2, <1>4, WorkApart DEF request
  <1>5. ASSUME NEW c \in Come, TourStep(c) PROVE RoomInv'
    <2>1. \A d \in Come : d # c => pc'[d] = pc[d] /\ saw'[d] = saw[d]
      BY <1>5, TourGoes DEF Goes, RequestInv, Come
    <2>2. CASE Op(c) = "join" /\ AddParticipantCreate(c)
      <3>1. sent[c].m \in Pilgrims
        BY <2>2, TourInputs DEF RequestInv, Op
      <3>2. enrolled \subseteq enrolled' /\ enrolled' \subseteq Pilgrims /\ UNCHANGED beds
        BY <2>2, <3>1 DEF AddParticipantCreate, RoomInv
      <3>3. \A d \in Come : Op(d) = "assignRoom" /\ pc'[d] = "assign" =>
                pc[d] = "assign" /\ saw'[d] = saw[d]
        BY <2>1, <2>2
      <3>4. QED
        BY <1>1, <3>2, <3>3 DEF RoomInv, Op
    <2>3. CASE Op(c) = "leave" /\ DeleteParticipant(c)
      <3>1. /\ enrolled' \subseteq enrolled /\ UNCHANGED beds
            /\ \A b \in beds : b.m \in enrolled'
        BY <2>3 DEF DeleteParticipant, HasRows, RoomInv
      <3>2. \A d \in Come : Op(d) = "assignRoom" /\ pc'[d] = "assign" =>
                pc[d] = "assign" /\ saw'[d] = saw[d]
        BY <2>1, <2>3
      <3>3. QED
        BY <1>1, <3>1, <3>2 DEF RoomInv, Op
    <2>4. CASE Op(c) = "assignRoom" /\ AssignRoomFind(c)
      <3>1. UNCHANGED <<enrolled, beds>> /\ Keep(c, [beds |-> {b \in beds : b.m = sent[c].m}])
        BY <2>4 DEF AssignRoomFind, allTour, tourVars
      <3>2. saw'[c].beds = {b \in beds : b.m = sent[c].m}
        BY <3>1 DEF Keep, RequestInv, Come
      <3>3. \A d \in Come : Op(d) = "assignRoom" /\ pc'[d] = "assign" =>
                \A b \in saw'[d].beds : b \in Beds /\ b.m = sent[d].m
        BY <2>1, <3>2 DEF RoomInv
      <3>4. QED
        BY <1>1, <3>1, <3>3 DEF RoomInv, Op
    <2>5. CASE Op(c) = "assignRoom" /\ AssignRoomWrite(c)
      <3>1. /\ sent[c].m \in Pilgrims /\ sent[c].room \in DOMAIN TourRooms /\ c \in Calls
            /\ pc[c] = "assign" /\ sent[c].m \in enrolled /\ UNCHANGED enrolled
        BY <1>1, <2>5, TourInputs DEF RequestInv, Op, AssignRoomWrite, Move
      <3>2. pc'[c] = "log"
        BY <2>5, OnlyGoes DEF AssignRoomWrite, Move
      <3>3. beds' \subseteq Beds /\ \A b \in beds' : b.m \in enrolled
        <4>1. CASE beds' = beds \union {[id |-> c, m |-> sent[c].m, room |-> sent[c].room]}
          BY <3>1, <4>1 DEF RoomInv, Beds
        <4>2. ASSUME NEW b \in saw[c].beds,
                     beds' = {x \in beds : x.id # b.id} \union {[b EXCEPT !.room = sent[c].room]}
              PROVE  beds' \subseteq Beds /\ \A x \in beds' : x.m \in enrolled
          <5>1. b \in Beds /\ b.m = sent[c].m
            BY <2>5, <3>1 DEF RoomInv
          <5>2. /\ [b EXCEPT !.room = sent[c].room] \in Beds
                /\ [b EXCEPT !.room = sent[c].room].m = sent[c].m
            BY <3>1, <5>1 DEF Beds
          <5>3. QED
            BY <3>1, <4>2, <5>2 DEF RoomInv
        <4>3. QED
          BY <2>5, <4>1, <4>2 DEF AssignRoomWrite
      <3>4. \A d \in Come : Op(d) = "assignRoom" /\ pc'[d] = "assign" =>
                pc[d] = "assign" /\ saw'[d] = saw[d]
        BY <2>1, <3>2
      <3>5. QED
        BY <1>1, <3>1, <3>3, <3>4 DEF RoomInv, Op
    <2>6. CASE Op(c) = "assignRoom" /\ (AssignRoomCount(c) \/ AssignRoomLog(c) \/ ParticipantGone(c))
      <3>1. UNCHANGED <<enrolled, beds>>
        BY <2>6 DEF AssignRoomCount, AssignRoomLog, ParticipantGone, allTour, tourVars
      <3>2. pc'[c] # "assign"
        BY <2>6, OnlyGoes DEF AssignRoomCount, AssignRoomLog, ParticipantGone, Move
      <3>3. QED
        BY <1>2, <2>1, <3>1, <3>2
    <2>7. CASE Op(c) # "assignRoom" /\ UNCHANGED <<enrolled, beds>>
      BY <1>2, <2>1, <2>7
    <2>8. QED
      BY <1>5, <2>2, <2>3, <2>4, <2>5, <2>6, <2>7
         DEF TourStep, PlainRows, CreateTour, UpdateTourRead, UpdateTourWrite, TransitionTour, AnnounceTour,
             AddParticipantRead, SubmitMedicalForm, WriteTourRow, MarkAttendance, ParticipantGone,
             EntryRead, EntrySum, EntrySave, MilestoneFind, MilestoneCreate, AddCertificateJob,
             MarkEntryAttended, allTour, tourVars, tourHistory
  <1>6. QED
    BY <1>3, <1>4, <1>5, Services

\* To the worker a request of the tour is one that may add milestones and jobs.
LEMMA CallsAndJobs ==
  ASSUME RequestInv, NEW c \in Come, TourStep(c)
  PROVE  /\ UNCHANGED <<certificate, awards, uncounted>>
         /\ jobs' = jobs \/ \E m : jobs' = Added(CertJob(m))
  <1>1. CASE AddCertificateJob(c)
    BY <1>1 DEF AddCertificateJob, tourVars, tourHistory
  <1>2. CASE UNCHANGED <<certificate, awards, uncounted, jobs>>
    BY <1>2
  <1>3. QED
    BY <1>1, <1>2
       DEF TourStep, PlainRows, CreateTour, UpdateTourRead, UpdateTourWrite, TransitionTour, AnnounceTour,
           AddParticipantRead, AddParticipantCreate, DeleteParticipant, SubmitMedicalForm, WriteTourRow,
           AssignRoomCount, AssignRoomFind, AssignRoomWrite, AssignRoomLog, MarkAttendance,
           ParticipantGone, EntryRead, EntrySum, EntrySave, MilestoneFind, MilestoneCreate,
           MarkEntryAttended, allTour, tourVars, tourHistory

LEMMA JobTypes ==
  ASSUME JobInv, NEW j \in JobIds
  PROVE  /\ jobs[j] \in JobType
         /\ Attempts \in Nat \ {0} /\ jobs[j].tries \in Nat
         /\ jobs[j].state \in {"none", "waiting", "active"} => jobs[j].tries < Attempts
  BY TourAssumption DEF JobInv, JobType

\* A job of m goes on as its worker says; the others stay.
LEMMA TakenJob ==
  ASSUME JobInv, NEW j \in JobIds, NEW label \in {"save", "award", "notify"},
         jobs[j].state \in {"waiting", "active"}, jobs' = Taken(j, label)
  PROVE  /\ jobs' \in [JobIds -> JobType] /\ jobs'[j].state = "active" /\ jobs'[j].at = label
         /\ jobs'[j].tries = jobs[j].tries /\ \A k \in JobIds : k # j => jobs'[k] = jobs[k]
  <1>1. jobs \in [JobIds -> JobType]
    BY DEF JobInv
  <1>2. jobs' = [jobs EXCEPT ![j] = [state |-> "active", tries |-> jobs[j].tries, at |-> label]]
    BY DEF Taken
  <1>3. [state |-> "active", tries |-> jobs[j].tries, at |-> label] \in JobType
    BY <1>1 DEF JobType, JobLabels
  <1>4. QED
    BY <1>1, <1>2, <1>3

LEMMA EndedJob ==
  ASSUME JobInv, NEW j \in JobIds, jobs[j].state \in {"waiting", "active"},
         jobs' = Finished(j) \/ JobFails(j)
  PROVE  /\ jobs' \in [JobIds -> JobType] /\ jobs'[j].at = "start"
         /\ jobs'[j].state \in {"waiting", "completed", "failed"}
         /\ jobs'[j].state = "waiting" => jobs'[j].tries < Attempts
         /\ \A k \in JobIds : k # j => jobs'[k] = jobs[k]
  <1>1. jobs \in [JobIds -> JobType]
    BY DEF JobInv
  <1>2. Attempts \in Nat \ {0} /\ jobs[j].tries \in Nat /\ jobs[j].tries < Attempts
    BY JobTypes
  <1>3. PICK n \in 0 .. Attempts, s \in {"waiting", "completed", "failed"} :
            /\ jobs' = [jobs EXCEPT ![j] = [state |-> s, tries |-> n, at |-> "start"]]
            /\ s = "waiting" => n < Attempts
    <2>1. CASE jobs' = Finished(j)
      <3>1. jobs' = [jobs EXCEPT ![j] = [state |-> "completed", tries |-> jobs[j].tries, at |-> "start"]]
        BY <2>1 DEF Finished
      <3>2. jobs[j].tries \in 0 .. Attempts
        BY <1>2
      <3>3. QED
        BY <3>1, <3>2
    <2>2. CASE JobFails(j)
      <3>1. PICK n \in 0 .. Attempts : n = jobs[j].tries + 1
        BY <1>2
      <3>2. CASE n < Attempts
        BY <2>2, <3>1, <3>2 DEF JobFails
      <3>3. CASE ~(n < Attempts)
        BY <2>2, <3>1, <3>3 DEF JobFails
      <3>4. QED
        BY <3>2, <3>3
    <2>3. QED
      BY <2>1, <2>2
  <1>4. [state |-> s, tries |-> n, at |-> "start"] \in JobType
    BY DEF JobType, JobLabels
  <1>5. QED
    BY <1>1, <1>3, <1>4

\* What a job of a member is has to do with its milestones and certificate.
LEMMA CertificateFrame ==
  ASSUME JobInv, CertificateInv, UNCHANGED milestones,
         NEW m \in Pilgrims, jobs' \in [JobIds -> JobType],
         \A k \in JobIds : k # CertJob(m) => jobs'[k] = jobs[k],
         jobs'[CertJob(m)].state \in {"none", "waiting", "active"} => jobs'[CertJob(m)].tries < Attempts,
         certificate \subseteq certificate', certificate' \subseteq certificate \union {m},
         uncounted \subseteq uncounted', uncounted' \subseteq uncounted \union {m},
         awards' \in [Pilgrims -> Nat], \A k \in Pilgrims : k # m => awards'[k] = awards[k],
         Certified(m \in certificate', 100 \in milestones[m], awards'[m],
                   m \in uncounted', jobs'[CertJob(m)])
  PROVE  JobInv' /\ CertificateInv'
  <1>1. JobInv'
    BY DEF JobInv
  <1>2. ASSUME NEW k \in Pilgrims, k # m
        PROVE  /\ jobs'[CertJob(k)] = jobs[CertJob(k)] /\ awards'[k] = awards[k]
               /\ k \in certificate' <=> k \in certificate
               /\ k \in uncounted' <=> k \in uncounted
    <2>1. CertJob(k) # CertJob(m) /\ CertJob(k) \in JobIds
      BY <1>2, TourAssumption DEF CertJob
    <2>2. QED
      BY <1>2, <2>1
  <1>3. CertificateInv'
    <2> SUFFICES ASSUME NEW k \in Pilgrims
                 PROVE  Certified(k \in certificate', 100 \in milestones'[k], awards'[k],
                                  k \in uncounted', jobs'[CertJob(k)])
      BY DEF CertificateInv, Certified, CertJob
    <2>1. CASE k = m
      BY <2>1 DEF Certified
    <2>2. CASE k # m
      BY <1>2, <2>2 DEF CertificateInv, Certified
    <2>3. QED
      BY <2>1, <2>2
  <1>4. QED
    BY <1>1, <1>3

\* Jobs and certificates stay, or a job is added that waits.
LEMMA JobAdded ==
  ASSUME JobInv, CertificateInv, UNCHANGED <<certificate, awards, uncounted>>,
         \A m \in Pilgrims : milestones[m] \subseteq milestones'[m],
         jobs' = jobs \/ \E m : jobs' = Added(CertJob(m))
  PROVE  JobInv' /\ CertificateInv'
  <1>1. \A j \in JobIds : jobs'[j] = jobs[j] \/ (jobs[j] = NoJob /\ jobs'[j] = NewJob)
    BY DEF JobInv, Added
  <1>2. jobs' \in [JobIds -> JobType]
    <2>1. NewJob \in JobType
      BY TourAssumption DEF NewJob, JobType, JobLabels
    <2>2. QED
      BY <2>1 DEF JobInv, Added
  <1>3. JobInv'
    <2>1. NewJob.tries < Attempts
      BY TourAssumption DEF NewJob
    <2>2. \A j \in JobIds : jobs'[j].state \in {"none", "waiting", "active"} => jobs'[j].tries < Attempts
      BY <1>1, <2>1 DEF JobInv
    <2>3. QED
      BY <1>2, <2>2 DEF JobInv
  <1>4. CertificateInv'
    <2> SUFFICES ASSUME NEW m \in Pilgrims
                 PROVE  Certified(m \in certificate', 100 \in milestones'[m], awards'[m],
                                  m \in uncounted', jobs'[CertJob(m)])
      BY DEF CertificateInv, Certified, CertJob
    <2>1. PICK j \in JobIds : j = CertJob(m)
      BY TourAssumption
    <2>2. jobs'[j] = jobs[j] \/ (jobs[j].state = "none" /\ jobs'[j].state = "waiting")
      BY <1>1 DEF NoJob, NewJob
    <2>3. Certified(m \in certificate, 100 \in milestones[m], awards[m], m \in uncounted, jobs[j])
      BY <2>1 DEF CertificateInv
    <2>4. 100 \in milestones[m] => 100 \in milestones'[m]
      OBVIOUS
    <2>5. Certified(m \in certificate', 100 \in milestones'[m], awards'[m], m \in uncounted', jobs'[j])
      BY <2>2, <2>3, <2>4 DEF Certified
    <2>6. QED
      BY <2>1, <2>5
  <1>5. QED
    BY <1>3, <1>4

LEMMA CertificateWorkInv ==
  ASSUME JobInv, CertificateInv, NEW m \in Pilgrims, CertificateWork(m) \/ CertificateFails(m)
  PROVE  JobInv' /\ CertificateInv'
  <1>1. PICK j \in JobIds : j = CertJob(m)
    BY TourAssumption
  <1>2. /\ UNCHANGED milestones /\ awards \in [Pilgrims -> Nat] /\ certificate \subseteq Pilgrims
        /\ Certified(m \in certificate, 100 \in milestones[m], awards[m], m \in uncounted, jobs[j])
        /\ awards[m] \in Nat
        /\ Attempts \in Nat \ {0} /\ jobs[j].tries \in Nat
        /\ jobs[j].state \in {"none", "waiting", "active"} => jobs[j].tries < Attempts
    BY <1>1, WorkApart, JobTypes DEF JobInv, CertificateInv
  <1>3. CASE /\ jobs[j].state \in {"waiting", "active"} /\ (jobs' = Finished(j) \/ JobFails(j))
             /\ UNCHANGED <<certificate, awards>>
             /\ \/ UNCHANGED uncounted /\ ~Held(j, "award")
                \/ uncounted' = uncounted \union {m} /\ Held(j, "award")
    <2>1. /\ jobs' \in [JobIds -> JobType] /\ jobs'[j].at = "start"
          /\ jobs'[j].state \in {"waiting", "completed", "failed"}
          /\ jobs'[j].state = "waiting" => jobs'[j].tries < Attempts
          /\ \A k \in JobIds : k # j => jobs'[k] = jobs[k]
      BY <1>3, EndedJob
    <2>2. Certified(m \in certificate', 100 \in milestones[m], awards'[m], m \in uncounted', jobs'[j])
      BY <1>2, <1>3, <2>1 DEF Certified, Held
    <2>3. QED
      BY <1>1, <1>2, <1>3, <2>1, <2>2, CertificateFrame
  <1>4. ASSUME NEW label \in {"save", "award", "notify"}, jobs[j].state \in {"waiting", "active"},
               jobs' = Taken(j, label)
        PROVE  /\ jobs' \in [JobIds -> JobType] /\ jobs'[j].state = "active" /\ jobs'[j].at = label
               /\ jobs'[j].tries < Attempts
               /\ \A k \in JobIds : k # j => jobs'[k] = jobs[k]
    BY <1>2, <1>4, TakenJob
  <1>5. CASE /\ jobs[j].state = "waiting" /\ jobs' = Taken(j, "save")
             /\ 100 \in milestones[m] /\ m \notin certificate
             /\ UNCHANGED <<certificate, awards, uncounted>>
    <2>1. Certified(m \in certificate', 100 \in milestones[m], awards'[m], m \in uncounted', jobs'[j])
      BY <1>2, <1>4, <1>5 DEF Certified
    <2>2. QED
      BY <1>1, <1>2, <1>4, <1>5, <2>1, CertificateFrame
  <1>6. CASE CertificateSave(m)
    <2>1. /\ jobs[j].state = "active" /\ jobs[j].at = "save" /\ jobs' = Taken(j, "award")
          /\ certificate' = certificate \union {m} /\ UNCHANGED <<awards, uncounted>>
      BY <1>1, <1>6 DEF CertificateSave, Held, tourHistory
    <2>2. Certified(m \in certificate', 100 \in milestones[m], awards'[m], m \in uncounted', jobs'[j])
      BY <1>2, <1>4, <2>1 DEF Certified
    <2>3. QED
      BY <1>1, <1>2, <1>4, <2>1, <2>2, CertificateFrame
  <1>7. CASE CertificateAward(m)
    <2>1. /\ jobs[j].state = "active" /\ jobs[j].at = "award" /\ jobs' = Taken(j, "notify")
          /\ awards' = [awards EXCEPT ![m] = awards[m] + 1]
          /\ UNCHANGED <<certificate, uncounted>>
      BY <1>1, <1>7 DEF CertificateAward, Held, tourHistory
    <2>2. /\ awards' \in [Pilgrims -> Nat] /\ awards'[m] = 1
          /\ \A k \in Pilgrims : k # m => awards'[k] = awards[k]
      BY <1>2, <2>1 DEF Certified
    <2>3. Certified(m \in certificate', 100 \in milestones[m], awards'[m], m \in uncounted', jobs'[j])
      BY <1>2, <1>4, <2>1, <2>2 DEF Certified
    <2>4. QED
      BY <1>1, <1>2, <1>4, <2>1, <2>2, <2>3, CertificateFrame
  <1>8. CASE CertificateRead(m)
    BY <1>1, <1>3, <1>5, <1>8 DEF CertificateRead, Held, tourVars, tourHistory
  <1>9. CASE CertificateNotify(m)
    BY <1>1, <1>3, <1>9 DEF CertificateNotify, Held, tourVars, tourHistory
  <1>10. CASE CertificateFails(m)
    BY <1>1, <1>3, <1>10 DEF CertificateFails, JobFails, Held, tourVars
  <1>11. QED
    BY <1>6, <1>7, <1>8, <1>9, <1>10 DEF CertificateWork

LEMMA CertificateStepInv ==
  ASSUME RequestInv, EarnedInv, JobInv, CertificateInv, [Next]_vars
  PROVE  JobInv' /\ CertificateInv'
  <1>1. ASSUME NEW c \in Come, TourStep(c) PROVE JobInv' /\ CertificateInv'
    <2>1. \A m \in Pilgrims : milestones[m] \subseteq milestones'[m]
      <3>1. CASE UNCHANGED milestones
        BY <3>1
      <3>2. CASE Op(c) = "count" /\ MilestoneCreate(c)
        BY <3>2 DEF MilestoneCreate, EarnedInv, TourTypes
      <3>3. QED
        BY <1>1, <3>1, <3>2
           DEF TourStep, PlainRows, CreateTour, UpdateTourRead, UpdateTourWrite, TransitionTour, AnnounceTour,
               AddParticipantRead, AddParticipantCreate, DeleteParticipant, SubmitMedicalForm, WriteTourRow,
               AssignRoomCount, AssignRoomFind, AssignRoomWrite, AssignRoomLog, MarkAttendance,
               ParticipantGone, EntryRead, EntrySum, EntrySave, MilestoneFind, AddCertificateJob,
               MarkEntryAttended, allTour, tourVars, tourHistory
    <2>2. QED
      BY <1>1, <2>1, CallsAndJobs, JobAdded
  <1>2. CASE UNCHANGED allTour
    BY <1>2, JobAdded DEF allTour, tourVars, tourHistory
  <1>3. QED
    BY <1>1, <1>2, CertificateWorkInv, Services

-----------------------------------------------------------------------------
(* The theorems *)

\* What the service desk keeps through every step: the parts of the services.
DeskInv ==
    /\ RequestInv
    /\ DonationInv /\ NumberTaken
    /\ MealInv /\ ManagerInv
    /\ GateInv /\ SyncedOnce
    /\ CounterInv /\ CrossedIsTold
    /\ EarnedInv /\ RoomInv /\ JobInv /\ CertificateInv

LEMMA InitRequests ==
  ASSUME NEW w \in Scenarios, RequestsInit(w)
  PROVE  RequestInv
  BY RequestAssumption DEF RequestsInit, RequestInv, Come

LEMMA InitDesk == Init => DeskInv
  BY InitRequests, InitDonations, InitMeals, InitGate, InitCounters, InitTours DEF Init, DeskInv

LEMMA DeskStepInv ==
  ASSUME DeskInv, [Next]_vars
  PROVE  DeskInv'
  <1> USE DEF DeskInv
  <1>1. RequestInv' /\ Come' = Come /\ UNCHANGED sent
    BY RequestStep
  <1>2. DonationInv'
    BY <1>1, Services, DonationStepInv, DonationsUntouched
  <1>3. NumberTaken'
    BY NumberTakenStep
  <1>4. MealInv'
    BY <1>1, Services, MealStepInv, MealsUntouched
  <1>5. ManagerInv'
    BY ManagerStepInv
  <1>6. GateInv' /\ SyncedOnce'
    BY GateStepInv
  <1>7. CounterInv' /\ CrossedIsTold'
    BY CounterStepInv
  <1>8. EarnedInv'
    BY EarnedStepInv
  <1>9. RoomInv'
    BY RoomStepInv
  <1>10. JobInv' /\ CertificateInv'
    BY CertificateStepInv
  <1>11. QED
    BY <1>1, <1>2, <1>3, <1>4, <1>5, <1>6, <1>7, <1>8, <1>9, <1>10

LEMMA DeskInvariant == Spec => []DeskInv
  <1>1. Init => DeskInv
    BY InitDesk
  <1>2. DeskInv /\ [Next]_vars => DeskInv'
    BY DeskStepInv
  <1>3. QED
    BY <1>1, <1>2, PTL DEF Spec

\* What the invariants say of the types of the single services.
LEMMA GateTyped ==
  ASSUME GateInv
  PROVE  GateTypeOK
  <1>1. \A c \in Come : \A i \in DOMAIN answers[c] : answers[c][i] \in {"ok", "replayed", "error"}
    BY DEF GateInv, GateTypes
  <1>2. VehiclesCurrentlyInside <= Cardinality(Inside)
    <2>1. Inside \subseteq entries /\ IsFiniteSet(entries)
      BY DEF Inside, GateInv, GateTypes
    <2>2. IsFiniteSet(Inside)
      BY <2>1, FS_Subset
    <2>3. {e \in Inside : e.vehicle # NoVehicle} \subseteq Inside
      OBVIOUS
    <2>4. QED
      BY <2>2, <2>3, FS_Subset DEF VehiclesCurrentlyInside
  <1>3. QED
    BY <1>1, <1>2 DEF GateTypeOK, GateInv, UniqueKeys

LEMMA DonationsTyped ==
  ASSUME DonationInv, NumberTaken, RequestInv
  PROVE  DonationTypeOK
  <1> DEFINE due == {c \in Payers : pc[c] = "receipt"}
  <1>1. IsFiniteSet(due) /\ IsFiniteSet(receipts)
    <2>1. due \subseteq Come
      BY DEF Payers
    <2> HIDE DEF due
    <2>2. QED
      BY <2>1, ComeFinite, FS_Subset DEF DonationInv, DonationTypes
  <1>2. receiptNumber >= Cardinality(receipts) + Cardinality(due) /\ receiptNumber \in Nat
    BY DEF NumberTaken, DonationInv, DonationTypes
  <1> HIDE DEF due
  <1>3. Cardinality(due) \in Nat /\ Cardinality(receipts) \in Nat
    BY <1>1, FS_CardinalityType
  <1>4. receiptNumber >= Cardinality(receipts)
    BY <1>2, <1>3
  <1>5. QED
    BY <1>4 DEF DonationTypeOK, DonationInv, DonationTypes

LEMMA ToursTyped ==
  ASSUME EarnedInv, RoomInv, JobInv
  PROVE  TourTypeOK
  <1>1. /\ tour.status \in TourStatuses /\ tour.target \in Nat /\ tour.locked \in BOOLEAN
        /\ \A m \in Pilgrims : DOMAIN daily[m] \subseteq Days /\ milestones[m] \subseteq MILESTONES
    BY DEF EarnedInv, TourTypes
  <1>2. enrolled \subseteq Pilgrims /\ \A b \in beds : b.m \in enrolled /\ b.room \in DOMAIN TourRooms
    BY DEF RoomInv, Beds
  <1>3. /\ certificate \subseteq Pilgrims /\ \A m \in Pilgrims : awards[m] \in Nat
        /\ \A j \in JobIds : jobs[j] \in JobType
    BY DEF JobInv
  <1>4. QED
    BY <1>1, <1>2, <1>3 DEF TourTypeOK

\* Type correctness of the five services: statuses stay within the enums of the
\* schema, rows refer to rows that exist, keys stay unique, no receipt exists
\* without a number taken for it, managers are users, and the totals the
\* dashboards show (taps and members of a counter, vehicles inside) agree.
THEOREM TypeCorrect == Spec => []DeskTypeOK
  <1>1. DeskInv => DeskTypeOK
    <2> SUFFICES ASSUME DeskInv PROVE DeskTypeOK
      OBVIOUS
    <2>1. TourTypeOK /\ GateTypeOK /\ DonationTypeOK
      BY GateTyped, DonationsTyped, ToursTyped DEF DeskInv
    <2>2. CounterTypeOK
      BY OverviewAdds DEF DeskInv, CounterInv, CounterTypeOK
    <2>3. MealTypeOK
      BY DEF DeskInv, MealInv, MealTypes, ManagerInv, MealTypeOK
    <2>4. QED
      BY <2>1, <2>2, <2>3 DEF DeskTypeOK
  <1>2. QED
    BY <1>1, DeskInvariant, PTL

\* donations.service.ts: a receipt is for a verified donation whatever requests
\* decide, retry or die, as long as no two decisions on it ran at once.
THEOREM ReceiptsAreForVerified == Spec => []ReceiptIsForVerified
  <1>1. DeskInv => ReceiptIsForVerified
    BY DEF DeskInv, DonationInv
  <1>2. QED
    BY <1>1, DeskInvariant, PTL

\* bhojanshala.service.ts: a pass is served at most as often as it was booked,
\* though every status may be written over every other, as long as no two scans
\* of it ran at once.
THEOREM OneMealEach == Spec => []OneMealPerApproval
  <1>1. DeskInv => OneMealPerApproval
    BY DEF DeskInv, MealInv, MealsEarned, Served, OneMealPerApproval
  <1>2. QED
    BY <1>1, DeskInvariant, PTL

\* visitors.service.ts: members and vehicles are inside once, with no unique key
\* to say so, unless two check-ins of one ran at once.
THEOREM InsideOnce == Spec => []OneActiveEntry
  <1>1. DeskInv => OneActiveEntry
    BY DEF DeskInv, GateInv
  <1>2. QED
    BY <1>1, DeskInvariant, PTL

\* visitors.service.ts: an entry a device was told is safe is in the database,
\* and one answer only, of all batches that hold it, is "ok".
THEOREM OfflineEntriesSyncedOnce == Spec => []SyncedOnce
  <1>1. DeskInv => SyncedOnce
    BY DEF DeskInv
  <1>2. QED
    BY <1>1, DeskInvariant, PTL

\* counters.service.ts: whoever's counter stands at or past a milestone has been
\* notified of it or of a later one, though counts are written from stale reads.
THEOREM MilestonesAreTold == Spec => []CrossedIsTold
  <1>1. DeskInv => CrossedIsTold
    BY DEF DeskInv
  <1>2. QED
    BY <1>1, DeskInvariant, PTL

\* tours99.service.ts: a milestone of a pilgrim is borne out by the counts that
\* were entered, whatever entries, corrections and targets overlap.
THEOREM MilestonesAreEarned == Spec => []MilestoneEarned
  <1>1. DeskInv => MilestoneEarned
    BY DEF DeskInv, EarnedInv
  <1>2. QED
    BY <1>1, DeskInvariant, PTL

\* tours99.service.ts:368-402: however often the certificate job is added, tried and
\* failed, a certificate that is stored is counted once, by the attempt that stored
\* it, and not at all exactly when this attempt failed before it had counted it.
THEOREM CertificatesCountOnce == Spec => []CertificateCountedOnce
  <1>1. DeskInv => CertificateCountedOnce
    BY DEF DeskInv, CertificateInv, Certified, CertificateCountedOnce, Held
  <1>2. QED
    BY <1>1, DeskInvariant, PTL
=============================================================================
