-------------------------------- MODULE Tours --------------------------------
(***************************************************************************)
(* One 99-yatra tour, src/src/modules/tours99/tours99.service.ts: its      *)
(* lifecycle and target, participants and their rooms, the daily jatra     *)
(* counts with their milestones, and the certificate the worker writes.    *)
(* Every transaction here reads committed rows and locks none before its   *)
(* write, so it is a read step and a write step.                           *)
(***************************************************************************)
EXTENDS Requests, JobQueue

CONSTANTS Pilgrims,   \* members who may take part
          Days,
          TourRooms   \* TourRooms[r]: capacity of room r

TourStatuses == {"none", "DRAFT", "ACTIVE", "ONGOING", "COMPLETED", "ARCHIVED"}
CertJob(m) == <<"tour-cert", m>>

ASSUME TourAssumption ==
    /\ IsFiniteSet(Days) /\ Attempts \in Nat \ {0}
    /\ \A m \in Pilgrims : CertJob(m) \in JobIds
    /\ \A w \in Scenarios :
           /\ w.tour \in [status : TourStatuses, target : Nat, locked : BOOLEAN]
           /\ w.tour.status = "none" => w.tour.target = 0
           /\ w.enrolled \subseteq Pilgrims

\* The inputs of the calls have the types the request schemas give them.
ASSUME TourInputs == \A c \in Calls :
    LET i == Input[c] IN
    /\ i.op \in {"createTour", "updateTour"} => i.target \in Nat
    /\ i.op = "transitionTour" => i.to \in TourStatuses \ {"none"}
    /\ i.op \in {"join", "assignRoom"} => i.m \in Pilgrims
    /\ i.op = "assignRoom" => i.room \in DOMAIN TourRooms
    /\ i.op = "count" =>
           /\ i.entries \in Seq([m : Pilgrims, day : Days, n : Nat, present : BOOLEAN])
           /\ i.entries # <<>>

VARIABLES tour,         \* status, target (0: none), targetLocked
          enrolled,     \* members with a participant row
          daily,        \* daily[m]: day -> count and cumulativeCount
          milestones,   \* milestones[m]: percentages with a row
          certificate,  \* members whose 100% row has a certificateUrl
          awards,       \* awards[m]: certificatesCount the tour added
          beds,         \* room assignments: id, member, room
          tourRows,     \* rows of the plain tables, by table and key
          peak,         \* history: the largest count entered, by member and day
          leastTarget,  \* history: the lowest target the tour had, 0 for none
          summed,       \* history: the total and target of the entry of m saved last
          uncounted     \* history: whose job failed between certificate and count

tourVars == <<tour, enrolled, daily, milestones, certificate, awards, beds, tourRows>>
tourHistory == <<peak, leastTarget, summed, uncounted>>
allTour == <<tourVars, tourHistory, jobs>>

MILESTONES == {25, 50, 75, 100}

ToursInit(w) ==
    /\ tour = w.tour
    /\ enrolled = w.enrolled
    /\ daily = [m \in Pilgrims |-> <<>>]
    /\ milestones = [m \in Pilgrims |-> {}]
    /\ certificate = {} /\ beds = {} /\ tourRows = {}
    /\ awards = [m \in Pilgrims |-> 0]
    /\ peak = [m \in Pilgrims |-> [d \in Days |-> 0]]
    /\ leastTarget = w.tour.target
    /\ summed = [m \in Pilgrims |-> [total |-> 0, target |-> 0]]
    /\ uncounted = {}
    /\ jobs = [j \in JobIds |-> NoJob]

AddRow(row) == tourRows' = tourRows \union {row}

-----------------------------------------------------------------------------
(* createTour, updateTour, transitionTour *)

\* A tour with a target needs a monk whose profile is not deleted.
CreateTour(c) ==
    /\ pc[c] = "start"
    /\ tour.status = "none"
    /\ \/ /\ sent[c].target > 0 => sent[c].monk
          /\ tour' = [status |-> "DRAFT", target |-> sent[c].target, locked |-> FALSE]
          /\ leastTarget' = sent[c].target
          /\ Goto(c, "done")
       \/ /\ sent[c].target > 0 /\ ~sent[c].monk
          /\ Goto(c, "refused")
          /\ UNCHANGED <<tour, leastTarget>>
    /\ Forget
    /\ UNCHANGED <<enrolled, daily, milestones, certificate, awards, beds, tourRows, peak, summed, uncounted, jobs>>

UpdateAllowed(c) ==
    \/ sent[c].super
    \/ tour.status \notin {"COMPLETED", "ARCHIVED"} /\ ~tour.locked

UpdateTourRead(c) ==
    /\ tour.status # "none"
    /\ Move(c, "start", IF UpdateAllowed(c) THEN "update" ELSE "refused")
    /\ Forget /\ UNCHANGED allTour

\* The target is written by id, whoever has joined meanwhile. The body is not
\* validated: 0 takes the target away.
UpdateTourWrite(c) ==
    /\ Move(c, "update", "done")
    /\ tour' = [tour EXCEPT !.target = sent[c].target]
    /\ leastTarget' = IF \/ leastTarget = 0
                         \/ sent[c].target > 0 /\ sent[c].target < leastTarget
                      THEN sent[c].target ELSE leastTarget
    /\ Forget
    /\ UNCHANGED <<enrolled, daily, milestones, certificate, awards, beds, tourRows, peak, summed, uncounted, jobs>>

\* Any status may follow any other; a tour that goes live is announced.
TransitionTour(c) ==
    /\ tour.status # "none"
    /\ Move(c, "start", IF sent[c].to = "ACTIVE" THEN "announce" ELSE "done")
    /\ tour' = [tour EXCEPT !.status = sent[c].to]
    /\ Forget
    /\ UNCHANGED <<enrolled, daily, milestones, certificate, awards, beds, tourRows, tourHistory, jobs>>

AnnounceTour(c) ==
    /\ Move(c, "announce", "done")
    /\ AddRow(<<"card", c>>)
    /\ Forget
    /\ UNCHANGED <<tour, enrolled, daily, milestones, certificate, awards, beds, tourHistory, jobs>>

-----------------------------------------------------------------------------
(* Participants *)

AddParticipantRead(c) ==
    /\ Move(c, "start", "create")
    /\ Keep(c, [locked |-> tour.locked])
    /\ UNCHANGED allTour

\* (tourId, memberId) is unique. The lock is written unless it was seen.
AddParticipantCreate(c) ==
    LET m == sent[c].m IN
    /\ pc[c] = "create"
    /\ \/ /\ m \in enrolled
          /\ Goto(c, "failed")
          /\ UNCHANGED <<enrolled, tour>>
       \/ /\ m \notin enrolled
          /\ enrolled' = enrolled \union {m}
          /\ tour' = [tour EXCEPT !.locked = @ \/ ~saw[c].locked]
          /\ Goto(c, "done")
    /\ Forget
    /\ UNCHANGED <<daily, milestones, certificate, awards, beds, tourRows, tourHistory, jobs>>

\* A participant with any row of its own cannot be deleted (foreign keys).
HasRows(m) == \/ daily[m] # <<>> \/ milestones[m] # {}
              \/ \E b \in beds : b.m = m
              \/ \E r \in tourRows : r[1] \in {"form", "attendance", "change"} /\ r[2] = m

DeleteParticipant(c) ==
    LET m == sent[c].m IN
    /\ pc[c] = "start"
    /\ \/ /\ m \in enrolled /\ ~HasRows(m)
          /\ enrolled' = enrolled \ {m}
          /\ Goto(c, "done")
       \/ /\ m \notin enrolled \/ HasRows(m)
          /\ Goto(c, "failed")
          /\ UNCHANGED enrolled
    /\ Forget
    /\ UNCHANGED <<tour, daily, milestones, certificate, awards, beds, tourRows, tourHistory, jobs>>

\* submitMedicalForm: only of oneself; an upsert.
SubmitMedicalForm(c) ==
    LET m == sent[c].m IN
    /\ pc[c] = "start"
    /\ \/ /\ m \in enrolled /\ sent[c].by = m
          /\ AddRow(<<"form", m>>)
          /\ Goto(c, "done")
       \/ /\ m \notin enrolled \/ sent[c].by # m
          /\ Goto(c, "refused")
          /\ UNCHANGED tourRows
    /\ Forget
    /\ UNCHANGED <<tour, enrolled, daily, milestones, certificate, awards, beds, tourHistory, jobs>>

\* addSponsor, addAccommodationLocation, addTourRoom, postCommunication and
\* publishDailySchedule each write one row (a schedule: one per day).
PlainRows == {"sponsor", "location", "room", "communication", "schedule"}

WriteTourRow(c) ==
    /\ Move(c, "start", "done")
    /\ AddRow(<<Op(c), sent[c].key>>)
    /\ Forget
    /\ UNCHANGED <<tour, enrolled, daily, milestones, certificate, awards, beds, tourHistory, jobs>>

-----------------------------------------------------------------------------
(* assignRoom *)

AssignRoomCount(c) ==
    LET r == sent[c].room IN
    /\ Move(c, "start", IF Cardinality({b \in beds : b.room = r}) >= TourRooms[r]
                        THEN "refused" ELSE "find")
    /\ Forget /\ UNCHANGED allTour

AssignRoomFind(c) ==
    /\ Move(c, "find", "assign")
    /\ Keep(c, [beds |-> {b \in beds : b.m = sent[c].m}])
    /\ UNCHANGED allTour

\* One of the rows found is moved, or a first one created.
AssignRoomWrite(c) ==
    LET m == sent[c].m  r == sent[c].room IN
    /\ Move(c, "assign", "log") /\ m \in enrolled
    /\ \/ saw[c].beds = {} /\ beds' = beds \union {[id |-> c, m |-> m, room |-> r]}
       \/ \E b \in saw[c].beds : beds' = {x \in beds : x.id # b.id} \union {[b EXCEPT !.room = r]}
    /\ Forget
    /\ UNCHANGED <<tour, enrolled, daily, milestones, certificate, awards, tourRows, tourHistory, jobs>>

AssignRoomLog(c) ==
    /\ Move(c, "log", "done")
    /\ AddRow(<<"change", sent[c].m, c>>)
    /\ Forget
    /\ UNCHANGED <<tour, enrolled, daily, milestones, certificate, awards, beds, tourHistory, jobs>>

-----------------------------------------------------------------------------
(* enterDailyJatraCount, enterBulkDailyJatraCounts *)

CountOf(m, d) == IF d \in DOMAIN daily[m] THEN daily[m][d].n ELSE 0
Counts(m) == [x \in Days |-> CountOf(m, x)]
TotalWithout(m, d) == SumFunctionOnSet(Counts(m), Days \ {d})
Total(m) == SumFunctionOnSet(Counts(m), Days)

\* Mutation: the day that is entered again counts twice.
TotalOfAll(m, d) == Total(m)

\* The other days, as aggregate sums them.
PreviousTotal(m, d) == TotalWithout(m, d)

Pct(total, target) == (total * 100) \div target
Entry(c) == sent[c].entries[saw[c].i]

\* The entries of a bulk request are entered one after the other.
EntryRead(c) ==
    LET i == IF pc[c] = "start" THEN 1 ELSE saw[c].i + 1
        m == sent[c].entries[i].m
    IN
    /\ pc[c] \in {"start", "next"}
    /\ Keep(c, [i |-> i, target |-> tour.target, cum |-> 0, due |-> {}])
    /\ Goto(c, IF m \in enrolled /\ tour.target > 0 THEN "sum" ELSE "refused")
    /\ UNCHANGED allTour

EntrySum(c) ==
    LET e == Entry(c) IN
    /\ Move(c, "sum", "save")
    /\ Keep(c, [saw[c] EXCEPT !.cum = PreviousTotal(e.m, e.day) + e.n])
    /\ UNCHANGED allTour

EntrySave(c) ==
    LET e == Entry(c)
        pct == Pct(saw[c].cum, saw[c].target)
    IN
    /\ Move(c, "save", "milestones") /\ e.m \in enrolled
    /\ daily' = [daily EXCEPT ![e.m] =
                     Put(@, e.day, [n |-> e.n, cum |-> saw[c].cum])]
    /\ Keep(c, [saw[c] EXCEPT !.due = {p \in MILESTONES : pct >= p}])
    /\ peak' = [peak EXCEPT ![e.m][e.day] = Max({@, e.n})]
    /\ summed' = [summed EXCEPT ![e.m] = [total |-> saw[c].cum, target |-> saw[c].target]]
    /\ UNCHANGED <<tour, enrolled, milestones, certificate, awards, beds, tourRows>>
    /\ UNCHANGED <<leastTarget, uncounted, jobs>>

AfterEntry(c) == IF Entry(c).present THEN "attend"
                 ELSE IF saw[c].i < Len(sent[c].entries) THEN "next" ELSE "done"

\* The milestones due are looked up in order; rows there are stay.
MilestoneFind(c) ==
    LET due == saw[c].due \ milestones[Entry(c).m] IN
    /\ pc[c] = "milestones"
    /\ Goto(c, IF due = {} THEN AfterEntry(c) ELSE "reach")
    /\ Keep(c, [saw[c] EXCEPT !.due = due])
    /\ UNCHANGED allTour

\* (participantId, milestonePct) is unique: the slower of two requests fails.
MilestoneCreate(c) ==
    LET m == Entry(c).m  first == Min(saw[c].due) IN
    /\ pc[c] = "reach"
    /\ \/ /\ first \in milestones[m]
          /\ Goto(c, "failed")
          /\ Forget /\ UNCHANGED milestones
       \/ /\ first \notin milestones[m]
          /\ milestones' = [milestones EXCEPT ![m] = @ \union {first}]
          /\ Keep(c, [saw[c] EXCEPT !.due = @ \ {first}])
          /\ Goto(c, IF first = 100 THEN "certify" ELSE "milestones")
    /\ UNCHANGED <<tour, enrolled, daily, certificate, awards, beds, tourRows, tourHistory, jobs>>

\* Mutation: the certificate is ordered at 75 percent only.
NoCertificateJob(c) ==
    /\ Move(c, "certify", "milestones")
    /\ Forget /\ UNCHANGED allTour

AddCertificateJob(c) ==
    /\ Move(c, "certify", "milestones")
    /\ jobs' = Added(CertJob(Entry(c).m))
    /\ Forget /\ UNCHANGED <<tourVars, tourHistory>>

\* The attendance of a bulk entry, and markAttendance alone: an upsert.
MarkEntryAttended(c) ==
    /\ Move(c, "attend", IF saw[c].i < Len(sent[c].entries) THEN "next" ELSE "done")
    /\ AddRow(<<"attendance", Entry(c).m, Entry(c).day>>)
    /\ Forget
    /\ UNCHANGED <<tour, enrolled, daily, milestones, certificate, awards, beds, tourHistory, jobs>>

MarkAttendance(c) ==
    /\ sent[c].m \in enrolled
    /\ Move(c, "start", "done")
    /\ AddRow(<<"attendance", sent[c].m, sent[c].day>>)
    /\ Forget
    /\ UNCHANGED <<tour, enrolled, daily, milestones, certificate, awards, beds, tourHistory, jobs>>

\* A row of a participant who was deleted meanwhile has no parent.
ParticipantGone(c) ==
    /\ \/ pc[c] = "save" /\ Entry(c).m \notin enrolled
       \/ pc[c] = "assign" /\ sent[c].m \notin enrolled
       \/ Op(c) = "attendance" /\ pc[c] = "start" /\ sent[c].m \notin enrolled
    /\ Goto(c, "failed")
    /\ Forget /\ UNCHANGED allTour

-----------------------------------------------------------------------------
(* generateTourCertificate, in the worker *)

\* Mutation: a certificate that exists is made again.
CertificateReadAgain(m) ==
    /\ jobs[CertJob(m)].state = "waiting"
    /\ jobs' = Taken(CertJob(m), "save")
    /\ UNCHANGED <<tourVars, tourHistory>>

CertificateRead(m) ==
    /\ jobs[CertJob(m)].state = "waiting"
    /\ jobs' = IF 100 \in milestones[m] /\ m \notin certificate
               THEN Taken(CertJob(m), "save") ELSE Finished(CertJob(m))
    /\ UNCHANGED <<tourVars, tourHistory>>

CertificateSave(m) ==
    /\ Held(CertJob(m), "save")
    /\ certificate' = certificate \union {m}
    /\ jobs' = Taken(CertJob(m), "award")
    /\ UNCHANGED <<tour, enrolled, daily, milestones, awards, beds, tourRows, tourHistory>>

CertificateAward(m) ==
    /\ Held(CertJob(m), "award")
    /\ awards' = [awards EXCEPT ![m] = @ + 1]
    /\ jobs' = Taken(CertJob(m), "notify")
    /\ UNCHANGED <<tour, enrolled, daily, milestones, certificate, beds, tourRows, tourHistory>>

CertificateNotify(m) ==
    /\ Held(CertJob(m), "notify")
    /\ jobs' = Finished(CertJob(m))
    /\ UNCHANGED <<tourVars, tourHistory>>

CertificateWork(m) == \/ CertificateRead(m) \/ CertificateSave(m)
                      \/ CertificateAward(m) \/ CertificateNotify(m)

\* The certificate that is there already stops the next attempt: what failed
\* before its count is never counted.
CertificateFails(m) ==
    /\ JobFails(CertJob(m))
    /\ uncounted' = IF Held(CertJob(m), "award") THEN uncounted \union {m} ELSE uncounted
    /\ UNCHANGED <<tourVars, peak, leastTarget, summed>>

-----------------------------------------------------------------------------

TourStep(c) ==
    \/ Op(c) = "createTour" /\ CreateTour(c)
    \/ Op(c) = "updateTour" /\ (UpdateTourRead(c) \/ UpdateTourWrite(c))
    \/ Op(c) = "transitionTour" /\ (TransitionTour(c) \/ AnnounceTour(c))
    \/ Op(c) = "join" /\ (AddParticipantRead(c) \/ AddParticipantCreate(c))
    \/ Op(c) = "leave" /\ DeleteParticipant(c)
    \/ Op(c) = "medicalForm" /\ SubmitMedicalForm(c)
    \/ Op(c) \in PlainRows /\ WriteTourRow(c)
    \/ /\ Op(c) = "assignRoom"
       /\ \/ AssignRoomCount(c) \/ AssignRoomFind(c) \/ AssignRoomWrite(c) \/ AssignRoomLog(c)
          \/ ParticipantGone(c)
    \/ /\ Op(c) = "count"
       /\ \/ EntryRead(c) \/ EntrySum(c) \/ EntrySave(c) \/ MilestoneFind(c)
          \/ MilestoneCreate(c) \/ AddCertificateJob(c) \/ MarkEntryAttended(c)
          \/ ParticipantGone(c)
    \/ Op(c) = "attendance" /\ (MarkAttendance(c) \/ ParticipantGone(c))

-----------------------------------------------------------------------------
(* Properties *)

TourTypeOK ==
    /\ tour.status \in TourStatuses
    /\ tour.target \in Nat /\ tour.locked \in BOOLEAN
    /\ enrolled \subseteq Pilgrims
    /\ \A m \in Pilgrims : /\ DOMAIN daily[m] \subseteq Days
                           /\ milestones[m] \subseteq MILESTONES
                           /\ awards[m] \in Nat
    /\ certificate \subseteq Pilgrims
    /\ \A b \in beds : b.m \in enrolled /\ b.room \in DOMAIN TourRooms
    /\ \A j \in JobIds : jobs[j] \in JobType

\* tours99.service.ts:260-294: a milestone was earned by counts of different
\* days: no repeated or corrected entry, and no order of entries, takes a
\* participant over a mark that the largest counts ever entered do not reach.
MilestoneEarned ==
    \A m \in Pilgrims : \A p \in milestones[m] :
        100 * SumFunctionOnSet(peak[m], Days) >= p * leastTarget

\* tours99.service.ts:368-402: however often the job is tried, a certificate that
\* is stored is counted exactly once for its member, by the attempt that stored
\* it; and never, by no later attempt either, when that attempt failed between
\* the two. What is counted was reached, and can be downloaded.
CertificateCountedOnce ==
    \A m \in Pilgrims :
        /\ awards[m] = IF m \in certificate \ uncounted /\ ~Held(CertJob(m), "award") THEN 1 ELSE 0
        /\ m \in certificate => 100 \in milestones[m]

\* The entry of m saved last has summed all the counts there are, and compared
\* them with the target there is: none of them came with another at once.
SummedUp(m) == summed[m] = [total |-> Total(m), target |-> tour.target]

\* A request died, or met the milestone of another one, while it entered a count of m.
EntryFailed(m) == \E c \in Come : Op(c) = "count" /\ pc[c] \in {"failed", "dead"} /\ Entry(c).m = m

\* tours99.service.ts:261-291: whose counts reach the target gets a certificate, as
\* soon as an entry has summed them up: also when entries that came at once had
\* missed it, for the next one, of whatever day, makes good for them. Excused are
\* a request that failed over a count of this member, and a job whose attempts all failed.
TargetReachedGetsCertificate ==
    []<>(\A m \in Pilgrims :
            tour.target > 0 /\ Total(m) >= tour.target /\ SummedUp(m) =>
                m \in certificate \/ EntryFailed(m) \/ jobs[CertJob(m)].state = "failed")
=============================================================================
