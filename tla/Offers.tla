------------------------------- MODULE Offers -------------------------------
(***************************************************************************)
(* Offers and benefits, src/src/modules/offers/offers.service.ts: an offer *)
(* queues its whole schedule of reminders when it is created; the worker   *)
(* sends each one whose offer is still there and not over.                 *)
(***************************************************************************)
EXTENDS Requests, JobQueue, Days

CONSTANTS OfferMembers,       \* members an offer may be visible to
          CYCLE, MID_CYCLE    \* 30 and 14 days in the code

\* An offer is deleted or not, in the scenarios and in the bodies.
ASSUME OffersAssumption ==
    /\ \A w \in Scenarios : \A o \in DOMAIN w.offers :
           "gone" \in DOMAIN w.offers[o] /\ w.offers[o].gone \in BOOLEAN
    /\ \A c \in Calls : LET i == Input[c] IN
           i.op = "updateOffer" /\ "gone" \in DOMAIN i.body => i.body.gone \in BOOLEAN

VARIABLES offers,      \* offers: starts, ends, featuredUntil, gone, for (who may see it)
          offerSaves,  \* (offer, member)
          offerCounts, \* viewCount, clickCount and shareCount
          reminded     \* notifications: (offer, reminder) -> how often it went out

offerVars == <<offers, offerSaves, offerCounts, reminded>>

OffersInit(w) ==
    /\ offers = w.offers
    /\ offerSaves = {} /\ reminded = <<>>
    /\ offerCounts = [o \in DOMAIN w.offers |-> [views |-> 0, clicks |-> 0, shares |-> 0]]

\* computeFeaturedUntil, with the code's numbers.
FeaturedDays(days) == IF days > 90 THEN 30 ELSE IF days > 30 THEN 10 ELSE 3

\* scheduleOfferNotifications: the reminders of an offer and their days.
Schedule(starts, ends) ==
    LET cycles == {k \in 1 .. (ends - starts) + 1 : starts + (k - 1) * CYCLE < ends}
        first(k) == starts + (k - 1) * CYCLE
    IN
    {<<"DAY1", k, first(k)>> : k \in cycles}
        \union {<<"DAY15", k, first(k) + MID_CYCLE>> :
                    k \in {x \in cycles : first(x) + MID_CYCLE < ends}}
        \union {<<"EXPIRY_24H", 0, ends - 1>>}

\* Only what lies ahead is queued: an offer that starts at once has no DAY1.
Ahead(c) == {p \in Schedule(sent[c].starts, sent[c].ends) : p[3] > saw[c].now}

ReminderJob(o, p) == <<"offer", o, p>>
OfferJobs == {j \in JobIds : j[1] = "offer"}

CreateOffer(c) ==
    LET i == sent[c] IN
    /\ Move(c, "start", "schedule")
    /\ offers' = Put(offers, c, [starts |-> i.starts, ends |-> i.ends, gone |-> FALSE, for |-> i.for,
                                 featuredUntil |-> i.starts + FeaturedDays(i.ends - i.starts)])
    /\ offerCounts' = Put(offerCounts, c, [views |-> 0, clicks |-> 0, shares |-> 0])
    /\ Keep(c, [now |-> today]) /\ UNCHANGED <<offerSaves, reminded, jobs>>

\* The jobs are added one after the other, then the feed card is created.
ScheduleReminder(c) ==
    /\ pc[c] = "schedule"
    /\ \E p \in Ahead(c) :
           /\ jobs[ReminderJob(c, p)] = NoJob
           /\ jobs' = Added(ReminderJob(c, p))
    /\ Goto(c, "schedule")
    /\ Forget /\ UNCHANGED offerVars

OfferCard(c) ==
    /\ Move(c, "schedule", "done")
    /\ \A p \in Ahead(c) : jobs[ReminderJob(c, p)] # NoJob
    /\ Forget /\ UNCHANGED <<offerVars, jobs>>

\* updateOffer and the route that deletes: by id, and no job is moved.
UpdateOffer(c) ==
    LET o == sent[c].offer IN
    /\ Move(c, "start", IF o \in DOMAIN offers THEN "done" ELSE "failed")
    /\ offers' = IF o \in DOMAIN offers THEN Put(offers, o, Updated(offers[o], sent[c].body)) ELSE offers
    /\ Forget /\ UNCHANGED <<offerSaves, offerCounts, reminded, jobs>>

\* saveOffer is an upsert, unsaveOffer a deleteMany.
SaveOffer(c) ==
    LET pair == <<sent[c].offer, sent[c].m>> IN
    /\ Move(c, "start", "done")
    /\ sent[c].offer \in DOMAIN offers
    /\ offerSaves' = IF sent[c].add THEN offerSaves \union {pair} ELSE offerSaves \ {pair}
    /\ Forget /\ UNCHANGED <<offers, offerCounts, reminded, jobs>>

TrackOffer(c) ==
    /\ sent[c].offer \in DOMAIN offers
    /\ Move(c, "start", "done")
    /\ offerCounts' = [offerCounts EXCEPT ![sent[c].offer][sent[c].kind] = @ + 1]
    /\ Forget /\ UNCHANGED <<offers, offerSaves, reminded, jobs>>

-----------------------------------------------------------------------------
(* sendOfferScheduledNotification, in the worker; a job is due on its day   *)

ReminderRead(j) ==
    LET o == j[2] IN
    /\ jobs[j].state = "waiting" /\ today >= j[3][3]
    /\ jobs' = IF offers[o].gone \/ offers[o].ends < today THEN Finished(j) ELSE Taken(j, "remind")
    /\ UNCHANGED offerVars

\* Whoever may see the offer is notified; a job that dies here does it again.
ReminderSend(j) ==
    LET key == <<j[2], j[3][1], j[3][2]>> IN
    /\ Held(j, "remind")
    /\ reminded' = Put(reminded, key, IF key \in DOMAIN reminded THEN reminded[key] + 1 ELSE 1)
    /\ jobs' = Taken(j, "end")
    /\ UNCHANGED <<offers, offerSaves, offerCounts>>

ReminderEnd(j) ==
    /\ Held(j, "end")
    /\ jobs' = Finished(j)
    /\ UNCHANGED offerVars

OfferWork(j) == ReminderRead(j) \/ ReminderSend(j) \/ ReminderEnd(j)

OfferStep(c) ==
    \/ Op(c) = "createOffer" /\ (CreateOffer(c) \/ ScheduleReminder(c) \/ OfferCard(c))
    \/ Op(c) = "updateOffer" /\ UpdateOffer(c)
    \/ Op(c) = "saveOffer" /\ SaveOffer(c)
    \/ Op(c) = "trackOffer" /\ TrackOffer(c)

-----------------------------------------------------------------------------
(* Properties *)

\* Mutation: offers that are over are listed.
StillListed(o) == ~offers[o].gone /\ offers[o].starts <= today

\* What browseOffers lists: an offer that has begun and is not over.
OnOffer(o) == ~offers[o].gone /\ offers[o].starts <= today /\ offers[o].ends >= today
Browse(m, section) ==
    {o \in DOMAIN offers :
        IF section = "saved"
        THEN <<o, m>> \in offerSaves /\ ~offers[o].gone /\ offers[o].ends >= today
        ELSE /\ OnOffer(o)
             /\ section = "expiring-soon" => offers[o].ends <= today + 7
             /\ section \in {"near-you", "home-city"} => m \in offers[o].for}
Clicks(o) == [views |-> offerCounts[o].views, saves |-> Cardinality({s \in offerSaves : s[1] = o}),
              ctr |-> IF offerCounts[o].views = 0 THEN 0
                      ELSE (offerCounts[o].clicks * 100) \div offerCounts[o].views]

OfferTypeOK ==
    /\ \A o \in DOMAIN offers : offers[o].gone \in BOOLEAN /\ Clicks(o).ctr \in Nat
    /\ \A k \in DOMAIN reminded : reminded[k] \in 1 .. Attempts
    /\ \A m \in OfferMembers : \A o \in Browse(m, "saved") \union Browse(m, "recent") :
           offers[o].ends >= today
=============================================================================
