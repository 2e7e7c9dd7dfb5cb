------------------------------ MODULE Community ------------------------------
(***************************************************************************)
(* What the community reads: news, offers, pages and the feed, and the     *)
(* messages it gets, over one pool of requests, one worker and one clock.  *)
(* The daily and hourly jobs of src/src/jobs/scheduler.ts come again and   *)
(* again.                                                                  *)
(***************************************************************************)
EXTENDS News, Notifier, Pages, Offers, Feed

vars == <<request, jobs, today, newsVars, mailVars, pageVars, offerVars, feedVars>>

Init == \E w \in Scenarios :
    /\ RequestsInit(w) /\ jobs = [j \in JobIds |-> NoJob] /\ today = w.today
    /\ NewsInit(w) /\ NotifierInit(w) /\ PagesInit(w) /\ OffersInit(w) /\ FeedInit(w)

Busy == {c \in Come : pc[c] \notin Ended}

CallStep == \E c \in Busy :
    /\ \/ NewsStep(c) /\ UNCHANGED <<mailVars, pageVars, offerVars, feedVars>>
       \/ MailStep(c) /\ UNCHANGED <<newsVars, pageVars, offerVars, feedVars>>
       \/ PageStep(c) /\ UNCHANGED <<newsVars, mailVars, offerVars, feedVars, jobs>>
       \/ OfferStep(c) /\ UNCHANGED <<newsVars, mailVars, pageVars, feedVars>>
       \/ FeedStep(c) /\ UNCHANGED <<newsVars, mailVars, pageVars, offerVars, jobs>>
    /\ UNCHANGED today

WorkerStep ==
    /\ \/ /\ \E j \in NewsJobs : NewsWork(j)
          /\ UNCHANGED <<mailVars, pageVars, offerVars, feedVars>>
       \/ /\ \E j \in MailJobs : MailWork(j)
          /\ UNCHANGED <<newsVars, pageVars, offerVars, feedVars>>
       \/ /\ \E j \in OfferJobs : OfferWork(j)
          /\ UNCHANGED <<newsVars, mailVars, pageVars, feedVars>>
       \/ PageSweep /\ UNCHANGED <<newsVars, mailVars, offerVars, feedVars, jobs>>
       \/ FeedRefresh /\ UNCHANGED <<newsVars, mailVars, pageVars, offerVars, jobs>>
    /\ UNCHANGED <<request, today>>

\* The time passes; one request may die; a job fails as often as it may.
Elsewhere ==
    /\ \/ NextDay /\ UNCHANGED <<request, jobs>>
       \/ ~Died /\ (\E c \in Come : Die(c)) /\ UNCHANGED <<jobs, today>>
       \/ (\E j \in JobIds : JobFails(j)) /\ UNCHANGED <<request, today>>
    /\ UNCHANGED <<newsVars, mailVars, pageVars, offerVars, feedVars>>

Next == CallStep \/ WorkerStep \/ Elsewhere

Spec == Init /\ [][Next]_vars

\* The server goes on with its requests, the worker with its jobs. The date
\* need not change.
FairSpec == Spec /\ WF_vars(CallStep \/ WorkerStep)

\* Every part has its type.
CommunityTypeOK ==
    /\ NewsTypeOK /\ MailTypeOK /\ PageTypeOK /\ OfferTypeOK /\ FeedTypeOK
    /\ \A j \in JobIds : jobs[j] \in JobType
=============================================================================
