--------------------------- MODULE EventLifecycle ---------------------------
(***************************************************************************)
(* The life of one event and of its RSVPs, events.service.ts: transitions  *)
(* by administrators, cancellation with its notifications, the auto-       *)
(* complete job of the worker (the event-lifecycle queue), and the gallery.*)
(* Transitions, cancellation, job and upload each read the status and      *)
(* write it in a later statement.                                          *)
(***************************************************************************)
EXTENDS Rsvp

CONSTANTS
    MaxImages,   \* MAX_EVENT_GALLERY_IMAGES
    LastTick     \* bound on the clock

VARIABLES
    cancelled,  \* cancelledAt is set
    now,        \* the clock
    endAt,      \* when the event ends
    dueAt,      \* when the job is due: fixed when it is added
    job,        \* the job event-complete-<id>
    images,     \* number of gallery images
    told,       \* history: members told of the cancellation
    late,       \* history: members with an RSVP call open at the cancellation,
                \* or in the hands of a promotion as it notifies
    publishing, \* history: PUBLISHED was written, and is to complete on its own
    reopened    \* history: a finished event went back to an earlier status

clock == <<now, endAt, dueAt>>
lifeVars == <<cancelled, clock, job, images>>
lifeHistory == <<told, late, publishing, reopened>>
vars == <<event, rsvpVars, pc, lifeVars, lifeHistory>>

Finished == {"COMPLETED", "GALLERY_UPLOADED", "ARCHIVED"}

LIFECYCLE_TRANSITIONS ==
    [s \in {"DRAFT", "PUBLISHED", "RSVP_SALES_OPEN", "LIVE"} \union Finished |->
        CASE s = "DRAFT" -> {"PUBLISHED"}
          [] s = "PUBLISHED" -> {"RSVP_SALES_OPEN", "LIVE"}
          [] s = "RSVP_SALES_OPEN" -> {"LIVE"}
          [] s = "LIVE" -> {"COMPLETED"}
          [] s = "COMPLETED" -> {"GALLERY_UPLOADED", "ARCHIVED"}
          [] s = "GALLERY_UPLOADED" -> {"ARCHIVED"}
          [] s = "ARCHIVED" -> {}]

ASSUME LifeAssumption ==
    /\ MaxImages \in Nat /\ LastTick \in Nat \ {0}
    /\ \A w \in Scenarios : w.event \in DOMAIN LIFECYCLE_TRANSITIONS
    /\ \A c \in CallsOf("transition") : Input[c].to \in DOMAIN LIFECYCLE_TRANSITIONS
    /\ \A c \in CallsOf("gallery") : Input[c].n \in Nat
    /\ \A c \in CallsOf("update") : Input[c].end \in 0 .. LastTick

Init ==
    /\ RsvpInit
    /\ cancelled = FALSE /\ images = 0
    /\ now = 0 /\ endAt = 1 /\ dueAt = 0
    /\ job = "none"
    /\ told = {} /\ late = {} /\ publishing = FALSE /\ reopened = FALSE

\* The status is written by id, whatever it has become.
SetEvent(s) ==
    /\ event' = s
    /\ reopened' = (reopened \/ (event \in Finished /\ s \notin Finished))

-----------------------------------------------------------------------------
(* transitionEvent *)

\* A Super Admin may go anywhere; an organization's administrator follows
\* the table, and of a finished event may only upload the gallery.
TransitionAllowed(c) ==
    \/ Input[c].super
    \/ /\ event \in Finished => Input[c].to = "GALLERY_UPLOADED"
       /\ Input[c].to \in LIFECYCLE_TRANSITIONS[event]

TransitionRead(c) ==
    /\ Move(c, "start", IF TransitionAllowed(c) THEN "write" ELSE "refused")
    /\ UNCHANGED <<event, rsvpVars, lifeVars, lifeHistory>>

TransitionWrite(c) ==
    LET to == Input[c].to IN
    /\ Move(c, "write", IF to = "PUBLISHED" THEN "schedule" ELSE "done")
    /\ SetEvent(to)
    /\ publishing' = (publishing \/ to = "PUBLISHED")
    /\ UNCHANGED <<rsvpVars, lifeVars, told, late>>

\* schedulePublishSideEffects. A job of the same id, waiting or completed,
\* makes the queue ignore the new one.
TransitionSchedule(c) ==
    /\ Move(c, "schedule", "done")
    /\ IF job = "none"
       THEN job' = "delayed" /\ dueAt' = Max({now, endAt})
       ELSE UNCHANGED <<job, dueAt>>
    /\ UNCHANGED <<event, rsvpVars, cancelled, now, endAt, images, lifeHistory>>

-----------------------------------------------------------------------------
(* cancelEvent *)

CancelEventRead(c) ==
    /\ Move(c, "start", IF /\ ~cancelled
                           /\ event \in Finished => Input[c].super
                        THEN "write" ELSE "refused")
    /\ UNCHANGED <<event, rsvpVars, lifeVars, lifeHistory>>

CancelEventWrite(c) ==
    /\ Move(c, "write", "unqueue")
    /\ SetEvent("ARCHIVED")
    /\ cancelled' = TRUE
    /\ late' = late \union {By(r) : r \in {x \in RsvpCalls : pc[x] \notin Ended \union {"start"}}}
    /\ UNCHANGED <<rsvpVars, clock, job, images, told, publishing>>

\* job.remove() fails on a job a worker is running.
CancelEventUnqueue(c) ==
    /\ Move(c, "unqueue", "notify")
    /\ job' = IF job = "active" THEN job ELSE "none"
    /\ UNCHANGED <<event, rsvpVars, cancelled, clock, images, lifeHistory>>

\* The members the open promotions have listed and not reached yet.
Listed == {w.m : w \in UNION {queue[c] : c \in {x \in CancelCalls : pc[x] = "promote"}}}

\* Mutation: the waiting list is forgotten.
CancelEventNotifyConfirmed(c) ==
    /\ Move(c, "notify", "done")
    /\ told' = told \union With("CONFIRMED")
    /\ late' = late \union Listed
    /\ UNCHANGED <<event, rsvpVars, lifeVars, publishing, reopened>>

CancelEventNotify(c) ==
    /\ Move(c, "notify", "done")
    /\ told' = told \union With("CONFIRMED") \union With("WAITING_LIST")
    /\ late' = late \union Listed
    /\ UNCHANGED <<event, rsvpVars, lifeVars, publishing, reopened>>

-----------------------------------------------------------------------------
(* The clock, and autoCompleteEvent in the worker *)

Tick ==
    /\ now < LastTick
    /\ now' = now + 1
    /\ UNCHANGED <<event, rsvpVars, pc, cancelled, endAt, dueAt, job, images, lifeHistory>>

\* Mutation: only an event that went LIVE is completed.
CompleteReadLive ==
    /\ job = "delayed" /\ now >= dueAt
    /\ job' = IF event = "LIVE" THEN "active" ELSE "completed"
    /\ UNCHANGED <<event, rsvpVars, pc, cancelled, clock, images, lifeHistory>>

CompleteRead ==
    /\ job = "delayed" /\ now >= dueAt
    /\ job' = IF event \in Finished THEN "completed" ELSE "active"
    /\ UNCHANGED <<event, rsvpVars, pc, cancelled, clock, images, lifeHistory>>

CompleteWrite ==
    /\ job = "active"
    /\ job' = "completed"
    /\ SetEvent("COMPLETED")
    /\ UNCHANGED <<rsvpVars, pc, cancelled, clock, images, told, late, publishing>>

-----------------------------------------------------------------------------
(* updateEvent: the end moves, the job keeps its delay. (The confirmed guests *)
(* are notified; the other fields do not matter here.)                     *)

UpdateRead(c) ==
    /\ Move(c, "start", IF event \in Finished /\ ~Input[c].super THEN "refused" ELSE "write")
    /\ UNCHANGED <<event, rsvpVars, lifeVars, lifeHistory>>

UpdateWrite(c) ==
    /\ Move(c, "write", "done")
    /\ endAt' = Input[c].end
    /\ UNCHANGED <<event, rsvpVars, cancelled, now, dueAt, job, images, lifeHistory>>

-----------------------------------------------------------------------------
(* addGalleryImages *)

GalleryRead(c) ==
    /\ Move(c, "start", IF event \in Finished /\ images + Input[c].n <= MaxImages
                        THEN "insert" ELSE "refused")
    /\ UNCHANGED <<event, rsvpVars, lifeVars, lifeHistory>>

GalleryInsert(c) ==
    /\ Move(c, "insert", "write")
    /\ images' = images + Input[c].n
    /\ UNCHANGED <<event, rsvpVars, cancelled, clock, job, lifeHistory>>

GalleryWrite(c) ==
    /\ Move(c, "write", "done")
    /\ SetEvent("GALLERY_UPLOADED")
    /\ UNCHANGED <<rsvpVars, lifeVars, told, late, publishing>>

-----------------------------------------------------------------------------

LifeStep(c) ==
    \/ /\ Op(c) = "transition"
       /\ TransitionRead(c) \/ TransitionWrite(c) \/ TransitionSchedule(c)
    \/ /\ Op(c) = "cancelEvent"
       /\ \/ CancelEventRead(c) \/ CancelEventWrite(c)
          \/ CancelEventUnqueue(c) \/ CancelEventNotify(c)
    \/ /\ Op(c) = "gallery"
       /\ GalleryRead(c) \/ GalleryInsert(c) \/ GalleryWrite(c)
    \/ /\ Op(c) = "update"
       /\ UpdateRead(c) \/ UpdateWrite(c)

LifeDie(c) ==
    /\ Op(c) \in {"transition", "cancelEvent", "gallery", "update"}
    /\ pc[c] \in {"write", "schedule", "unqueue", "notify", "insert"}
    /\ Goto(c, "dead")
    /\ UNCHANGED <<event, rsvpVars>>

Running == {c \in Calls : pc[c] \notin Ended}

CallStep == \E c \in Running : \/ RsvpStep(c) /\ UNCHANGED <<lifeVars, lifeHistory>>
                               \/ LifeStep(c)

Fail == \E c \in Running : /\ \/ Op(c) = "rsvp" /\ RsvpAbort(c)
                              \/ RsvpDie(c)
                              \/ LifeDie(c)
                           /\ UNCHANGED <<lifeVars, lifeHistory>>

Next == CallStep \/ Fail \/ Tick \/ CompleteRead \/ CompleteWrite

Spec == Init /\ [][Next]_vars

\* The server serves its calls, the clock goes on, the worker takes due jobs.
\* Every step is taken at most a few times, so weak fairness of the kind is
\* enough.
Fairness == WF_vars(CallStep) /\ WF_vars(Tick) /\ WF_vars(CompleteRead \/ CompleteWrite)

FairSpec == Spec /\ Fairness

-----------------------------------------------------------------------------
(* Properties *)

\* Every variable has its type; a row that was confirmed or cancelled has no
\* position on the waiting list.
TypeOK ==
    /\ event \in DOMAIN LIFECYCLE_TRANSITIONS
    /\ rsvp \in [Members -> Statuses]
    /\ size \in [Members -> Nat]
    /\ pos \in [Members -> Nat]
    /\ \A m \in Members : pos[m] > 0 => rsvp[m] \in {"WAITING_LIST", "CHECKED_IN"}
    /\ eventTx \in RsvpCalls \union {NoTx}
    /\ was \in [Calls -> Statuses]
    /\ avail \in [Calls -> Int]
    /\ job \in {"none", "delayed", "active", "completed"}
    /\ {now, endAt, dueAt} \subseteq 0 .. LastTick
    /\ images \in Nat
    /\ {cancelled, publishing, reopened, overlapped} \subseteq BOOLEAN
    /\ told \union late \union promoted \subseteq Members

\* events.service.ts:300-304, "serialized instead of racing": RSVPs alone,
\* however many arrive at once and whatever fails, never confirm more than the
\* capacity. (A promotion, which takes no lock, may.)
RsvpsFit == Capacity > 0 /\ promoted = {} => Confirmed <= Capacity

\* Nobody is about to promote.
Quiet == \A c \in Calls : Op(c) \in {"rsvp", "cancelRsvp"} => pc[c] \in Ended \union {"start"}

\* events.service.ts:391, "Slot frees -> promote": when no call is open and none
\* died, nobody waits whose party fits into the free seats, unless an RSVP or
\* a cancellation overlapped a cancellation, a member who had cancelled sent
\* two RSVPs at once (the second counts the seats the first one took), or the
\* guest who left had checked in (no promotion then).
NobodyWaitsForAFreeSeat ==
    \/ ~Quiet \/ overlapped \/ \E c \in Calls : pc[c] = "dead"
    \/ \E c \in CancelCalls : pc[c] = "done" /\ was[c] = "CHECKED_IN"
    \/ \A m \in With("WAITING_LIST") :
           Confirmed + Seats(With("CHECKED_IN")) + size[m] > Capacity

\* events.service.ts:105-141: once a cancellation has run to its end, whoever
\* holds an RSVP was told, unless the RSVP was being written meanwhile, by its
\* member or by a promotion, or the event was opened again.
GuestsAreTold ==
    \A c \in CallsOf("cancelEvent") :
        pc[c] = "done" /\ ~reopened
            => With("CONFIRMED") \union With("WAITING_LIST") \subseteq told \union late

\* events.service.ts:220: an event that was published is finished some time
\* after its end, by an administrator or the job, whatever transitions race
\* with the job and however its end is moved, unless the publisher died before it scheduled the job or a
\* stale write took a finished event back.
PublishedEventEnds ==
    publishing ~> event \in Finished \/ reopened \/ \E c \in Calls : pc[c] = "dead"

\* events.service.ts:391, "promote longest-waiting": a promotion passes over an
\* earlier arrival only if that party is larger. Positions are the length of
\* the list plus one, so they repeat and invert once the list has shrunk.
LongestWaitingFirst ==
    [][\A m, e \in Members :
          /\ rsvp[m] = "WAITING_LIST" /\ rsvp'[m] = "CONFIRMED"
          /\ rsvp[e] = "WAITING_LIST" /\ rsvp'[e] = "WAITING_LIST"
          /\ arrival[e] < arrival[m]
          => size[e] > size[m]]_vars
=============================================================================
