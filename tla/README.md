# A TLA+ model of the JiNANAM backend

JiNANAM is a REST API (Express, Prisma on PostgreSQL, Redis, BullMQ) for temples,
dharamshalas, events, tours, donations and community pages. Its code is one stateless
API process, of which several may run, and one worker process that takes delayed and
repeated jobs from Redis queues. All state is in PostgreSQL and Redis. Almost every
handler has the same shape: read a row, check what was read, write the row by id in a
later statement. What can go wrong is therefore a matter of which statements of which
requests, jobs and transactions come in between, and that is what these modules model.

## The parts of the system

| Part | State | Operations | What is hard | What makes it correct |
|---|---|---|---|---|
| Public-id engine (`engines/idGenerator`) | `id_sequences`: last number of each prefix | `nextPublicId`, in the caller's transaction, in one of its own, in none | first inserts, rollback, retries, callers without a transaction | a number is used once; no gaps; nobody waits for ever |
| Reserved seating (`modules/seating`) | seat rows, Redis keys with a time to live, release jobs | lock, release, administrator lock and release, confirmation, job | two stores written one after the other; rollback does not restore Redis | a booked seat has its ticket; a lock ends |
| Tickets (`modules/tickets`) | tickets, categories | purchase, scan, refund | capacity, replays, payment references; a scan racing with a refund | sold like a box office; a used ticket is refused |
| Bookings (`modules/bookings`) | bookings, rooms, receipts, payment-window jobs | submit, decide, proof, verify, expire, front desk | every handler races with the others and with the job | confirmed only with proof; windows end; receipts |
| RSVPs and events (`modules/events`) | event status, RSVP rows, gallery, completion job | RSVP, cancel, promote, check in; transition, cancel, complete, gallery | promotion without the lock RSVPs take; stale status writes | capacity; nobody waits for a free seat; guests are told; events end |
| Tour Jatra (`modules/tours99`) | daily counts, milestones, rooms, certificate jobs | enter and correct counts, lock the target, join, assign beds, write a certificate | totals are read while other days are written; a job that is tried again | a milestone was earned; one certificate, and it comes |
| Counters, gate, donations, dining hall (`counters`, `visitors`, `donations`, `bhojanshala`) | counts; entries; donations and receipts; passes and scans | tap, reset; check in and out, online and in batches sent again; decide; scan | read-modify-write, replays after lost answers, double decisions | nobody crosses a boundary untold; inside once; a receipt for what is verified; a meal for each approval |
| News, offers, pages, feed (`news`, `offers`, `communityPages`, `feed`, `polls`) | rows whose life is driven by jobs, sweeps and dates | publish, archive, restore, remind, subscribe, join, like, vote | jobs against edits, ids the queue still knows, dates that move during a sweep | what is over is archived, locked, hidden; counters agree with rows |
| Notification engine (`engines/notification`) | queued messages, log rows, preferences | queue, dispatch, fail over, retry, open | a worker that dies between a row and its answer | every wanted channel was tried to an answer |
| Accounts and permissions (`auth`, `engines/rbac`, `middlewares/auth`) | users, codes, devices with their tokens, grants | sign in, refresh, log out, change passwords, grant | refresh against logout; account and grants in separate writes | who logged out stays out |
| Members, staff, monks, organizations (`members`, `family`, `staff`, `volunteers`, `monks`, `chaturmas`, `temples`, `dharamshalas`) | profiles, links, structures, groups, reviews, followers | register, import, link, employ, build, follow, review | one mobile looked for by several creators; structures rebuilt by a save; counters and averages apart from rows | the account has the profile of its id |
| Tracking, devices, alerts (`tracking`, `manualTracking`, `devices`, `alerts`) | routes, journeys, positions, devices, open alerts | plan, start, pass a stop, ping, sweep, resolve | the stop and the journey are two writes | what was passed is completed |
| Offices (`eventHalls`, `ticketsSupport`, `incorrectReports`, `feedback`, `announcements`, `communication`, `calendar`, `banners`, `homeSections`, `subscriptionPlans`, `ads`) | single rows | create, decide, list, delete | an edit against a deletion or another edit | references stay whole |
| The rest (masters, settings, gallery, reports, search, dashboard, exports, pathshala, QR, storage) | lookup rows, files | CRUD, read-only queries, formatting | little | not modelled |

How they interact: every creating module calls the id engine, most of them inside the
transaction that creates the record. Ticket purchases confirm seats inside their
transaction (`confirmSeatBooking`). Bookings, events and seats put delayed jobs into
queues and the worker calls back into their services. The queue keeps one job per id: an
`add` with the id of a job that is waiting, or is kept after completion, is ignored, and
removing a job that a worker runs fails. All modules hand notifications to the
notification engine and do not wait for the delivery.

`PROJECT.json` lists every component, the hazards at their lines, and for every definition
the source lines it stands for.

## Modules

| Module | What it is |
|---|---|
| `IdAllocator` | what the id engine promises: numbers of a prefix are handed out one after the other |
| `IdSequence` | `nextPublicId` statement by statement, and its three kinds of callers |
| `Seating` | seat rows, Redis keys and release jobs |
| `BoxOffice` | what ticket sales promise: groups whole, seats once, capacity kept, payment references per group |
| `Ticketing` | purchases, scans and refunds; composes `Seating`, whose variables a purchase writes when it commits |
| `Booking` | the life of bookings, rooms, payment windows and receipts |
| `Rsvp` | the RSVP rows of one event |
| `EventLifecycle` | the event's status, completion job and gallery; composes `Rsvp`, which reads the status |
| `IdSequenceProofs`, `TicketingProofs`, `BookingProofs`, `EventLifecycleProofs`, `ServiceDeskProofs`, `CommunityProofs`, `PlatformProofs` | the theorems, and the invariants they rest on |
| `SumProofs` | lemmas about sums over a finite set and about cardinalities |
| `Requests` | requests as sequences of statements, and how one dies; the base of the modules below |
| `JobQueue` | the queue: one job per id, attempts, failure, a job that is waiting, active, completed or failed |
| `Days` | the clock, in days |
| `Tours`, `Counters`, `Gate`, `Donations`, `Bhojanshala` | the services named so; `ServiceDesk` composes them |
| `News`, `Notifier`, `Pages`, `Offers`, `Feed` | the services named so; `Community` composes them with one clock and one worker |
| `Accounts` | users, one-time codes, passwords, devices and their tokens; roles, grants, tenants; `requireAuth`, `requirePermission`, `scopeToOrganization`; administrators |
| `Members` | profiles, registrations, imports, families |
| `Staffing` | staff, their modules, attendance and leave |
| `Tracking` | devices and alerts; routes, journeys and their events |
| `Sites` | organizations, their parts and buildings, reviews, followers, volunteers |
| `Monks` | monks, their groups and followers, chaturmas |
| `Office` | event halls, cases, announcements, messages, calendar, the super admin's lists |
| `Platform` | composes these: every request is checked against rows that others write |
| `MCIdSequence`, `MCTicketing`, `MCBooking`, `MCEventLifecycle`, `MCServiceDesk`, `MCCommunity`, `MCPlatform` | the instances for TLC |

How state and actions correspond to the code:

- A request is a constant of the model with a program counter `pc[r]`; its inputs are
  constant functions or a record `Input[c]`. Each action is one statement that another
  process can observe: a read, a write, a commit. Statements of one transaction that nobody
  else can see are joined. The whole transaction is rolled back by an `Abort` or
  `Rollback` action, which may come at any point, and an API process may die (`Die`)
  between two statements of a call that is not in a transaction.
- PostgreSQL is at READ COMMITTED: a statement sees what is committed, and a write waits
  for the transaction that holds the row (`holder`, `rowTx`, `catTx`, `seqTx`, `eventTx`).
  Unique keys are guards whose failure aborts.
- In `IdSequence`, `row` is the committed `lastValue`, `cur` and `number` are the locals
  `current` and the id returned. `granted` is history: who was handed a number for good.
- In `Seating`, a LOCKED row is represented by its token, the token by the lock call that
  drew it. The status UNAVAILABLE is never written by the code and is left out.
- In `Booking`, a booking is identified with the call that creates it; `window[b]` is the
  approval whose deadline the booking has, `lapsed` the deadlines that are over, `job` and
  `jobBy` the queue's job. `astray`, `rushed` and `proved` are history: bookings whose status
  took a step no handler means to take, submitted while another submission was between
  check and insert, or with a proof of payment.
- In `Rsvp`, `was`, `avail` and `queue` are the locals of `cancelRsvp` and the promotion;
  `arrival`, `promoted` and `overlapped` are history.
- In the modules over `Requests`, `sent[c]` is the body of request `c`, `pc[c]` its next
  statement, and `saw[c]` what it has read and still uses. A request ends "done", "refused"
  (a check of the code), "failed" (an exception, such as a unique key) or "dead". A row is
  named by the call that creates it. An operation is a set of `pc` labels; `XxxStep(c)` says
  which actions belong to which `op`. Which account sends a request, and which
  organization it names, are part of `sent`: permissions are computed from the rows at
  the statement that loads them, as `loadEffectivePermissions` does.
- History variables are marked so where they are declared (`peak`, `crossed`, `crowded`,
  `contested`, `bookedTimes`, `twoScans`, `chosenFor`, `late`, `blurred`, ...). No guard reads them.
- `peak` is the largest count ever entered for a day, `leastTarget` the lowest positive target
  a tour had: what `MilestoneEarned` compares a milestone with. The body of an edit is not
  validated (`tours99.routes.ts:100`), so that an edit may also take the target away, or give
  a first one to a tour without. `summed` is what the entry saved last for a participant has
  added up and compared with, `uncounted` whose certificate job failed after storing and before counting.
- `reopened` holds the news items that an edit put on show again. The body of `updateNews` is not validated either
  (`news.routes.ts:43`), and each of its fields is a column to write, `isArchived` and `deletedAt` included.
- In `EventLifecycle`, `now` is a clock of three ticks, `endAt` the event's end, `dueAt` the
  time at which the completion job `job` is due. An edit (`updateEvent`) moves `endAt` and leaves
  `dueAt`: the job then completes the event before or after its new end.

Definitions under a comment that begins with "Mutation" are not part of the specifications.
Each is a plausible mistake in the definition that follows it; put in its place it breaks
the property `PROJECT.json` names, which shows that the property depends on that code.

## What is checked

| Run | Bounds | What it shows |
|---|---|---|
| `id_sequence` | three prefixes; two enclosed callers, two detached ones, or an enclosed and a bare one; numbers 108 to 111 | in transactions numbers are unique (`NoDuplicateNumber`), without gaps where the record shares the transaction (`Gapless`), and the engine implements `IdAllocator`; every call ends (`EveryCallSettles`) |
| `seat_checkout` | two seats, two categories, six workloads of three to five requests | sales implement `BoxOffice`; `BookedSeatHasTicket`; `LateScanRefused`; `LockIsReleased` |
| `booking` | a hall with one place and a room item with two rooms, eight workloads of three to six requests, one death | `ConfirmedIsProved`, `OverbookedOnlyByRace`, `PaymentWindowEnds`, `ConfirmedGetsReceipt` |
| `event` | five members, two seats, a clock of three ticks, ten scenarios of two to four calls | `RsvpsFit`, `NobodyWaitsForAFreeSeat`, `GuestsAreTold`, `PublishedEventEnds` |
| `service_desk` | two members, two days, milestones of a small target, two rooms of one bed, 21 scenarios of two to five requests, two attempts of a job, one death | `MilestoneEarned`, `CertificateCountedOnce`, `TargetReachedGetsCertificate`; `CrossedIsTold`; `OneActiveEntry`, `SyncedOnce`; `ReceiptIsForVerified`, `VerifiedGetsReceipt`; `OneMealPerApproval` |
| `community` | two members, days 0 to 2, 27 scenarios of one to four requests, two attempts of a job, one death | `NewsIsArchived`, `PastPageIsLocked`, `PostsFollowTheirDates`, `LikesAreCounted`, `DeliveryIsLogged` |
| `platform` | two super admins or administrators, two members, two numbers, 87 scenarios of one to four requests, one death | `ProfileMatchesAccount`, `PassedStopsAreCompleted`, `LoggedOutStaysOut` |
| `id_bare_callers` | one enclosed and two bare callers | violated: two calls return the same member id |
| `sold_seat_overwritten` | two sessions that lock one seat, and their purchases of it | violated: a stale lock overwrites a BOOKED row |
| `full_house` | two rooms, both checked into | violated: a day with every room taken is open |
| `proof_replay` | one booking, one proof sent twice | violated: a repeated proof reopens a confirmed booking |
| `waiting_order` | four parties on the list, three cancellations | violated: a newcomer is promoted before a longer wait |

Each of the seven main runs also checks one type invariant. The last five are
disagreements between the code and its own comments; `findings` in `PROJECT.json` quotes both.

Why the bounds are enough. Every hazard listed needs at most three requests on one row,
and the workloads put together the requests that share rows; those that share none are
independent. Two numbers past the first are enough to see a number reused after a rollback.
Two seats and orders of two attendees are enough for a purchase that fails half-way; a
category of three places for two orders of two. A hall with one place is the smallest
capacity that can be oversold, and a party of two in an event of two seats the smallest that
does not fit into one that is free. A third tour of the queue, a third day or a third attempt
shows nothing a second does not: each hazard needs one step before and one after. In
`platform` most scenarios put two requests at one row; those of one request show the
operation alone. More deaths than one add nothing but the excuse the
properties already make for one. The theorems below do not depend on these bounds.

The exceptions in the properties are the code's, not the model's: `OverbookedOnlyByRace`,
`PaymentWindowEnds`, `NobodyWaitsForAFreeSeat`, `GuestsAreTold` and `PublishedEventEnds` each
name the situations in which the code gives no guarantee (a race between check and insert,
a stale write, a death before the job was enqueued). Without the exception TLC finds that
situation, and with it nothing else remains. So do the exceptions of the three composed
runs: `crowded` (two check-ins of one person under way at once), `contested` (two decisions
on one donation), `twoScans`, `blurred` (events of one route recorded at once), a death, or a job
that failed for good. A property that excuses the very race it is near to shows that nothing else
can go wrong there, and not that the race is harmless; the `note` of a hazard says where that is so.

Three properties say how much is lost rather than that nothing is. `TargetReachedGetsCertificate` is
about the counts as they stand: the certificate comes as soon as the entry saved last has summed
up all of them (`SummedUp`), whatever earlier entries missed, unless an entry of that participant
failed; without `SummedUp` TLC shows two entries at once that are both short.
`CertificateCountedOnce` is an equation: one count for every stored certificate, none while its
attempt is between the two statements, and none ever if it failed there (`uncounted`).
`NewsIsArchived` holds for every active item an edit has not put on show again (`reopened`); restores, edits,
deletions and old jobs may come in any order otherwise.

Deadlock is not checked: a workload ends when its requests have.

Fairness. The server finishes the requests it began unless it dies, the worker takes due
jobs, and the clock goes on: weak fairness of each kind of step. Requests run once, so that
every step is taken a few times and weak fairness of the disjunction is enough. In
`IdSequence` callers may retry for ever and compete for a row lock; PostgreSQL hands the lock to
its waiters in turn, which is strong fairness of each caller. In `ServiceDesk` and `Community` one weak fairness, of request steps and worker steps
together, is enough: each request and each job takes finitely many steps, and the sweeps
that come again and again are steps only when they change a row. `Platform` is checked for safety
only. No fairness is assumed of clients, administrators, the date, failures or deaths.

## What is proved

`IdSequenceProofs`, for all sets of prefixes and callers, under the assumptions
`CallersAssumption` and `StartAssumption` (kinds of callers are disjoint, `Start` is positive):
`TypeCorrect`, `NeverReused` (`NoDuplicateNumber`), `NoGaps` (`Gapless`) and `Refinement`
(`AllocatorSpec`). The invariant is inductive only with the lock: whoever holds a row is a
caller of its prefix in an open transaction (`LockInv`), what it has read is still the
committed value and its number the successor (`ReadInv`), and no number beyond the committed
value was handed out (`GrantedInv`, `BaseInv`). Prefixes with a bare caller are left out:
there it fails, as `id_bare_callers` shows.

`TicketingProofs`, for all seats, requests, orders and categories, under
`SeatingAssumption` and `TicketingAssumption` (the kinds of requests are disjoint, the
status values distinct, orders not empty): `TypeCorrect`, `NoBookedSeatWithoutTicket`
(`BookedSeatHasTicket`) and `UsedTicketRefused` (`LateScanRefused`). The step that matters is
the commit: a row it turns BOOKED was written by that transaction for one of its attendees
(`RowInv`, `ItemInv`), whose ticket the same commit creates. Issued tickets stay with their
order (`SoldInv`), and a ticket that was never used or refunded has let nobody in
(`FreshInv`, `AdmitInv`). `Refinement` (`BoxOfficeSpec`): the commit of a purchase is one sale of
`BoxOffice`, a refund is one of its refunds, and every other step stutters. What the commit
relies on was found several statements before, and `SaleInv` is why it is still true: the
category's row stays locked from the count to the end, so that nobody else sells in it (`OneSeller`),
refunds only make room, and the count and the payment reference hold as they were checked (`Room`);
a row that was written when it was free keeps the seats served so far apart, from each other, from
other transactions and from every ticket issued meanwhile (`Placed`, `Alone`).

`SumProofs` is about `SumFunctionOnSet`, with which the models write the sums the code takes by
`aggregate` and `reduce`. The operator of the community modules is a recursive function over the
subsets of a set; that it exists and obeys its equation is proved by a minimal
counterexample (a nonempty set of subsets of a finite set has a smallest member), since
induction over a predicate is out of reach. From the equation follow what the proofs cite: the type of a sum,
removal of an element, monotony in the values and in the set, disjoint unions, sums of ones.

`BookingProofs`, for all items, rooms, days, bookings, calls and workloads, under
`BookingAssumption` and `InputAssumption` (inputs have the types the handlers give them, and
the bookings are finitely many): `TypeCorrect`, `PaidBeforeConfirmed` (`ConfirmedIsProved`) and
`OverbookedInARaceOnly` (`OverbookedOnlyByRace`). A confirmation rests on an earlier statement of
another request: who is under verification has sent a proof, and so has the booking a
verification has read (`ProofInv`). For the calendar, a submission that is alone between its check
and its insert knows that its days still have room for one (`RoomLeft`), the stay it
checked is the one it inserts (`StayInv`), and the bookings that neither raced nor were
extended nor left the lifecycle fit (`OrderlyFits`); any step that inserts one takes the place
that was known to be free. The theorem counts only bookings that did none of the three;
`OverbookedOnlyByRace` follows because a day over its maximum holds one that did.

`EventLifecycleProofs`, for all members, calls and scenarios and every capacity, under
`RsvpAssumption`, `ScenarioAssumption` and `LifeAssumption` (initial rows are ones the code could
have left: who waits found the event full, the confirmed fit):
- `TypeCorrect`.
- `NeverOverfull` (`RsvpsFit`): past the lock an RSVP holds it (`LockInv`), and what it decided to confirm
  fits beside what is confirmed (`CountInv`).
- `EveryGuestTold` (`GuestsAreTold`): once a cancellation has written, the status keeps
  new RSVPs out, and whoever is still writing one is known (`ClosedInv`); afterwards every
  holder was told or was late (`ToldInv`). Here the proof found what the runs had missed: a
  promotion that has read its list confirms a waiting guest after the notifications, so that those
  it has listed are holders too.
- `NobodyWaitsInVain` (`NobodyWaitsForAFreeSeat`): `GapInv` says, while nothing that the property excuses
  has happened, that calls find the row they read (`RowsKept`), that cancellations run one at a
  time and against no open RSVP (`OneAtATime`), that who is about to wait does not fit
  (`WaitsRightly`), that outside promotions no waiter fits (`WaitersDoNotFit`), and that a
  promotion has seats in hand at most for what is free and has passed over only
  larger parties (`PromotionCovers`). Not inductive without one more excuse: two RSVPs at once of a
  member who had cancelled. The second counts the seats the first took, may put the member on
  the list, and leaves the seats free (`events.service.ts:292`, the row is read before the
  lock).

`ServiceDeskProofs`, for all members, rooms, days, calls and scenarios, under the assumptions of
the five services (`RequestAssumption`, `TourAssumption`, `TourInputs`, `CounterAssumption`,
`GateAssumption`, `DonationAssumption`, `MealAssumption`: bodies have the types of their schemas,
new ids are new, initial entries have unique keys). The services share
requests and a process that dies, and no rows: `Services` shows once that a step is
one of a service's own or changes nothing it sees but the life of a request. Then each has
an invariant of its own, and `DeskInv` is their conjunction:
- `ReceiptsAreForVerified`: decisions under way on one donation are known to be contested
  (`DecidesAlone`), who decides alone decides what it has read (`DecidesPending`), and a
  receipt still to be written is for a donation that was verified (`ReceiptDue`).
- `OneMealEach`: a pass that may still feed, or is being scanned, was booked once more than it
  was served (`MealsEarned`); scans of a pass are alone or known not to be (`ScansAlone`).
- `InsideOnce`, `OfflineEntriesSyncedOnce`: keys are unique (`UniqueKeys`), rival check-ins are known
  (`RivalsAreKnown`), and what a check-in looked for and did not find is still not there, unless
  crowded (`LookedUp`).
- `MilestonesAreTold`: what a tap has read was told of, and so is what it will write once it is
  past its notification; counts are absolute, so a stale write needs nothing more (`CounterInv`).
- `MilestonesAreEarned`: a count that stands was entered (`BelowPeak`), and each request has in hand
  only totals and milestones that the largest counts bear out against the lowest target
  (`EntryInv`), since counts in `peak` only grow and `leastTarget` only sinks.
- `CertificatesCountOnce`: the number of counts is known at each point of the job, from whether the certificate
  is stored, whether an attempt is about to count it, and whether one failed there
  (`Certified`, `CertificateInv`). The attempt that finds a stored certificate ends, so that what
  an earlier one left uncounted stays so.
- `TypeCorrect` (`DeskTypeOK`) follows from all of them, with `NumberTaken` (each receipt, and each request
  about to write one, took a number), `ManagerInv`, `RoomInv` and `JobInv`.

`CommunityProofs`, for all members, posts, messages, channels, calls and scenarios, under
`RequestAssumption`, `FeedAssumption`, `NotifierAssumption`, `JobAssumption`, `NewsAssumption`,
`PagesAssumption` and `OffersAssumption` (new posts have new ids, preferences and addresses name
channels there are, the queue has an id for every message, a job may be tried at least once, and
the rows of the start have their columns, and so have edits of news). A step of
another service leaves the requests of a service where they are, or one of them dies
(`Apart`); so each service again has its own invariant:
- `LikesCounted` (`LikesAreCounted`): a like and its counter are two statements, and between them the row
  and the counter differ by one. `LikesOf` and `ViewsOf` say that over all requests: counter,
  plus who has added a row and not yet counted it, minus who has taken one, is the number of rows.
  It holds while nobody died; the rows of a deleted post go with it. When no request
  is open the sets are empty.
- `DeliveryLogged` (`DeliveryIsLogged`): an attempt has reached the channels before the one it is at
  (`Attempt`, `Reached`), answers stay answers while members open what they received (`LogGrows`), and
  the rows no attempt waits for are at most as many as the attempts that failed (`Abandoned`).
  The proof found that the SMS does not follow every failed WhatsApp message: a
  member who switches WhatsApp off between an attempt that died and the next gets neither. The
  property says so now, and a scenario of the run has it.
- `CommunityTyped` (`CommunityTypeOK`): every part has its rows (`TypesInv`). Bookmarks, votes,
  memberships and log rows are of something there is, because news, pages, polls and messages are
  marked and never removed while a request that has found them goes on (`NewsTypes`, `PageTypes`, `FeedRows`).
  A job that has not failed has a try left (`QueueTypes`). A reminder belongs to one job, the only one
  of its offer and day, and goes out no more often than this job is tried (`ReminderTypes`; `OneDay`,
  `OneJob`). That the feed can be put in the order of its ranks, for any finite set of posts, is a minimal
  counterexample again, as in `SumProofs`.

`PlatformProofs`, for all accounts, members, routes, calls and scenarios, under
`RequestAssumption`, `AccountAssumption`, `AdminAssumption`, `MemberAssumption`, `StaffingAssumption`,
`TrackingAssumption`, `WatchAssumption`, `SitesAssumption`, `MonksAssumption` and `OfficeAssumption`.
They say of the start what the database's constraints say (rows have their columns; who carries a
public id has its profile; grants are of accounts, staff are members with numbers of their own, wings stand
in buildings and rooms in wings, a monk's group is there), and of the calls what the schemas and the
callers do (an id a call draws is no id of the start, a member's own form is about that member,
names of routes are no names of calls). Every step of every service is one request going on (`Goes`),
and only few change what a theorem is about, which the lemmas `SiteGoes` to `AccountGoes` say service by service:
- `LoggedOut` (`LoggedOutStaysOut`): a refresh that has found its session live, and has not yet written
  its tokens, finds it live still or was overtaken by a logout, which noted it
  (`SessionInv`).
- `ProfilesMatch` (`ProfileMatchesAccount`): accounts and profiles are written in pairs with one id, or the
  account gets none (`SameUsers`, `SameMembers`, `NewPair`); only a hire gives a number that is not
  a profile's, and makes the account one of the staff in the same transaction.
- `StopsArePassed` (`PassedStopsAreCompleted`): on a route whose events come one by one
  (`blurred` holds the others) an event finds the journey and the stops it has read
  unchanged (`Current`), and once it has written the stops, the current one is completed, so
  that moving on passes a completed stop. Two journeys of a route, and two events that
  have read it, are known to blur it (`TravelInv`).
- `PlatformTyped` (`PlatformTypeOK`): every row refers to rows that are there, and what must be unique is.
  - What a request has found, no other undoes: accounts, profiles, staff, sites, monks, groups and
    chances are marked and never deleted (`Growth`, `MoreSites`, `MoreMonks`), so that what was read
    before a write still stands at it (`FoundInv`, `Reviewing`, `Devoting`, `Planning`, `Calling`).
  - A public id is drawn by one call for one profile (`Drawn`, `OwnIds`); Aadhaar numbers and staff
    numbers are unique by their constraints (`PeopleInv`, `RollsInv`).
  - A session that is revoked has no token (`TokenInv`); codes count their tries up to the limit
    (`CodeInv`); an alert that a request has still to raise is of a device that was read (`WatchInv`).
  - Halls are the only rows others refer to that are deleted, and a booked one is not (`OfficeInv`).

  A step changes the rows of one part only; whose step it is, `Turn` and `TurnsTaken` say once. The proof
  found the model too generous in two places. A review or a follow of an organization that is not
  there succeeded; its foreign key refuses it, and a scenario of the run reviews such a one now. And the monks of a
  plan are a JSON list that no key guards: a plan may name a monk nobody entered, so that the
  property asks of a plan only profiles or what its form names (`Listed`).

Every invariant and every action property of the passing runs is a theorem. With TLC stay the
ten liveness properties, since they rest on fairness and `ENABLED` is beyond the prover: `EveryCallSettles`,
`LockIsReleased`, `PaymentWindowEnds`, `ConfirmedGetsReceipt`, `PublishedEventEnds`,
`TargetReachedGetsCertificate`, `VerifiedGetsReceipt`, `NewsIsArchived`, `PastPageIsLocked` and
`PostsFollowTheirDates`.

## What the code does that a reader might not expect

Met while modelling; the models do what the code does. Those the repository itself
contradicts in so many words are `findings`.

- Sessions: a refresh token stays usable after the one that replaced it was issued
  (`auth.service.ts:255`; the hash compares the first 72 bytes, which the tokens of one
  device share). An INACTIVE administrator can still sign in by password, email or Google.
- Members: `activateAutoCreatedMemberIfNeeded` (`members.service.ts:711`) has no caller, so that a
  relative created as a stub stays INACTIVE; `syncFamilyMembers` deletes all links before
  it writes them; a member can be linked to itself.
- Administrators: the account is committed before its grants, and a retry conflicts with it; two
  grants at once leave both sets.
- Alerts: `raiseAlert` compares type, monk and device and not the key it is given
  (`alerts.service.ts:20`): a SIM warning silences an offline alert.
- Journeys: an event asks for no status; editing the stops of a route forgets its marks.
- Organizations: saving the form deletes the rooms it does not list, and makes every room it
  does AVAILABLE, whoever stays there.
- Event halls: any signed-in account may edit or delete one, and a booking looks for no other of
  its day (`eventHalls.controller.ts:50`); who has an organization may decide any booking.
- Offers: the comment of `offers.service.ts:9` counts 9 and 36 reminders; the schedule has 7 and 26.
  An edit of the dates moves no job.
- Notifications: SENT overwrites OPENED (`notification.service.ts:97`); a retry sends the earlier channels
  again; a broadcast over email, WhatsApp or SMS reaches only who has stated a preference.
- Pages: joining again makes an APPROVED member PENDING; a page renewed by its date alone stays
  EXPIRED. Feed: `bookmarkCount` drifts; a vote names an option that is not checked.
- Tours: two entries of one participant at once do not see each other's counts and are both short,
  so that nobody gets the certificate their sum has earned (against `tours99.service.ts:288`) until a next
  entry of any day. When both find a milestone reached, the slower one fails on its unique row, and goes
  no further: the milestones after it are left to a later entry. A certificate whose job fails between storing (`:396`) and counting
  (`:398`) is never counted: the next attempt finds it stored and returns (`:368`).
- News: an edit with `isArchived: false`, or with `deletedAt: null`, shows an item again and adds no job. It
  stays until someone restores it or edits it back, against the seven days of `news.service.ts:9`.
- Seats: an administrator's lock and release (`seating.service.ts:70`, `:78`) write by id like `lockSeat`, over a BOOKED
  row too; the run `sold_seat_overwritten` leaves them out, so that it shows `lockSeat` alone.
- Ads: two edits at once are each checked against the old row.

## Not modelled

Texts and layout; amounts and dates beyond their order; reports and exports; scan histories;
validation of bodies; rate limits; a counter's statement that fails alone and is
swallowed (`feed.routes.ts:229`, `:331`, `:340`), which leaves the counter one apart; the delivery of a message by its provider (an
attempt succeeds or fails). In modelled components: the creation of booking items by a first
submission, edits of an event's capacity, event reminders and feedback, creation of seating layouts, member cards and
locations, visibility rules beyond public and followers, permission overrides of a single member
(`settings`), distances and the history of positions. Components without a module are listed
with the reason in `PROJECT.json`. Nothing in `Platform` refers to `ServiceDesk` or `Community`:
they share the database's users only, which those two take as given.

## Plan

1. `updateEvent` also edits the capacity: it is raised and nobody is promoted, or lowered under
   the confirmed guests. That an event is not completed before its end becomes a property.
2. The seeds (`src/prisma`, `src/scripts`) as actions: that the rows they leave satisfy what the proofs
   assume of a start.
