------------------------------ MODULE Notifier ------------------------------
(***************************************************************************)
(* The notification engine: the API queues messages                        *)
(* (enqueueNotification, the broadcast route), a worker sends each over    *)
(* the channels its recipient wants and logs every attempt                 *)
(* (src/src/engines/notification/notification.service.ts). A worker that   *)
(* dies leaves its rows, and the job starts again from the first channel.  *)
(***************************************************************************)
EXTENDS Requests, JobQueue, SequencesExt

CONSTANTS Recipients, Channels,
          Wanted,       \* Wanted[u]: the preference rows of u, as they are at first
          Audience      \* Audience[a]: the users a broadcast to a is for

VARIABLES prefs,     \* prefs[u]: channel -> enabled, the rows there are
          mail,      \* mail[j]: recipient and addresses of message j
          sending,   \* sending[j]: channels chosen, which one is next, its row
          log,       \* NotificationLog: sequence of [job, channel, status]
          chosenFor  \* history: channels of the attempt that ended each job

mailVars == <<prefs, mail, sending, log, chosenFor>>

NotifierInit(w) ==
    /\ prefs = Wanted
    /\ mail = <<>> /\ sending = <<>> /\ log = <<>> /\ chosenFor = <<>>

Message(c, u) == <<"mail", c, u>>
MailJobs == DOMAIN mail

\* Preferences and messages are about users and channels there are, and the
\* queue has room for every message.
ASSUME NotifierAssumption ==
    /\ IsFiniteSet(Channels) /\ {"IN_APP", "PUSH", "SMS"} \subseteq Channels
    /\ Wanted = [u \in Recipients |-> Wanted[u]]
    /\ \A u \in Recipients : DOMAIN Wanted[u] \subseteq Channels
    /\ \A c \in Calls : LET i == Input[c] IN
        /\ i.op = "notify" => i.user \in Recipients /\ Message(c, i.user) \in JobIds
        /\ i.op = "broadcast" /\ i.super =>
               \A u \in Audience[i.audience] : u \in Recipients /\ Message(c, u) \in JobIds
        /\ i.op = "preference" => i.channel \in Channels

-----------------------------------------------------------------------------
(* enqueueNotification, and the broadcast: each message is a job *)

Enqueue(c) ==
    /\ \/ /\ Op(c) = "notify"
          /\ Move(c, "start", "done")
          /\ mail' = Put(mail, Message(c, sent[c].user), [user |-> sent[c].user, to |-> sent[c].to])
          /\ jobs' = Added(Message(c, sent[c].user))
       \/ /\ Op(c) = "broadcast"
          /\ LET users == Audience[sent[c].audience] IN
             /\ Move(c, "start", IF sent[c].super THEN "done" ELSE "refused")
             /\ IF sent[c].super
                THEN /\ mail' = Updated(mail, [j \in {Message(c, u) : u \in users} |->
                                                   [user |-> j[3], to |-> sent[c].to]])
                     /\ jobs' = [j \in JobIds |-> IF \E u \in users : j = Message(c, u)
                                                  THEN NewJob ELSE jobs[j]]
                ELSE UNCHANGED <<mail, jobs>>
    /\ Forget /\ UNCHANGED <<prefs, sending, log, chosenFor>>

\* PUT /preferences: an upsert.
PutPreference(c) ==
    /\ Move(c, "start", "done")
    /\ prefs' = [prefs EXCEPT ![sent[c].user] = Put(@, sent[c].channel, sent[c].enabled)]
    /\ Forget /\ UNCHANGED <<mail, sending, log, chosenFor, jobs>>

\* POST /:id/opened: a row of one's own, whatever its status is.
OpenRead(c) ==
    /\ pc[c] = "start"
    /\ \/ \E i \in DOMAIN log : /\ mail[log[i].job].user = sent[c].user
                                /\ log[i].channel = "IN_APP"
                                /\ Goto(c, "open") /\ Keep(c, [row |-> i])
       \/ Goto(c, "refused") /\ Forget
    /\ UNCHANGED <<mailVars, jobs>>

OpenWrite(c) ==
    /\ Move(c, "open", "done")
    /\ log' = [log EXCEPT ![saw[c].row].status = "OPENED"]
    /\ Forget /\ UNCHANGED <<prefs, mail, sending, chosenFor, jobs>>

-----------------------------------------------------------------------------
(* dispatchNotification, in the worker *)

\* resolveChannels: those enabled, or the two that need no address.
ResolveChannels(u) ==
    LET enabled == {ch \in DOMAIN prefs[u] : prefs[u][ch]} IN
    IF enabled # {} THEN enabled ELSE {"IN_APP", "PUSH"}

DispatchStart(j) ==
    /\ jobs[j].state = "waiting"
    /\ \E order \in SetToSeqs(ResolveChannels(mail[j].user)) :
           sending' = Put(sending, j, [order |-> order, i |-> 1, row |-> 0, sms |-> FALSE])
    /\ jobs' = Taken(j, "channel")
    /\ UNCHANGED <<prefs, mail, log, chosenFor>>

Over(j) == sending[j].i > Len(sending[j].order)
Channel(j) == IF sending[j].sms THEN "SMS" ELSE sending[j].order[sending[j].i]

\* Mutation: a channel without an address ends the dispatch.
SkipEndsAll(j) ==
    /\ Held(j, "channel") /\ ~Over(j) /\ Channel(j) \notin mail[j].to
    /\ sending' = [sending EXCEPT ![j].i = Len(sending[j].order) + 1]
    /\ UNCHANGED <<prefs, mail, log, chosenFor, jobs>>

SkipChannel(j) ==
    /\ Held(j, "channel") /\ ~Over(j) /\ Channel(j) \notin mail[j].to
    /\ sending' = [sending EXCEPT ![j].i = @ + 1]
    /\ UNCHANGED <<prefs, mail, log, chosenFor, jobs>>

LogQueued(j) ==
    /\ Held(j, "channel") /\ ~Over(j) /\ Channel(j) \in mail[j].to
    /\ log' = Append(log, [job |-> j, channel |-> Channel(j), status |-> "QUEUED"])
    /\ sending' = [sending EXCEPT ![j].row = Len(log) + 1]
    /\ jobs' = Taken(j, "send")
    /\ UNCHANGED <<prefs, mail, chosenFor>>

\* The adapter answers; the row gets its status by id. A WhatsApp message that
\* failed goes out once more as an SMS.
LogResult(j) ==
    /\ Held(j, "send")
    /\ \E ok \in BOOLEAN :
           LET failover == ~ok /\ Channel(j) = "WHATSAPP" /\ "SMS" \in mail[j].to IN
           /\ log' = [log EXCEPT ![sending[j].row].status = IF ok THEN "SENT" ELSE "FAILED"]
           /\ sending' = [sending EXCEPT ![j].sms = failover,
                                         ![j].i = IF failover THEN @ ELSE @ + 1]
    /\ jobs' = Taken(j, "channel")
    /\ UNCHANGED <<prefs, mail, chosenFor>>

DispatchEnd(j) ==
    /\ Held(j, "channel") /\ Over(j)
    /\ jobs' = Finished(j)
    /\ chosenFor' = Put(chosenFor, j, ToSet(sending[j].order))
    /\ UNCHANGED <<prefs, mail, sending, log>>

MailWork(j) == \/ DispatchStart(j) \/ SkipChannel(j) \/ LogQueued(j)
               \/ LogResult(j) \/ DispatchEnd(j)

MailStep(c) ==
    \/ Op(c) \in {"notify", "broadcast"} /\ Enqueue(c)
    \/ Op(c) = "preference" /\ PutPreference(c)
    \/ Op(c) = "opened" /\ (OpenRead(c) \/ OpenWrite(c))

-----------------------------------------------------------------------------
(* Properties *)

MailTypeOK ==
    /\ \A u \in Recipients : DOMAIN prefs[u] \subseteq Channels
    /\ \A i \in DOMAIN log : /\ log[i].job \in DOMAIN mail
                             /\ log[i].status \in {"QUEUED", "SENT", "FAILED", "OPENED"}

RowsOf(j, ch) == {i \in DOMAIN log : log[i].job = j /\ log[i].channel = ch}

\* notification.service.ts:74-130: when a message is done with, every channel
\* its recipient wanted and has an address for was tried to an answer; the SMS
\* of a WhatsApp message that never got through went out, if the attempt that
\* ended still wanted WhatsApp; and rows without an answer are those of
\* attempts that died.
DeliveryIsLogged ==
    \A j \in DOMAIN chosenFor :
        LET unanswered == {i \in DOMAIN log : log[i].job = j /\ log[i].status = "QUEUED"} IN
        /\ \A ch \in chosenFor[j] \intersect mail[j].to :
               \E i \in RowsOf(j, ch) : log[i].status # "QUEUED"
        /\ "WHATSAPP" \in chosenFor[j] /\ "SMS" \in mail[j].to =>
               \/ RowsOf(j, "SMS") # {}
               \/ {log[i].status : i \in RowsOf(j, "WHATSAPP")} \ {"QUEUED"} # {"FAILED"}
        /\ Cardinality(unanswered) <= jobs[j].tries
=============================================================================
