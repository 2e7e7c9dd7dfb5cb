-------------------------------- MODULE News --------------------------------
(***************************************************************************)
(* News, src/src/modules/news/news.service.ts: what is published stays     *)
(* active for seven days, until the job queued for it archives it; a       *)
(* restored item gets a job of its own. The delay of a job is not          *)
(* modelled: it may run at any time after it was added.                    *)
(***************************************************************************)
EXTENDS Requests, JobQueue

CONSTANT JainMembers     \* active members of category JAIN

\* The items there are at first have their columns.
NewsRow(n) == /\ {"archived", "deleted"} \subseteq DOMAIN n
              /\ n.archived \in BOOLEAN /\ n.deleted \in BOOLEAN
\* ... and Prisma takes only a body whose values have the types of theirs.
ASSUME NewsAssumption ==
    /\ \A w \in Scenarios : \A n \in DOMAIN w.news : NewsRow(w.news[n])
    /\ \A c \in Calls : Input[c].op = "updateNews" =>
           \A col \in {"archived", "deleted"} \intersect DOMAIN Input[c].body : Input[c].body[col] \in BOOLEAN

VARIABLES news,          \* news items: archived, deleted, author
          newsBookmarks, \* (item, member)
          newsTold,      \* who was notified of which item
          reopened       \* history: items an edit has shown again, since their last restore

newsVars == <<news, newsBookmarks, newsTold, reopened>>

NewsInit(w) == news = w.news /\ newsBookmarks = {} /\ newsTold = {} /\ reopened = {}

ArchiveJob(n) == <<"news", n>>
RestoredJob(n, c) == <<"news", n, c>>
Item(c) == sent[c].item
Known(c) == Item(c) \in DOMAIN news
OnShow(row) == ~row.archived /\ ~row.deleted
Shown(n) == OnShow(news[n])

-----------------------------------------------------------------------------
(* publishNews: the item, then its job, then the notifications *)

PublishNews(c) ==
    /\ Move(c, "start", "clock")
    /\ news' = Put(news, c, [archived |-> FALSE, deleted |-> FALSE, by |-> sent[c].by])
    /\ Forget /\ UNCHANGED <<newsBookmarks, newsTold, reopened, jobs>>

NewsClock(c) ==
    /\ Move(c, "clock", "notify")
    /\ jobs' = Added(ArchiveJob(c))
    /\ Forget /\ UNCHANGED newsVars

NewsNotify(c) ==
    /\ Move(c, "notify", "done")
    /\ newsTold' = newsTold \union ({c} \X JainMembers)
    /\ Forget /\ UNCHANGED <<news, newsBookmarks, reopened, jobs>>

-----------------------------------------------------------------------------
(* restoreNews, updateNews, deleteNews: what was read may be gone by the    *)
(* time it is written, and the write is by id                               *)

Editable(c) == sent[c].super \/ news[Item(c)].by = sent[c].by

NewsRead(c) ==
    /\ Move(c, "start", IF /\ Known(c) /\ ~news[Item(c)].deleted
                           /\ Op(c) = "updateNews" => Editable(c)
                        THEN Op(c) ELSE "refused")
    /\ Forget /\ UNCHANGED <<newsVars, jobs>>

\* The body is not validated: it may hold any column, those of the item's life
\* among them, and adds no job. A field that is no column fails.
NewsColumns == {"archived", "deleted", "by"}

NewsUpdate(c) ==
    LET body == sent[c].body  row == Updated(news[Item(c)], body) IN
    /\ pc[c] = "updateNews"
    /\ \/ /\ DOMAIN body \subseteq NewsColumns
          /\ news' = [news EXCEPT ![Item(c)] = row]
          /\ reopened' = IF ~Shown(Item(c)) /\ OnShow(row) THEN reopened \union {Item(c)} ELSE reopened
          /\ Goto(c, "done")
       \/ /\ ~(DOMAIN body \subseteq NewsColumns)
          /\ Goto(c, "failed")
          /\ UNCHANGED <<news, reopened>>
    /\ Forget /\ UNCHANGED <<newsBookmarks, newsTold, jobs>>

RestoreWrite(c) ==
    /\ Move(c, "restoreNews", "restart")
    /\ news' = [news EXCEPT ![Item(c)].archived = FALSE]
    /\ reopened' = reopened \ {Item(c)}
    /\ Forget /\ UNCHANGED <<newsBookmarks, newsTold, jobs>>

\* Mutation: a restored item asks for the job it had before.
RestoreSameJob(c) ==
    /\ Move(c, "restart", "done")
    /\ jobs' = Added(ArchiveJob(Item(c)))
    /\ Forget /\ UNCHANGED newsVars

RestoreClock(c) ==
    /\ Move(c, "restart", "done")
    /\ jobs' = Added(RestoredJob(Item(c), c))
    /\ Forget /\ UNCHANGED newsVars

DeleteNews(c) ==
    /\ Move(c, "start", IF Known(c) THEN "done" ELSE "failed")
    /\ news' = IF Known(c) THEN [news EXCEPT ![Item(c)].deleted = TRUE] ELSE news
    /\ Forget /\ UNCHANGED <<newsBookmarks, newsTold, reopened, jobs>>

\* bookmarkNews is an upsert, unbookmarkNews a deleteMany.
BookmarkNews(c) ==
    /\ Move(c, "start", IF Known(c) THEN "done" ELSE "failed")
    /\ newsBookmarks' = IF ~Known(c) THEN newsBookmarks
                        ELSE IF sent[c].add THEN newsBookmarks \union {<<Item(c), sent[c].by>>}
                        ELSE newsBookmarks \ {<<Item(c), sent[c].by>>}
    /\ Forget /\ UNCHANGED <<news, newsTold, reopened, jobs>>

-----------------------------------------------------------------------------
(* archiveNews, in the worker *)

NewsJobs == {j \in JobIds : j[1] = "news"}

ArchiveRead(j) ==
    /\ jobs[j].state = "waiting"
    /\ jobs' = IF Shown(j[2]) THEN Taken(j, "archive") ELSE Finished(j)
    /\ UNCHANGED newsVars

ArchiveWrite(j) ==
    /\ Held(j, "archive")
    /\ news' = [news EXCEPT ![j[2]].archived = TRUE]
    /\ jobs' = Finished(j)
    /\ UNCHANGED <<newsBookmarks, newsTold, reopened>>

NewsWork(j) == ArchiveRead(j) \/ ArchiveWrite(j)

NewsStep(c) ==
    \/ Op(c) = "publishNews" /\ (PublishNews(c) \/ NewsClock(c) \/ NewsNotify(c))
    \/ Op(c) = "restoreNews" /\ (NewsRead(c) \/ RestoreWrite(c) \/ RestoreClock(c))
    \/ Op(c) = "updateNews" /\ (NewsRead(c) \/ NewsUpdate(c))
    \/ Op(c) = "deleteNews" /\ DeleteNews(c)
    \/ Op(c) = "bookmarkNews" /\ BookmarkNews(c)

-----------------------------------------------------------------------------
(* Properties *)

\* listActiveNews and myBookmarks.
ActiveNews == {n \in DOMAIN news : Shown(n)}
MyBookmarks(m) == {n \in DOMAIN news : <<n, m>> \in newsBookmarks /\ ~news[n].deleted}

NewsTypeOK ==
    /\ \A n \in DOMAIN news : news[n].archived \in BOOLEAN /\ news[n].deleted \in BOOLEAN
    /\ \A b \in newsBookmarks \union newsTold : b[1] \in DOMAIN news
    /\ \A m \in JainMembers : MyBookmarks(m) \ ActiveNews
                                  \subseteq {n \in DOMAIN news : news[n].archived}

\* The request that shows n died before it had queued the job, or the job failed for good.
ClockLost(n) ==
    \/ \E c \in Come : pc[c] = "dead" /\ (c = n \/ (Op(c) = "restoreNews" /\ Item(c) = n))
    \/ \E j \in NewsJobs : j[2] = n /\ jobs[j].state = "failed"

\* news.service.ts:9-10, 42-43, 64-86: no item stays active for ever, however
\* often it is restored and edited, and however restores meet edits, deletions and the
\* jobs of earlier restores. The one way around the seven days is an edit that puts an
\* item that was not on show there again: it queues no job, and until the
\* next restore nothing archives the item.
NewsIsArchived == []<>(\A n \in ActiveNews : n \in reopened \/ ClockLost(n))
=============================================================================
