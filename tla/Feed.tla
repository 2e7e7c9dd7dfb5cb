-------------------------------- MODULE Feed --------------------------------
(***************************************************************************)
(* The community feed and its polls: src/src/modules/feed and              *)
(* src/src/modules/polls. Likes, views and bookmarks are rows and counters *)
(* in separate statements; an hourly job switches posts on and off by      *)
(* their dates; every member has a ranking of its own.                     *)
(***************************************************************************)
EXTENDS Requests, Days, SequencesExt

CONSTANTS Readers,
          Never        \* no start, no end

\* How near to a member a post may be.
Ties == {"followed", "community", "near", "city", "state", "country", "global", "none"}
PostRow(p) == {"active", "tie"} \subseteq DOMAIN p /\ p.active \in BOOLEAN /\ p.tie \in Ties

\* A new post has an id of its own; the posts there are at first, and the bodies
\* of new ones and of edits, have their columns.
ASSUME FeedAssumption ==
    /\ \A w \in Scenarios :
           /\ DOMAIN w.posts \intersect w.calls = {} /\ IsFiniteSet(DOMAIN w.posts)
           /\ \A p \in DOMAIN w.posts : PostRow(w.posts[p])
    /\ \A c \in Calls : LET i == Input[c] IN
           /\ i.op = "post" => PostRow(i.body)
           /\ i.op = "editPost" =>
                  /\ "active" \in DOMAIN i.body => i.body.active \in BOOLEAN
                  /\ "tie" \in DOMAIN i.body => i.body.tie \in Ties

VARIABLES posts,       \* posts: manual, author, active, gone, starts, ends, tie, pinned
          likes, views, saves,     \* (post, member)
          counts,      \* likeCount, viewCount, bookmarkCount and the others
          polls,       \* polls: post, number of options, ends
          votes,       \* (poll, member) -> option
          refreshAt    \* the statement the hourly job is at

feedVars == <<posts, likes, views, saves, counts, polls, votes, refreshAt>>

NoCounts == [like |-> 0, view |-> 0, bookmark |-> 0, share |-> 0, click |-> 0]

FeedInit(w) ==
    /\ posts = w.posts
    /\ likes = {} /\ views = {} /\ saves = {} /\ votes = <<>>
    /\ counts = [p \in DOMAIN w.posts |-> NoCounts]
    /\ polls = w.polls
    /\ refreshAt = "idle"

ThePost(c) == sent[c].post
PostThere(c) == ThePost(c) \in DOMAIN posts /\ ~posts[ThePost(c)].gone
Pair(c) == <<ThePost(c), sent[c].by>>
Begun(day) == day = Never \/ day <= today
IsOver(day) == day # Never /\ day < today

-----------------------------------------------------------------------------
(* createManualPost, createAutoFeedCard; the routes that edit and delete    *)

CreatePost(c) ==
    /\ Move(c, "start", "done")
    /\ posts' = Put(posts, c, [sent[c].body EXCEPT !.active =
           ~sent[c].body.manual \/ Begun(sent[c].body.starts)])
    /\ counts' = Put(counts, c, NoCounts)
    /\ Forget /\ UNCHANGED <<likes, views, saves, polls, votes, refreshAt>>

\* Cards of other modules are not edited, nor are other authors' posts.
PostRead(c) ==
    LET p == ThePost(c) IN
    /\ Move(c, "start", IF /\ PostThere(c)
                           /\ Op(c) = "editPost" => posts[p].manual
                           /\ Op(c) = "editPost" => sent[c].super \/ posts[p].author = sent[c].by
                        THEN Op(c) ELSE "refused")
    /\ Forget /\ UNCHANGED feedVars

PostEdit(c) ==
    LET body == sent[c].body  edited == Updated(posts[ThePost(c)], body) IN
    /\ Move(c, "editPost", "done")
    /\ posts' = [posts EXCEPT ![ThePost(c)] =
           [edited EXCEPT !.active = IF "starts" \in DOMAIN body THEN Begun(body.starts) ELSE @]]
    /\ Forget /\ UNCHANGED <<likes, views, saves, counts, polls, votes, refreshAt>>

PostDelete(c) ==
    /\ Move(c, "deletePost", "done")
    /\ posts' = [posts EXCEPT ![ThePost(c)].gone = TRUE, ![ThePost(c)].active = FALSE]
    /\ Forget /\ UNCHANGED <<likes, views, saves, counts, polls, votes, refreshAt>>

-----------------------------------------------------------------------------
(* toggle-like, view, bookmark, share and click: the row first, if any, and *)
(* the counter in a statement of its own, which increments in the database  *)

Count(c, field, n) ==
    /\ Move(c, "count", "done")
    /\ counts' = [counts EXCEPT ![ThePost(c)][field] = @ + n]
    /\ Forget /\ UNCHANGED <<posts, likes, views, saves, polls, votes, refreshAt>>

LikeRead(c) ==
    /\ ThePost(c) \in DOMAIN posts
    /\ Move(c, "start", IF Pair(c) \in likes THEN "unlike" ELSE "like")
    /\ Keep(c, [n |-> IF Pair(c) \in likes THEN -1 ELSE 1])
    /\ UNCHANGED feedVars

\* Mutation: the like is an upsert.
LikeUpsert(c) ==
    /\ Move(c, "like", "count")
    /\ likes' = likes \union {Pair(c)}
    /\ Forget /\ UNCHANGED <<posts, views, saves, counts, polls, votes, refreshAt>>

\* The unique pair refuses a second like; the handler answers what it finds.
LikeCreate(c) ==
    /\ Move(c, "like", IF Pair(c) \in likes THEN "done" ELSE "count")
    /\ likes' = likes \union {Pair(c)}
    /\ Forget /\ UNCHANGED <<posts, views, saves, counts, polls, votes, refreshAt>>

LikeDelete(c) ==
    /\ Move(c, "unlike", IF Pair(c) \in likes THEN "count" ELSE "done")
    /\ likes' = likes \ {Pair(c)}
    /\ Forget /\ UNCHANGED <<posts, views, saves, counts, polls, votes, refreshAt>>

ViewRead(c) ==
    /\ ThePost(c) \in DOMAIN posts
    /\ Move(c, "start", IF Pair(c) \in views THEN "done" ELSE "see")
    /\ Forget /\ UNCHANGED feedVars

ViewCreate(c) ==
    /\ Move(c, "see", IF Pair(c) \in views THEN "failed" ELSE "count")
    /\ views' = views \union {Pair(c)}
    /\ Forget /\ UNCHANGED <<posts, likes, saves, counts, polls, votes, refreshAt>>

\* An upsert, or a delete whose failure is swallowed: the counter moves anyway.
BookmarkWrite(c) ==
    /\ ThePost(c) \in DOMAIN posts
    /\ Move(c, "start", "count")
    /\ saves' = IF sent[c].add THEN saves \union {Pair(c)} ELSE saves \ {Pair(c)}
    /\ Forget /\ UNCHANGED <<posts, likes, views, counts, polls, votes, refreshAt>>

ShareOrClick(c) ==
    /\ ThePost(c) \in DOMAIN posts
    /\ Move(c, "start", "count")
    /\ Forget /\ UNCHANGED feedVars

-----------------------------------------------------------------------------
(* Polls: created on a post, voted on, edited, closed, deleted with their   *)
(* post. The vote route of the feed does not look at the options.           *)

PollWrite(c) ==
    LET p == sent[c].poll IN
    /\ pc[c] = "start"
    /\ \/ /\ Op(c) = "createPoll"
          /\ polls' = Put(polls, c, [post |-> ThePost(c), options |-> sent[c].options, ends |-> Never])
          /\ UNCHANGED posts
       \/ /\ Op(c) = "editPoll" /\ p \in DOMAIN polls
          /\ polls' = [polls EXCEPT ![p].options = sent[c].options]
          /\ UNCHANGED posts
       \/ /\ Op(c) = "closePoll" /\ p \in DOMAIN polls
          /\ polls' = [polls EXCEPT ![p].ends = today - 1]   \* endsAt = now: over from here on
          /\ UNCHANGED posts
       \/ /\ Op(c) = "deletePoll" /\ p \in DOMAIN polls
          /\ posts' = [posts EXCEPT ![polls[p].post].gone = TRUE]
          /\ UNCHANGED polls
    /\ Goto(c, "done")
    /\ Forget /\ UNCHANGED <<likes, views, saves, counts, votes, refreshAt>>

VoteRead(c) ==
    LET p == sent[c].poll IN
    /\ Move(c, "start", IF /\ p \in DOMAIN polls /\ ~IsOver(polls[p].ends)
                           /\ sent[c].inFeed \/ sent[c].option < polls[p].options
                        THEN "vote" ELSE "refused")
    /\ Forget /\ UNCHANGED feedVars

VoteWrite(c) ==
    /\ Move(c, "vote", "done")
    /\ votes' = Put(votes, <<sent[c].poll, sent[c].by>>, sent[c].option)
    /\ Forget /\ UNCHANGED <<posts, likes, views, saves, counts, polls, refreshAt>>

FeedStep(c) ==
    \/ Op(c) = "post" /\ CreatePost(c)
    \/ Op(c) = "editPost" /\ (PostRead(c) \/ PostEdit(c))
    \/ Op(c) = "deletePost" /\ (PostRead(c) \/ PostDelete(c))
    \/ Op(c) = "like" /\ \/ LikeRead(c) \/ LikeCreate(c) \/ LikeDelete(c)
                         \/ pc[c] = "count" /\ Count(c, "like", saw[c].n)
    \/ Op(c) = "view" /\ (ViewRead(c) \/ ViewCreate(c) \/ Count(c, "view", 1))
    \/ Op(c) = "bookmark" /\ (BookmarkWrite(c) \/ Count(c, "bookmark", IF sent[c].add THEN 1 ELSE -1))
    \/ Op(c) \in {"share", "click"} /\ (ShareOrClick(c) \/ Count(c, Op(c), 1))
    \/ Op(c) \in {"createPoll", "editPoll", "closePoll", "deletePoll"} /\ PollWrite(c)
    \/ Op(c) = "vote" /\ (VoteRead(c) \/ VoteWrite(c))

-----------------------------------------------------------------------------
(* refreshPostActivations, of the hourly job: two statements                *)

ToShow == {p \in DOMAIN posts : /\ posts[p].starts # Never /\ Begun(posts[p].starts)
                                /\ ~posts[p].active /\ ~posts[p].gone /\ ~IsOver(posts[p].ends)}
ToHide == {p \in DOMAIN posts : IsOver(posts[p].ends) /\ posts[p].active}
Switch(which, on) == [p \in DOMAIN posts |->
    IF p \in which THEN [posts[p] EXCEPT !.active = on] ELSE posts[p]]

RefreshOn ==
    /\ refreshAt = "idle" /\ ToShow \union ToHide # {} /\ refreshAt' = "hide"
    /\ posts' = Switch(ToShow, TRUE)
    /\ UNCHANGED <<likes, views, saves, counts, polls, votes>>

\* Mutation: the second statement asks for posts that are not active.
HideNothing ==
    /\ refreshAt = "hide" /\ refreshAt' = "idle"
    /\ UNCHANGED <<posts, likes, views, saves, counts, polls, votes>>

RefreshOff ==
    /\ refreshAt = "hide" /\ refreshAt' = "idle"
    /\ posts' = Switch(ToHide, FALSE)
    /\ UNCHANGED <<likes, views, saves, counts, polls, votes>>

FeedRefresh == RefreshOn \/ RefreshOff

-----------------------------------------------------------------------------
(* The feed of a member: computeFeedPriorityRank, rankPost, getSmartFeed    *)

Unranked == 99999
FeedPriority(tie) == CASE tie = "followed" -> 0 [] tie = "community" -> 1000
                       [] tie = "near" -> 2001 [] tie = "city" -> 2004
                       [] tie = "state" -> 2006 [] tie = "country" -> 2007
                       [] tie = "global" -> 9000 [] tie = "none" -> Unranked

RankPost(p, m) == IF posts[p].pinned THEN -1000
                  ELSE FeedPriority(posts[p].tie) + (IF <<p, m>> \in views THEN 50000 ELSE 0)

\* Saved posts are taken as they are, whether or not they are still there.
Candidates(m, savedOnly) ==
    IF savedOnly THEN {p \in DOMAIN posts : <<p, m>> \in saves}
    ELSE {p \in DOMAIN posts : posts[p].active /\ ~posts[p].gone}

SmartFeed(m, savedOnly) ==
    LET shown == {p \in Candidates(m, savedOnly) : RankPost(p, m) < Unranked} IN
    CHOOSE feed \in [1 .. Cardinality(shown) -> shown] :
        /\ ToSet(feed) = shown
        /\ \A i, j \in DOMAIN feed : i < j => RankPost(feed[i], m) <= RankPost(feed[j], m)

-----------------------------------------------------------------------------
(* Properties *)

FeedTypeOK ==
    /\ \A p \in DOMAIN posts : posts[p].active \in BOOLEAN /\ counts[p].view \in Nat
    /\ \A v \in DOMAIN votes : v[1] \in DOMAIN polls
    /\ \A m \in Readers : LET feed == SmartFeed(m, FALSE) IN
           \A i, j \in DOMAIN feed : i < j => RankPost(feed[i], m) <= RankPost(feed[j], m)

Rows(rows, p) == Cardinality({r \in rows : r[1] = p})

\* feed.routes.ts:207-239, 311-351: taps of any number of members and devices
\* leave as many likes and views counted as there are rows, once all are
\* answered; only a request that died in between may leave its own out.
LikesAreCounted ==
    Open = {} /\ ~Died =>
        \A p \in DOMAIN posts : counts[p].like = Rows(likes, p) /\ counts[p].view = Rows(views, p)

\* feed.service.ts:61-66: a post is shown from its start and hidden after its
\* end, whatever an edit of the dates or the deletion of a post meets.
PostsFollowTheirDates ==
    []<>(\A p \in DOMAIN posts :
            /\ IsOver(posts[p].ends) => ~posts[p].active
            /\ posts[p].starts # Never /\ Begun(posts[p].starts) /\ ~IsOver(posts[p].ends)
                   /\ ~posts[p].gone => posts[p].active)
=============================================================================
