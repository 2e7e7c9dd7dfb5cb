--------------------------- MODULE CommunityProofs ---------------------------
(***************************************************************************)
(* Proofs about Community, for every set of members, posts, messages, calls *)
(* and scenarios: the counters of the feed, the log of the messages, and    *)
(* the types of every part: rows refer to what is there, reminders go out  *)
(* no more often than their job is tried, the feed is in order.            *)
(***************************************************************************)
EXTENDS Community, SumProofs, FiniteSetTheorems, TLAPS

NewsOps == {"publishNews", "restoreNews", "updateNews", "deleteNews", "bookmarkNews"}
MailOps == {"notify", "broadcast", "preference", "opened"}
PageOps == {"createPage", "adminPage", "updatePage", "decide", "remove", "pagePost", "join", "leave"}
OfferOps == {"createOffer", "updateOffer", "saveOffer", "trackOffer"}
FeedOps == {"post", "editPost", "deletePost", "like", "view", "bookmark", "share", "click",
            "createPoll", "editPoll", "closePoll", "deletePoll", "vote"}

\* The requests that come keep what they were sent with.
RequestInv ==
    /\ Come \subseteq Calls /\ sent = [c \in Come |-> Input[c]]
    /\ pc = [c \in Come |-> pc[c]] /\ saw = [c \in Come |-> saw[c]]

\* One request goes on, and no other is touched.
Goes(c) ==
    /\ UNCHANGED sent
    /\ \E l : pc' = [pc EXCEPT ![c] = l]
    /\ UNCHANGED saw \/ \E v : saw' = [saw EXCEPT ![c] = v]

\* What a step of another service is to the requests of these operations: they
\* stay where they are, or the process of one of them dies.
Apart(ops) ==
    /\ \A d \in Come : Op(d) \in ops =>
           /\ saw'[d] = saw[d]
           /\ \/ pc'[d] = pc[d]
              \/ pc'[d] = "dead" /\ pc[d] \notin Ended \union {"start"}
    /\ Died => Died'

-----------------------------------------------------------------------------
(* Requests *)

LEMMA NewsGoes ==
  ASSUME NEW c, NewsStep(c)
  PROVE  Goes(c) /\ Op(c) \in NewsOps
  <1> USE DEF Goes, Goto, Move, Keep, Forget, NewsOps
  <1>1. QED
    BY DEF NewsStep, PublishNews, NewsClock, NewsNotify, NewsRead, RestoreWrite, RestoreClock,
           NewsUpdate, DeleteNews, BookmarkNews

LEMMA MailGoes ==
  ASSUME NEW c, MailStep(c)
  PROVE  Goes(c) /\ Op(c) \in MailOps
  <1> USE DEF Goes, Goto, Move, Keep, Forget, MailOps
  <1>1. QED
    BY DEF MailStep, Enqueue, PutPreference, OpenRead, OpenWrite

LEMMA PageGoes ==
  ASSUME NEW c, PageStep(c)
  PROVE  Goes(c) /\ Op(c) \in PageOps
  <1> USE DEF Goes, Goto, Move, Keep, Forget, PageOps
  <1>1. CASE Op(c) = "createPage" /\ CreatePage(c)
    BY <1>1 DEF CreatePage
  <1>2. CASE Op(c) = "adminPage" /\ AdminUpdatePage(c)
    BY <1>2 DEF AdminUpdatePage
  <1>3. CASE /\ Op(c) \in {"updatePage", "decide", "remove", "pagePost"}
             /\ AssertOwnerCanManage(c) \/ Manage(c) \/ TellMembers(c)
    BY <1>3 DEF AssertOwnerCanManage, Manage, TellMembers
  <1>4. CASE Op(c) = "join" /\ (JoinRead(c) \/ JoinWrite(c) \/ JoinTell(c))
    BY <1>4 DEF JoinRead, JoinWrite, JoinTell
  <1>5. CASE Op(c) = "leave" /\ (JoinRead(c) \/ LeaveWrite(c))
    BY <1>5 DEF JoinRead, LeaveWrite
  <1>6. QED
    BY <1>1, <1>2, <1>3, <1>4, <1>5 DEF PageStep

LEMMA OfferGoes ==
  ASSUME NEW c, OfferStep(c)
  PROVE  Goes(c) /\ Op(c) \in OfferOps
  <1> USE DEF Goes, Goto, Move, Keep, Forget, OfferOps
  <1>1. QED
    BY DEF OfferStep, CreateOffer, ScheduleReminder, OfferCard, UpdateOffer, SaveOffer, TrackOffer

LEMMA FeedGoes ==
  ASSUME NEW c, FeedStep(c)
  PROVE  Goes(c) /\ Op(c) \in FeedOps
  <1>1. Op(c) \in FeedOps
    BY DEF FeedStep, FeedOps
  <1> USE DEF Goes, Goto, Move, Keep, Forget
  <1>2. CASE CreatePost(c) \/ PostRead(c) \/ PostEdit(c) \/ PostDelete(c)
    BY <1>1, <1>2 DEF CreatePost, PostRead, PostEdit, PostDelete
  <1>3. CASE LikeRead(c) \/ LikeCreate(c) \/ LikeDelete(c) \/ ViewRead(c) \/ ViewCreate(c)
    BY <1>1, <1>3 DEF LikeRead, LikeCreate, LikeDelete, ViewRead, ViewCreate
  <1>4. CASE BookmarkWrite(c) \/ ShareOrClick(c) \/ \E field, n : Count(c, field, n)
    BY <1>1, <1>4 DEF BookmarkWrite, ShareOrClick, Count
  <1>5. CASE PollWrite(c) \/ VoteRead(c) \/ VoteWrite(c)
    BY <1>1, <1>5 DEF PollWrite, VoteRead, VoteWrite
  <1>6. QED
    BY <1>2, <1>3, <1>4, <1>5 DEF FeedStep

\* The operations of the services are disjoint.
LEMMA OpsApart ==
  /\ MailOps \intersect (NewsOps \union PageOps \union OfferOps \union FeedOps) = {}
  /\ FeedOps \intersect (NewsOps \union PageOps \union OfferOps) = {}
  BY DEF NewsOps, MailOps, PageOps, OfferOps, FeedOps

\* Who has died stays dead, whoever goes on.
LEMMA DeadStay ==
  ASSUME RequestInv, NEW c \in Come, Goes(c), pc[c] # "dead", Died
  PROVE  Died'
  <1>1. PICK d \in Come : pc[d] = "dead"
    BY DEF Died
  <1>2. Come' = Come /\ pc'[d] = "dead"
    BY <1>1 DEF RequestInv, Goes, Come
  <1>3. QED
    BY <1>2 DEF Died

\* A request that goes on is no event for the operations it is not of.
LEMMA GoesApart ==
  ASSUME RequestInv, NEW c \in Come, Goes(c), pc[c] # "dead", NEW ops, Op(c) \notin ops
  PROVE  Apart(ops)
  <1> SUFFICES ASSUME NEW d \in Come, Op(d) \in ops
               PROVE  saw'[d] = saw[d] /\ pc'[d] = pc[d]
    BY DeadStay DEF Apart
  <1>1. d # c
    OBVIOUS
  <1>2. pc'[d] = pc[d]
    BY <1>1 DEF RequestInv, Goes, Come
  <1>3. saw'[d] = saw[d]
    BY <1>1 DEF RequestInv, Goes, Come
  <1>4. QED
    BY <1>2, <1>3

LEMMA ComeFinite ==
  ASSUME RequestInv
  PROVE  IsFiniteSet(Come)
  <1>1. Come \in SUBSET Calls
    BY DEF RequestInv
  <1>2. IsFiniteSet(Calls)
    BY RequestAssumption
  <1>3. QED
    BY <1>1, <1>2, FS_Subset

LEMMA DeathApart ==
  ASSUME RequestInv, NEW c \in Come, Die(c), NEW ops
  PROVE  Apart(ops) /\ Died'
  <1>1. saw' = saw /\ pc' = [pc EXCEPT ![c] = "dead"] /\ pc[c] \notin Ended \union {"start"}
    BY DEF Die, Goto, Forget
  <1>2. Come' = Come /\ \A d \in Come : pc'[d] = IF d = c THEN "dead" ELSE pc[d]
    BY <1>1 DEF RequestInv, Come
  <1>3. Died'
    BY <1>2 DEF Died
  <1>4. QED
    BY <1>1, <1>2, <1>3 DEF Apart

LEMMA RequestStep ==
  ASSUME RequestInv, [Next]_vars
  PROVE  RequestInv' /\ Come' = Come /\ UNCHANGED sent
  <1>1. ASSUME NEW c \in Come, Goes(c)
        PROVE  RequestInv' /\ Come' = Come /\ UNCHANGED sent
    BY <1>1 DEF RequestInv, Goes, Come
  <1>2. ASSUME NEW c \in Come, Die(c)
        PROVE  RequestInv' /\ Come' = Come /\ UNCHANGED sent
    BY <1>2 DEF RequestInv, Die, Goto, Forget, Come
  <1>3. ASSUME UNCHANGED request
        PROVE  RequestInv' /\ Come' = Come /\ UNCHANGED sent
    BY <1>3 DEF RequestInv, request, Come
  <1>4. CASE CallStep
    BY <1>1, <1>4, NewsGoes, MailGoes, PageGoes, OfferGoes, FeedGoes DEF CallStep, Busy
  <1>5. QED
    BY <1>2, <1>3, <1>4 DEF Next, WorkerStep, Elsewhere, vars

\* How a request moves the others: not at all.
LEMMA OnlyGoes ==
  ASSUME RequestInv, NEW c \in Come, NEW l, Goto(c, l)
  PROVE  /\ Come' = Come /\ UNCHANGED sent /\ pc'[c] = l
         /\ \A d \in Come : Op(d)' = Op(d) /\ (d # c => pc'[d] = pc[d])
  BY DEF RequestInv, Goto, Come, Op

-----------------------------------------------------------------------------
(* The feed: likes and views *)

Tally == [like : Int, view : Nat, bookmark : Int, share : Int, click : Int]

FeedTypes ==
    /\ counts \in [DOMAIN posts -> Tally]
    /\ IsFiniteSet(likes) /\ \A r \in likes : r[1] \in DOMAIN posts
    /\ IsFiniteSet(views) /\ \A r \in views : r[1] \in DOMAIN posts

\* A post still to be created has no row.
NewPosts == \A c \in Come : Op(c) = "post" /\ pc[c] = "start" => c \notin DOMAIN posts

\* Who taps has seen the post, and counts what it writes.
TapsAPost ==
    \A c \in Come : Op(c) \in {"like", "view"} /\ pc[c] \in {"like", "unlike", "see", "count"} =>
        /\ ThePost(c) \in DOMAIN posts
        /\ Op(c) = "like" /\ pc[c] = "like" => saw[c].n = 1
        /\ Op(c) = "like" /\ pc[c] = "unlike" => saw[c].n = -1
        /\ Op(c) = "like" /\ pc[c] = "count" => saw[c].n \in {1, -1}

\* Requests that have written or deleted their row and not counted it yet.
Adding(p) == {c \in Come : Op(c) = "like" /\ pc[c] = "count" /\ saw[c].n = 1 /\ ThePost(c) = p}
Taking(p) == {c \in Come : Op(c) = "like" /\ pc[c] = "count" /\ saw[c].n = -1 /\ ThePost(c) = p}
Seeing(p) == {c \in Come : Op(c) = "view" /\ pc[c] = "count" /\ ThePost(c) = p}

LikesOf(p) == counts[p].like + Cardinality(Adding(p)) - Cardinality(Taking(p)) = Rows(likes, p)
ViewsOf(p) == counts[p].view + Cardinality(Seeing(p)) = Rows(views, p)

FeedInv ==
    /\ FeedTypes /\ NewPosts /\ TapsAPost
    /\ ~Died => \A p \in DOMAIN posts : LikesOf(p) /\ ViewsOf(p)

\* What the likes and views do not notice.
Unnoticed ==
    /\ \A d \in Come :
           /\ Op(d) \in {"like", "view"} =>
                  saw'[d] = saw[d] /\ (pc'[d] = pc[d] \/ pc'[d] = "dead")
           /\ Op(d) = "post" /\ pc'[d] = "start" => pc[d] = "start"
    /\ Died => Died'

LEMMA InitFeed ==
  ASSUME NEW w \in Scenarios, RequestsInit(w), FeedInit(w)
  PROVE  FeedInv
  <1>1. Come = w.calls /\ \A c \in Come : pc[c] = "start" /\ c \notin DOMAIN posts
    BY FeedAssumption DEF RequestsInit, FeedInit, Come
  <1>2. NoCounts \in Tally
    BY DEF NoCounts, Tally
  <1>3. FeedTypes
    BY <1>2, FS_EmptySet DEF FeedTypes, FeedInit
  <1>4. NewPosts /\ TapsAPost
    BY <1>1 DEF NewPosts, TapsAPost
  <1>5. ASSUME NEW p \in DOMAIN posts
        PROVE  LikesOf(p) /\ ViewsOf(p)
    <2>1. Adding(p) = {} /\ Taking(p) = {} /\ Seeing(p) = {}
      BY <1>1 DEF Adding, Taking, Seeing
    <2>2. {r \in likes : r[1] = p} = {} /\ {r \in views : r[1] = p} = {}
      BY DEF FeedInit
    <2>3. counts[p].like = 0 /\ counts[p].view = 0
      BY DEF FeedInit, NoCounts
    <2>4. /\ Cardinality(Adding(p)) = 0 /\ Cardinality(Taking(p)) = 0
          /\ Cardinality(Seeing(p)) = 0
      BY <2>1, FS_EmptySet
    <2>5. Rows(likes, p) = 0 /\ Rows(views, p) = 0
      BY <2>2, FS_EmptySet DEF Rows
    <2>6. QED
      BY <2>3, <2>4, <2>5 DEF LikesOf, ViewsOf
  <1>6. QED
    BY <1>3, <1>4, <1>5 DEF FeedInv

\* What likes and views do not notice leaves them counted.
LEMMA FeedStays ==
  ASSUME RequestInv, FeedInv, Unnoticed, Come' = Come, UNCHANGED <<sent, likes, views>>,
         DOMAIN posts' = DOMAIN posts, counts' \in [DOMAIN posts -> Tally],
         \A p \in DOMAIN posts : counts'[p].like = counts[p].like /\ counts'[p].view = counts[p].view
  PROVE  FeedInv'
  <1>1. \A d \in Come : Op(d)' = Op(d) /\ ThePost(d)' = ThePost(d)
    BY DEF Op, ThePost
  <1>2. FeedTypes'
    BY DEF FeedInv, FeedTypes
  <1>3. NewPosts'
    BY <1>1 DEF FeedInv, NewPosts, Unnoticed
  <1>4. TapsAPost'
    BY <1>1 DEF FeedInv, TapsAPost, Unnoticed
  <1>5. ASSUME ~Died', NEW p \in DOMAIN posts
        PROVE  LikesOf(p)' /\ ViewsOf(p)'
    <2>1. ~Died
      BY <1>5 DEF Unnoticed
    <2>2. \A d \in Come : Op(d) \in {"like", "view"} => saw'[d] = saw[d] /\ pc'[d] = pc[d]
      BY <1>5 DEF Died, Unnoticed
    <2>3. Adding(p)' = Adding(p) /\ Taking(p)' = Taking(p) /\ Seeing(p)' = Seeing(p)
      BY <1>1, <2>2 DEF Adding, Taking, Seeing
    <2>4. LikesOf(p) /\ ViewsOf(p)
      BY <1>5, <2>1 DEF FeedInv
    <2>5. QED
      BY <2>3, <2>4 DEF LikesOf, ViewsOf, Rows
  <1>6. QED
    BY <1>2, <1>3, <1>4, <1>5 DEF FeedInv

LEMMA FeedUntouched ==
  ASSUME RequestInv, FeedInv, UNCHANGED feedVars, Apart(FeedOps), Come' = Come, UNCHANGED sent
  PROVE  FeedInv'
  <1>1. Unnoticed
    BY DEF Apart, Unnoticed, FeedOps
  <1>2. /\ UNCHANGED <<posts, likes, views, counts>>
        /\ counts \in [DOMAIN posts -> Tally]
    BY DEF feedVars, FeedInv, FeedTypes
  <1>3. QED
    BY <1>1, <1>2, FeedStays

\* A table of (post, member) with one row more, and with one row less.
LEMMA RowAdded ==
  ASSUME NEW rows, IsFiniteSet(rows), NEW r, r \notin rows, NEW p
  PROVE  Rows(rows \union {r}, p) = IF r[1] = p THEN Rows(rows, p) + 1 ELSE Rows(rows, p)
  <1> DEFINE old == {x \in rows : x[1] = p}
             new == {x \in rows \union {r} : x[1] = p}
  <1>1. IsFiniteSet(old)
    BY FS_Subset
  <1>2. CASE r[1] = p
    <2>1. new = old \union {r} /\ r \notin old
      BY <1>2
    <2> HIDE DEF old, new
    <2>2. Cardinality(new) = Cardinality(old) + 1
      BY <1>1, <2>1, FS_AddElement
    <2> USE DEF old, new
    <2>3. QED
      BY <1>2, <2>2 DEF Rows
  <1>3. CASE r[1] # p
    <2>1. new = old
      BY <1>3
    <2>2. QED
      BY <1>3, <2>1 DEF Rows
  <1>4. QED
    BY <1>2, <1>3

LEMMA RowRemoved ==
  ASSUME NEW rows, IsFiniteSet(rows), NEW r \in rows, NEW p
  PROVE  Rows(rows \ {r}, p) = IF r[1] = p THEN Rows(rows, p) - 1 ELSE Rows(rows, p)
  <1> DEFINE old == {x \in rows : x[1] = p}
             new == {x \in rows \ {r} : x[1] = p}
  <1>1. IsFiniteSet(old)
    BY FS_Subset
  <1>2. CASE r[1] = p
    <2>1. new = old \ {r} /\ r \in old
      BY <1>2
    <2> HIDE DEF old, new
    <2>2. Cardinality(new) = Cardinality(old) - 1
      BY <1>1, <2>1, FS_RemoveElement
    <2> USE DEF old, new
    <2>3. QED
      BY <1>2, <2>2 DEF Rows
  <1>3. CASE r[1] # p
    <2>1. new = old
      BY <1>3
    <2>2. QED
      BY <1>3, <2>1 DEF Rows
  <1>4. QED
    BY <1>2, <1>3

\* What is counted is a number.
LEMMA TapTypes ==
  ASSUME RequestInv, FeedInv, NEW p \in DOMAIN posts
  PROVE  /\ counts[p].like \in Int /\ counts[p].view \in Nat
         /\ IsFiniteSet(Adding(p)) /\ IsFiniteSet(Taking(p)) /\ IsFiniteSet(Seeing(p))
         /\ Cardinality(Adding(p)) \in Nat /\ Cardinality(Taking(p)) \in Nat
         /\ Cardinality(Seeing(p)) \in Nat
         /\ Rows(likes, p) \in Nat /\ Rows(views, p) \in Nat
  <1>1. counts[p] \in Tally
    BY DEF FeedInv, FeedTypes
  <1>2. /\ Adding(p) \in SUBSET Come /\ Taking(p) \in SUBSET Come /\ Seeing(p) \in SUBSET Come
        /\ IsFiniteSet(Come)
    BY ComeFinite DEF Adding, Taking, Seeing
  <1>3. IsFiniteSet(Adding(p)) /\ IsFiniteSet(Taking(p)) /\ IsFiniteSet(Seeing(p))
    BY <1>2, FS_Subset
  <1>4. /\ IsFiniteSet(likes) /\ {r \in likes : r[1] = p} \in SUBSET likes
        /\ IsFiniteSet(views) /\ {r \in views : r[1] = p} \in SUBSET views
    BY DEF FeedInv, FeedTypes
  <1>5. Rows(likes, p) \in Nat /\ Rows(views, p) \in Nat
    BY <1>4, FS_Subset, FS_CardinalityType DEF Rows
  <1>6. QED
    BY <1>1, <1>3, <1>5, FS_CardinalityType DEF Tally

\* How a tap that goes on changes the requests that have not counted yet.
LEMMA TapGoes ==
  ASSUME RequestInv, FeedInv, NEW c \in Come, Op(c) \in {"like", "view"}, pc[c] # "dead",
         NEW l \in {"like", "unlike", "see", "count", "done", "failed"}, Goto(c, l),
         \A d \in Come : d # c => saw'[d] = saw[d],
         UNCHANGED posts, NEW p
  PROVE  /\ Come' = Come /\ pc'[c] = l /\ Died' = Died /\ NewPosts'
         /\ Adding(p)' = (Adding(p) \ {c}) \union
                (IF Op(c) = "like" /\ pc'[c] = "count" /\ saw'[c].n = 1 /\ ThePost(c) = p THEN {c} ELSE {})
         /\ Taking(p)' = (Taking(p) \ {c}) \union
                (IF Op(c) = "like" /\ pc'[c] = "count" /\ saw'[c].n = -1 /\ ThePost(c) = p THEN {c} ELSE {})
         /\ Seeing(p)' = (Seeing(p) \ {c}) \union
                (IF Op(c) = "view" /\ pc'[c] = "count" /\ ThePost(c) = p THEN {c} ELSE {})
  <1>1. /\ Come' = Come /\ UNCHANGED sent /\ pc'[c] = l
        /\ \A d \in Come : Op(d)' = Op(d) /\ ThePost(d)' = ThePost(d) /\ (d # c => pc'[d] = pc[d])
    BY OnlyGoes DEF Op, ThePost
  <1>2. Died' = Died
    BY <1>1 DEF Died
  <1>3. NewPosts'
    BY <1>1 DEF FeedInv, NewPosts
  <1>4. Adding(p)' = (Adding(p) \ {c}) \union
            (IF Op(c) = "like" /\ pc'[c] = "count" /\ saw'[c].n = 1 /\ ThePost(c) = p THEN {c} ELSE {})
    BY <1>1 DEF Adding
  <1>5. Taking(p)' = (Taking(p) \ {c}) \union
            (IF Op(c) = "like" /\ pc'[c] = "count" /\ saw'[c].n = -1 /\ ThePost(c) = p THEN {c} ELSE {})
    BY <1>1 DEF Taking
  <1>6. Seeing(p)' = (Seeing(p) \ {c}) \union
            (IF Op(c) = "view" /\ pc'[c] = "count" /\ ThePost(c) = p THEN {c} ELSE {})
    BY <1>1 DEF Seeing
  <1>7. QED
    BY <1>1, <1>2, <1>3, <1>4, <1>5, <1>6

\* A tap that reads, or finds nothing to write, counts nothing.
LEMMA TapReads ==
  ASSUME RequestInv, FeedInv, NEW c \in Come, Op(c) \in {"like", "view"},
         pc[c] \in {"start", "like", "unlike", "see"},
         NEW l \in {"like", "unlike", "see", "done", "failed"}, Goto(c, l),
         \A d \in Come : d # c => saw'[d] = saw[d],
         l \in {"like", "unlike", "see"} => ThePost(c) \in DOMAIN posts,
         l = "like" => saw'[c].n = 1,
         l = "unlike" => saw'[c].n = -1,
         UNCHANGED <<posts, likes, views, counts>>
  PROVE  FeedInv'
  <1>1. /\ Come' = Come /\ UNCHANGED sent /\ pc'[c] = l
        /\ \A d \in Come : Op(d)' = Op(d) /\ ThePost(d)' = ThePost(d) /\ (d # c => pc'[d] = pc[d])
    BY OnlyGoes DEF Op, ThePost
  <1>2. Died' = Died /\ NewPosts'
    BY TapGoes
  <1>3. FeedTypes'
    BY DEF FeedInv, FeedTypes
  <1>4. TapsAPost'
    BY <1>1 DEF FeedInv, TapsAPost
  <1>5. ASSUME NEW p
        PROVE  Adding(p)' = Adding(p) /\ Taking(p)' = Taking(p) /\ Seeing(p)' = Seeing(p)
    <2>1. c \notin Adding(p) /\ c \notin Taking(p) /\ c \notin Seeing(p)
      BY DEF Adding, Taking, Seeing
    <2>2. QED
      BY <2>1, TapGoes
  <1>6. QED
    BY <1>2, <1>3, <1>4, <1>5 DEF FeedInv, LikesOf, ViewsOf, Rows

\* A row and its request that has not counted it yet come together.
LEMMA LikeWritten ==
  ASSUME RequestInv, FeedInv, NEW c \in Come, Op(c) = "like", pc[c] = "like",
         Goto(c, "count"), UNCHANGED <<saw, posts, views, counts>>,
         Pair(c) \notin likes, likes' = likes \union {Pair(c)}
  PROVE  FeedInv'
  <1>1. /\ Come' = Come /\ UNCHANGED sent /\ pc'[c] = "count"
        /\ \A d \in Come : Op(d)' = Op(d) /\ ThePost(d)' = ThePost(d) /\ (d # c => pc'[d] = pc[d])
    BY OnlyGoes DEF Op, ThePost
  <1>2. Died' = Died /\ NewPosts'
    BY TapGoes
  <1>3. ThePost(c) \in DOMAIN posts /\ saw[c].n = 1 /\ Pair(c)[1] = ThePost(c)
    BY DEF FeedInv, TapsAPost, Pair
  <1>4. FeedTypes'
    <2>1. IsFiniteSet(likes) /\ IsFiniteSet(likes \union {Pair(c)})
      BY FS_AddElement DEF FeedInv, FeedTypes
    <2>2. QED
      BY <1>3, <2>1 DEF FeedInv, FeedTypes
  <1>5. TapsAPost'
    BY <1>1, <1>3 DEF FeedInv, TapsAPost
  <1>6. ASSUME ~Died, NEW p \in DOMAIN posts
        PROVE  LikesOf(p)' /\ ViewsOf(p)'
    <2>1. c \notin Adding(p) /\ c \notin Taking(p) /\ c \notin Seeing(p)
      BY DEF Adding, Taking, Seeing
    <2>2. /\ Adding(p)' = Adding(p) \union (IF ThePost(c) = p THEN {c} ELSE {})
          /\ Taking(p)' = Taking(p) /\ Seeing(p)' = Seeing(p)
      <3>1. /\ Adding(p)' = (Adding(p) \ {c}) \union
                (IF Op(c) = "like" /\ pc'[c] = "count" /\ saw'[c].n = 1 /\ ThePost(c) = p THEN {c} ELSE {})
            /\ Taking(p)' = (Taking(p) \ {c}) \union
                (IF Op(c) = "like" /\ pc'[c] = "count" /\ saw'[c].n = -1 /\ ThePost(c) = p THEN {c} ELSE {})
            /\ Seeing(p)' = (Seeing(p) \ {c}) \union
                (IF Op(c) = "view" /\ pc'[c] = "count" /\ ThePost(c) = p THEN {c} ELSE {})
        BY TapGoes
      <3>2. pc'[c] = "count" /\ saw'[c].n = 1 /\ 1 # -1
        BY <1>1, <1>3
      <3>3. QED
        BY <2>1, <3>1, <3>2
    <2>3. Cardinality(Adding(p)') = IF ThePost(c) = p THEN Cardinality(Adding(p)) + 1
                                                      ELSE Cardinality(Adding(p))
      BY <2>1, <2>2, TapTypes, FS_AddElement
    <2>4. Rows(likes', p) = IF ThePost(c) = p THEN Rows(likes, p) + 1 ELSE Rows(likes, p)
      BY <1>3, RowAdded DEF FeedInv, FeedTypes
    <2>5. LikesOf(p) /\ ViewsOf(p)
      BY <1>6 DEF FeedInv
    <2>6. LikesOf(p)'
      <3>1. Rows(likes, p)' = Rows(likes', p) /\ counts' = counts
        BY DEF Rows
      <3>2. QED
        BY <2>2, <2>3, <2>4, <2>5, <3>1, TapTypes DEF LikesOf
    <2>7. ViewsOf(p)'
      BY <2>2, <2>5 DEF ViewsOf, Rows
    <2>8. QED
      BY <2>6, <2>7
  <1>7. QED
    BY <1>2, <1>4, <1>5, <1>6 DEF FeedInv

LEMMA LikeDeleted ==
  ASSUME RequestInv, FeedInv, NEW c \in Come, Op(c) = "like", pc[c] = "unlike",
         Goto(c, "count"), UNCHANGED <<saw, posts, views, counts>>,
         Pair(c) \in likes, likes' = likes \ {Pair(c)}
  PROVE  FeedInv'
  <1>1. /\ Come' = Come /\ UNCHANGED sent /\ pc'[c] = "count"
        /\ \A d \in Come : Op(d)' = Op(d) /\ ThePost(d)' = ThePost(d) /\ (d # c => pc'[d] = pc[d])
    BY OnlyGoes DEF Op, ThePost
  <1>2. Died' = Died /\ NewPosts'
    BY TapGoes
  <1>3. ThePost(c) \in DOMAIN posts /\ saw[c].n = -1 /\ Pair(c)[1] = ThePost(c)
    BY DEF FeedInv, TapsAPost, Pair
  <1>4. FeedTypes'
    <2>1. IsFiniteSet(likes) /\ IsFiniteSet(likes \ {Pair(c)})
      BY FS_RemoveElement DEF FeedInv, FeedTypes
    <2>2. QED
      BY <1>3, <2>1 DEF FeedInv, FeedTypes
  <1>5. TapsAPost'
    BY <1>1, <1>3 DEF FeedInv, TapsAPost
  <1>6. ASSUME ~Died, NEW p \in DOMAIN posts
        PROVE  LikesOf(p)' /\ ViewsOf(p)'
    <2>1. c \notin Adding(p) /\ c \notin Taking(p) /\ c \notin Seeing(p)
      BY DEF Adding, Taking, Seeing
    <2>2. /\ Taking(p)' = Taking(p) \union (IF ThePost(c) = p THEN {c} ELSE {})
          /\ Adding(p)' = Adding(p) /\ Seeing(p)' = Seeing(p)
      <3>1. /\ Adding(p)' = (Adding(p) \ {c}) \union
                (IF Op(c) = "like" /\ pc'[c] = "count" /\ saw'[c].n = 1 /\ ThePost(c) = p THEN {c} ELSE {})
            /\ Taking(p)' = (Taking(p) \ {c}) \union
                (IF Op(c) = "like" /\ pc'[c] = "count" /\ saw'[c].n = -1 /\ ThePost(c) = p THEN {c} ELSE {})
            /\ Seeing(p)' = (Seeing(p) \ {c}) \union
                (IF Op(c) = "view" /\ pc'[c] = "count" /\ ThePost(c) = p THEN {c} ELSE {})
        BY TapGoes
      <3>2. pc'[c] = "count" /\ saw'[c].n = -1 /\ 1 # -1
        BY <1>1, <1>3
      <3>3. QED
        BY <2>1, <3>1, <3>2
    <2>3. Cardinality(Taking(p)') = IF ThePost(c) = p THEN Cardinality(Taking(p)) + 1
                                                      ELSE Cardinality(Taking(p))
      BY <2>1, <2>2, TapTypes, FS_AddElement
    <2>4. Rows(likes', p) = IF ThePost(c) = p THEN Rows(likes, p) - 1 ELSE Rows(likes, p)
      BY <1>3, RowRemoved DEF FeedInv, FeedTypes
    <2>5. LikesOf(p) /\ ViewsOf(p)
      BY <1>6 DEF FeedInv
    <2>6. LikesOf(p)'
      <3>1. Rows(likes, p)' = Rows(likes', p) /\ counts' = counts
        BY DEF Rows
      <3>2. QED
        BY <2>2, <2>3, <2>4, <2>5, <3>1, TapTypes DEF LikesOf
    <2>7. ViewsOf(p)'
      BY <2>2, <2>5 DEF ViewsOf, Rows
    <2>8. QED
      BY <2>6, <2>7
  <1>7. QED
    BY <1>2, <1>4, <1>5, <1>6 DEF FeedInv

LEMMA LikeCounted ==
  ASSUME RequestInv, FeedInv, NEW c \in Come, Op(c) = "like", pc[c] = "count",
         Goto(c, "done"), UNCHANGED <<saw, posts, likes, views>>,
         counts' = [counts EXCEPT ![ThePost(c)]["like"] = @ + saw[c].n]
  PROVE  FeedInv'
  <1> DEFINE q == ThePost(c)
  <1>1. /\ Come' = Come /\ UNCHANGED sent /\ pc'[c] = "done"
        /\ \A d \in Come : Op(d)' = Op(d) /\ ThePost(d)' = ThePost(d) /\ (d # c => pc'[d] = pc[d])
    BY OnlyGoes DEF Op, ThePost
  <1>2. Died' = Died /\ NewPosts'
    BY TapGoes
  <1>3. q \in DOMAIN posts /\ saw[c].n \in {1, -1}
    BY DEF FeedInv, TapsAPost
  <1>4. /\ \A p \in DOMAIN posts : /\ counts'[p].view = counts[p].view
                                   /\ counts'[p].like = IF p = q THEN counts[p].like + saw[c].n
                                                                 ELSE counts[p].like
        /\ counts' \in [DOMAIN posts -> Tally]
    <2>1. counts \in [DOMAIN posts -> Tally]
      BY DEF FeedInv, FeedTypes
    <2>2. counts[q]["like"] + saw[c].n \in Int
      BY <1>3, <2>1 DEF Tally
    <2>3. QED
      BY <1>3, <2>1, <2>2 DEF Tally
  <1>5. FeedTypes' /\ TapsAPost'
    BY <1>1, <1>4 DEF FeedInv, FeedTypes, TapsAPost
  <1>6. ASSUME ~Died, NEW p \in DOMAIN posts
        PROVE  LikesOf(p)' /\ ViewsOf(p)'
    <2>1. /\ (c \in Adding(p)) = (p = q /\ saw[c].n = 1)
          /\ (c \in Taking(p)) = (p = q /\ saw[c].n = -1)
          /\ c \notin Seeing(p)
      BY DEF Adding, Taking, Seeing
    <2>2. /\ Adding(p)' = Adding(p) \ {c} /\ Taking(p)' = Taking(p) \ {c}
          /\ Seeing(p)' = Seeing(p)
      <3>1. /\ Adding(p)' = (Adding(p) \ {c}) \union
                (IF Op(c) = "like" /\ pc'[c] = "count" /\ saw'[c].n = 1 /\ ThePost(c) = p THEN {c} ELSE {})
            /\ Taking(p)' = (Taking(p) \ {c}) \union
                (IF Op(c) = "like" /\ pc'[c] = "count" /\ saw'[c].n = -1 /\ ThePost(c) = p THEN {c} ELSE {})
            /\ Seeing(p)' = (Seeing(p) \ {c}) \union
                (IF Op(c) = "view" /\ pc'[c] = "count" /\ ThePost(c) = p THEN {c} ELSE {})
        BY TapGoes
      <3>2. QED
        BY <1>1, <2>1, <3>1
    <2>3. /\ Cardinality(Adding(p)') = IF p = q /\ saw[c].n = 1 THEN Cardinality(Adding(p)) - 1
                                                                ELSE Cardinality(Adding(p))
          /\ Cardinality(Taking(p)') = IF p = q /\ saw[c].n = -1 THEN Cardinality(Taking(p)) - 1
                                                                 ELSE Cardinality(Taking(p))
      <3>1. IsFiniteSet(Adding(p)) /\ IsFiniteSet(Taking(p))
        BY TapTypes
      <3>2. Cardinality(Adding(p) \ {c}) = IF c \in Adding(p) THEN Cardinality(Adding(p)) - 1
                                                              ELSE Cardinality(Adding(p))
        BY <3>1, FS_RemoveElement
      <3>3. Cardinality(Taking(p) \ {c}) = IF c \in Taking(p) THEN Cardinality(Taking(p)) - 1
                                                              ELSE Cardinality(Taking(p))
        BY <3>1, FS_RemoveElement
      <3>4. QED
        BY <2>1, <2>2, <3>2, <3>3
    <2>4. LikesOf(p) /\ ViewsOf(p)
      BY <1>6 DEF FeedInv
    <2>5. LikesOf(p)'
      <3>1. Rows(likes, p)' = Rows(likes, p)
        BY DEF Rows
      <3> HIDE DEF q
      <3>2. QED
        BY <1>3, <1>4, <2>3, <2>4, <3>1, TapTypes DEF LikesOf
    <2>6. ViewsOf(p)'
      BY <1>4, <2>2, <2>4 DEF ViewsOf, Rows
    <2>7. QED
      BY <2>5, <2>6
  <1>7. QED
    BY <1>2, <1>5, <1>6 DEF FeedInv

LEMMA ViewWritten ==
  ASSUME RequestInv, FeedInv, NEW c \in Come, Op(c) = "view", pc[c] = "see",
         Goto(c, "count"), UNCHANGED <<saw, posts, likes, counts>>,
         Pair(c) \notin views, views' = views \union {Pair(c)}
  PROVE  FeedInv'
  <1>1. /\ Come' = Come /\ UNCHANGED sent /\ pc'[c] = "count"
        /\ \A d \in Come : Op(d)' = Op(d) /\ ThePost(d)' = ThePost(d) /\ (d # c => pc'[d] = pc[d])
    BY OnlyGoes DEF Op, ThePost
  <1>2. Died' = Died /\ NewPosts'
    BY TapGoes
  <1>3. ThePost(c) \in DOMAIN posts /\ Pair(c)[1] = ThePost(c)
    BY DEF FeedInv, TapsAPost, Pair
  <1>4. FeedTypes'
    <2>1. IsFiniteSet(views) /\ IsFiniteSet(views \union {Pair(c)})
      BY FS_AddElement DEF FeedInv, FeedTypes
    <2>2. QED
      BY <1>3, <2>1 DEF FeedInv, FeedTypes
  <1>5. TapsAPost'
    BY <1>1, <1>3 DEF FeedInv, TapsAPost
  <1>6. ASSUME ~Died, NEW p \in DOMAIN posts
        PROVE  LikesOf(p)' /\ ViewsOf(p)'
    <2>1. c \notin Adding(p) /\ c \notin Taking(p) /\ c \notin Seeing(p)
      BY DEF Adding, Taking, Seeing
    <2>2. /\ Seeing(p)' = Seeing(p) \union (IF ThePost(c) = p THEN {c} ELSE {})
          /\ Adding(p)' = Adding(p) /\ Taking(p)' = Taking(p)
      BY <1>1, <2>1, TapGoes
    <2>3. Cardinality(Seeing(p)') = IF ThePost(c) = p THEN Cardinality(Seeing(p)) + 1
                                                      ELSE Cardinality(Seeing(p))
      BY <2>1, <2>2, TapTypes, FS_AddElement
    <2>4. Rows(views', p) = IF ThePost(c) = p THEN Rows(views, p) + 1 ELSE Rows(views, p)
      BY <1>3, RowAdded DEF FeedInv, FeedTypes
    <2>5. LikesOf(p) /\ ViewsOf(p)
      BY <1>6 DEF FeedInv
    <2>6. ViewsOf(p)'
      <3>1. Rows(views, p)' = Rows(views', p) /\ counts' = counts
        BY DEF Rows
      <3>2. QED
        BY <2>2, <2>3, <2>4, <2>5, <3>1, TapTypes DEF ViewsOf
    <2>7. LikesOf(p)'
      BY <2>2, <2>5 DEF LikesOf, Rows
    <2>8. QED
      BY <2>6, <2>7
  <1>7. QED
    BY <1>2, <1>4, <1>5, <1>6 DEF FeedInv

LEMMA ViewCounted ==
  ASSUME RequestInv, FeedInv, NEW c \in Come, Op(c) = "view", pc[c] = "count",
         Goto(c, "done"), UNCHANGED <<saw, posts, likes, views>>,
         counts' = [counts EXCEPT ![ThePost(c)]["view"] = @ + 1]
  PROVE  FeedInv'
  <1> DEFINE q == ThePost(c)
  <1>1. /\ Come' = Come /\ UNCHANGED sent /\ pc'[c] = "done"
        /\ \A d \in Come : Op(d)' = Op(d) /\ ThePost(d)' = ThePost(d) /\ (d # c => pc'[d] = pc[d])
    BY OnlyGoes DEF Op, ThePost
  <1>2. Died' = Died /\ NewPosts'
    BY TapGoes
  <1>3. q \in DOMAIN posts
    BY DEF FeedInv, TapsAPost
  <1>4. /\ \A p \in DOMAIN posts : /\ counts'[p].like = counts[p].like
                                   /\ counts'[p].view = IF p = q THEN counts[p].view + 1
                                                                 ELSE counts[p].view
        /\ counts' \in [DOMAIN posts -> Tally]
    <2>1. counts \in [DOMAIN posts -> Tally]
      BY DEF FeedInv, FeedTypes
    <2>2. counts[q]["view"] + 1 \in Nat
      BY <1>3, <2>1 DEF Tally
    <2>3. QED
      BY <1>3, <2>1, <2>2 DEF Tally
  <1>5. FeedTypes' /\ TapsAPost'
    BY <1>1, <1>4 DEF FeedInv, FeedTypes, TapsAPost
  <1>6. ASSUME ~Died, NEW p \in DOMAIN posts
        PROVE  LikesOf(p)' /\ ViewsOf(p)'
    <2>1. (c \in Seeing(p)) = (p = q) /\ c \notin Adding(p) /\ c \notin Taking(p)
      BY DEF Adding, Taking, Seeing
    <2>2. /\ Seeing(p)' = Seeing(p) \ {c}
          /\ Adding(p)' = Adding(p) /\ Taking(p)' = Taking(p)
      BY <1>1, <2>1, TapGoes
    <2>3. Cardinality(Seeing(p)') = IF p = q THEN Cardinality(Seeing(p)) - 1
                                             ELSE Cardinality(Seeing(p))
      BY <2>1, <2>2, TapTypes, FS_RemoveElement
    <2>4. LikesOf(p) /\ ViewsOf(p)
      BY <1>6 DEF FeedInv
    <2>5. ViewsOf(p)'
      <3>1. Rows(views, p)' = Rows(views, p)
        BY DEF Rows
      <3> HIDE DEF q
      <3>2. QED
        BY <1>3, <1>4, <2>3, <2>4, <3>1, TapTypes DEF ViewsOf
    <2>6. LikesOf(p)'
      BY <1>4, <2>2, <2>4 DEF LikesOf, Rows
    <2>7. QED
      BY <2>5, <2>6
  <1>7. QED
    BY <1>2, <1>5, <1>6 DEF FeedInv

\* A new post has no likes and no views.
LEMMA PostCreated ==
  ASSUME RequestInv, FeedInv, NEW c \in Come, Op(c) = "post", CreatePost(c)
  PROVE  FeedInv'
  <1>1. /\ Come' = Come /\ UNCHANGED sent /\ pc'[c] = "done"
        /\ \A d \in Come : Op(d)' = Op(d) /\ ThePost(d)' = ThePost(d) /\ (d # c => pc'[d] = pc[d])
    BY OnlyGoes DEF CreatePost, Move, Op, ThePost
  <1>2. /\ pc[c] = "start" /\ c \notin DOMAIN posts
        /\ UNCHANGED <<saw, likes, views>>
        /\ counts' = Put(counts, c, NoCounts)
        /\ DOMAIN posts' = DOMAIN posts \union {c}
    BY DEF CreatePost, Move, Forget, FeedInv, NewPosts, Put
  <1>3. NoCounts \in Tally /\ NoCounts.like = 0 /\ NoCounts.view = 0
    BY DEF NoCounts, Tally
  <1>4. /\ counts' \in [DOMAIN posts' -> Tally] /\ counts'[c] = NoCounts
        /\ \A p \in DOMAIN posts : counts'[p] = counts[p]
    BY <1>2, <1>3 DEF FeedInv, FeedTypes, Put
  <1>5. FeedTypes' /\ NewPosts' /\ TapsAPost'
    BY <1>1, <1>2, <1>4 DEF FeedInv, FeedTypes, NewPosts, TapsAPost
  <1>6. \A p : Adding(p)' = Adding(p) /\ Taking(p)' = Taking(p) /\ Seeing(p)' = Seeing(p)
    BY <1>1, <1>2 DEF Adding, Taking, Seeing
  <1>7. ASSUME ~Died', NEW p \in DOMAIN posts'
        PROVE  LikesOf(p)' /\ ViewsOf(p)'
    <2>1. CASE p \in DOMAIN posts
      <3>1. LikesOf(p) /\ ViewsOf(p)
        BY <1>1, <1>2, <1>7, <2>1 DEF FeedInv, Died
      <3>2. QED
        BY <1>2, <1>4, <1>6, <2>1, <3>1 DEF LikesOf, ViewsOf, Rows
    <2>2. CASE p = c
      <3>1. Adding(c) = {} /\ Taking(c) = {} /\ Seeing(c) = {}
        BY <1>2 DEF Adding, Taking, Seeing, FeedInv, TapsAPost
      <3>2. {r \in likes : r[1] = c} = {} /\ {r \in views : r[1] = c} = {}
        BY <1>2 DEF FeedInv, FeedTypes
      <3>3. /\ Cardinality(Adding(c)') = 0 /\ Cardinality(Taking(c)') = 0
            /\ Cardinality(Seeing(c)') = 0
        BY <1>6, <3>1, FS_EmptySet
      <3>4. Rows(likes, c)' = 0 /\ Rows(views, c)' = 0
        BY <1>2, <3>2, FS_EmptySet DEF Rows
      <3>5. counts'[c].like = 0 /\ counts'[c].view = 0
        BY <1>3, <1>4
      <3>6. QED
        BY <2>2, <3>3, <3>4, <3>5 DEF LikesOf, ViewsOf
    <2>3. QED
      BY <1>2, <2>1, <2>2
  <1>8. QED
    BY <1>5, <1>7 DEF FeedInv

\* Requests that neither like, view nor create a post.
LEMMA OtherGoes ==
  ASSUME RequestInv, NEW c \in Come, Op(c) \notin {"like", "view", "post"}, pc[c] # "dead",
         NEW l, Goto(c, l), Forget
  PROVE  Unnoticed /\ Come' = Come /\ UNCHANGED sent
  <1>1. /\ Come' = Come /\ UNCHANGED sent /\ UNCHANGED saw
        /\ \A d \in Come : d # c => pc'[d] = pc[d]
    BY OnlyGoes DEF Forget
  <1>2. Died => Died'
    BY <1>1 DEF Died
  <1>3. QED
    BY <1>1, <1>2 DEF Unnoticed

\* A counter of bookmarks, shares or clicks is none of likes or views.
LEMMA OtherCounter ==
  ASSUME FeedInv, NEW q, NEW n \in Int, NEW field \in {"bookmark", "share", "click"},
         counts' = [counts EXCEPT ![q][field] = @ + n]
  PROVE  /\ counts' \in [DOMAIN posts -> Tally]
         /\ \A p \in DOMAIN posts : counts'[p].like = counts[p].like /\ counts'[p].view = counts[p].view
  <1>1. counts \in [DOMAIN posts -> Tally]
    BY DEF FeedInv, FeedTypes
  <1>2. CASE q \notin DOMAIN posts
    <2>1. counts' = counts
      BY <1>1, <1>2
    <2>2. QED
      BY <1>1, <2>1
  <1>3. CASE q \in DOMAIN posts
    <2>1. /\ counts[q]["bookmark"] + n \in Int /\ counts[q]["share"] + n \in Int
          /\ counts[q]["click"] + n \in Int
      BY <1>1, <1>3 DEF Tally
    <2>2. CASE field = "bookmark"
      <3>1. counts' = [counts EXCEPT ![q]["bookmark"] = @ + n]
        BY <2>2
      <3>2. QED
        BY <1>1, <1>3, <2>1, <3>1 DEF Tally
    <2>3. CASE field = "share"
      <3>1. counts' = [counts EXCEPT ![q]["share"] = @ + n]
        BY <2>3
      <3>2. QED
        BY <1>1, <1>3, <2>1, <3>1 DEF Tally
    <2>4. CASE field = "click"
      <3>1. counts' = [counts EXCEPT ![q]["click"] = @ + n]
        BY <2>4
      <3>2. QED
        BY <1>1, <1>3, <2>1, <3>1 DEF Tally
    <2>5. QED
      BY <2>2, <2>3, <2>4
  <1>4. QED
    BY <1>2, <1>3

LEMMA FeedStepInv ==
  ASSUME RequestInv, FeedInv, NEW c \in Come, pc[c] \notin Ended, FeedStep(c)
  PROVE  FeedInv'
  <1> USE DEF Move, Forget
  <1>1. pc[c] # "dead" /\ counts \in [DOMAIN posts -> Tally]
    BY DEF Ended, FeedInv, FeedTypes
  <1>2. CASE Op(c) = "post" /\ CreatePost(c)
    BY <1>2, PostCreated
  <1>3. CASE Op(c) \in {"editPost", "deletePost"} /\ (PostRead(c) \/ PostEdit(c) \/ PostDelete(c))
    <2>1. \E l : Goto(c, l) /\ Forget
      BY <1>3 DEF PostRead, PostEdit, PostDelete
    <2>2. UNCHANGED <<likes, views, counts>> /\ DOMAIN posts' = DOMAIN posts
      BY <1>3 DEF PostRead, PostEdit, PostDelete, feedVars
    <2>3. QED
      BY <1>1, <1>3, <2>1, <2>2, OtherGoes, FeedStays
  <1>4. CASE Op(c) = "like" /\ LikeRead(c)
    <2>1. saw' = [saw EXCEPT ![c] = [n |-> IF Pair(c) \in likes THEN -1 ELSE 1]]
      BY <1>4 DEF LikeRead, Keep
    <2>2. /\ \A d \in Come : d # c => saw'[d] = saw[d]
          /\ saw'[c].n = IF Pair(c) \in likes THEN -1 ELSE 1
      BY <2>1 DEF RequestInv
    <2>3. /\ pc[c] = "start" /\ Goto(c, IF Pair(c) \in likes THEN "unlike" ELSE "like")
          /\ ThePost(c) \in DOMAIN posts /\ UNCHANGED <<posts, likes, views, counts>>
      BY <1>4 DEF LikeRead, feedVars
    <2>4. CASE Pair(c) \in likes
      BY <1>4, <2>2, <2>3, <2>4, TapReads
    <2>5. CASE Pair(c) \notin likes
      BY <1>4, <2>2, <2>3, <2>5, TapReads
    <2>6. QED
      BY <2>4, <2>5
  <1>5. CASE Op(c) = "like" /\ LikeCreate(c)
    <2>1. CASE Pair(c) \in likes
      <3>1. pc[c] = "like" /\ Goto(c, "done") /\ UNCHANGED <<saw, posts, likes, views, counts>>
        BY <1>5, <2>1 DEF LikeCreate
      <3>2. QED
        BY <1>5, <3>1, TapReads
    <2>2. CASE Pair(c) \notin likes
      BY <1>5, <2>2, LikeWritten DEF LikeCreate
    <2>3. QED
      BY <2>1, <2>2
  <1>6. CASE Op(c) = "like" /\ LikeDelete(c)
    <2>1. CASE Pair(c) \in likes
      BY <1>6, <2>1, LikeDeleted DEF LikeDelete
    <2>2. CASE Pair(c) \notin likes
      <3>1. pc[c] = "unlike" /\ Goto(c, "done") /\ UNCHANGED <<saw, posts, likes, views, counts>>
        BY <1>6, <2>2 DEF LikeDelete
      <3>2. QED
        BY <1>6, <3>1, TapReads
    <2>3. QED
      BY <2>1, <2>2
  <1>7. CASE Op(c) = "like" /\ pc[c] = "count" /\ Count(c, "like", saw[c].n)
    BY <1>7, LikeCounted DEF Count
  <1>8. CASE Op(c) = "view" /\ ViewRead(c)
    <2>1. /\ pc[c] = "start" /\ Goto(c, IF Pair(c) \in views THEN "done" ELSE "see")
          /\ ThePost(c) \in DOMAIN posts /\ UNCHANGED <<saw, posts, likes, views, counts>>
      BY <1>8 DEF ViewRead, feedVars
    <2>2. QED
      BY <1>8, <2>1, TapReads
  <1>9. CASE Op(c) = "view" /\ ViewCreate(c)
    <2>1. CASE Pair(c) \in views
      <3>1. pc[c] = "see" /\ Goto(c, "failed") /\ UNCHANGED <<saw, posts, likes, views, counts>>
        BY <1>9, <2>1 DEF ViewCreate
      <3>2. QED
        BY <1>9, <3>1, TapReads
    <2>2. CASE Pair(c) \notin views
      BY <1>9, <2>2, ViewWritten DEF ViewCreate
    <2>3. QED
      BY <2>1, <2>2
  <1>10. CASE Op(c) = "view" /\ Count(c, "view", 1)
    BY <1>10, ViewCounted DEF Count
  <1>11. CASE Op(c) = "bookmark" /\ BookmarkWrite(c)
    <2>1. Goto(c, "count") /\ UNCHANGED <<posts, likes, views, counts>>
      BY <1>11 DEF BookmarkWrite
    <2>2. QED
      BY <1>1, <1>11, <2>1, OtherGoes, FeedStays DEF BookmarkWrite
  <1>12. CASE Op(c) = "bookmark" /\ Count(c, "bookmark", IF sent[c].add THEN 1 ELSE -1)
    <2> DEFINE n == IF sent[c].add THEN 1 ELSE -1
    <2>1. n \in Int
      OBVIOUS
    <2>2. /\ counts' = [counts EXCEPT ![ThePost(c)]["bookmark"] = @ + n]
          /\ Goto(c, "done") /\ UNCHANGED <<posts, likes, views>>
      BY <1>12 DEF Count
    <2> HIDE DEF n
    <2>3. /\ counts' \in [DOMAIN posts -> Tally]
          /\ \A p \in DOMAIN posts : counts'[p].like = counts[p].like /\ counts'[p].view = counts[p].view
      BY <2>1, <2>2, OtherCounter
    <2>4. QED
      BY <1>1, <1>12, <2>2, <2>3, OtherGoes, FeedStays DEF Count
  <1>13. CASE Op(c) \in {"share", "click"} /\ ShareOrClick(c)
    <2>1. Goto(c, "count") /\ UNCHANGED <<posts, likes, views, counts>>
      BY <1>13 DEF ShareOrClick, feedVars
    <2>2. QED
      BY <1>1, <1>13, <2>1, OtherGoes, FeedStays DEF ShareOrClick
  <1>14. CASE Op(c) \in {"share", "click"} /\ Count(c, Op(c), 1)
    <2> DEFINE n == 1
    <2>1. /\ counts' = [counts EXCEPT ![ThePost(c)][Op(c)] = @ + n]
          /\ Goto(c, "done") /\ UNCHANGED <<posts, likes, views>>
      BY <1>14 DEF Count
    <2>2. n \in Int /\ Op(c) \in {"bookmark", "share", "click"}
      BY <1>14
    <2> HIDE DEF n
    <2>3. /\ counts' \in [DOMAIN posts -> Tally]
          /\ \A p \in DOMAIN posts : counts'[p].like = counts[p].like /\ counts'[p].view = counts[p].view
      BY <2>1, <2>2, OtherCounter
    <2>4. QED
      BY <1>1, <1>14, <2>1, <2>3, OtherGoes, FeedStays DEF Count
  <1>15. CASE Op(c) \in {"createPoll", "editPoll", "closePoll", "deletePoll"} /\ PollWrite(c)
    <2>1. Goto(c, "done") /\ UNCHANGED <<likes, views, counts>> /\ DOMAIN posts' = DOMAIN posts
      BY <1>15 DEF PollWrite
    <2>2. QED
      BY <1>1, <1>15, <2>1, OtherGoes, FeedStays DEF PollWrite
  <1>16. CASE Op(c) = "vote" /\ (VoteRead(c) \/ VoteWrite(c))
    <2>1. (\E l : Goto(c, l) /\ Forget) /\ UNCHANGED <<posts, likes, views, counts>>
      BY <1>16 DEF VoteRead, VoteWrite, feedVars
    <2>2. QED
      BY <1>1, <1>16, <2>1, OtherGoes, FeedStays
  <1>17. QED
    BY <1>2, <1>3, <1>4, <1>5, <1>6, <1>7, <1>8, <1>9, <1>10, <1>11, <1>12, <1>13, <1>14, <1>15,
       <1>16 DEF FeedStep

\* The hourly job only switches posts on and off.
LEMMA RefreshInv ==
  ASSUME RequestInv, FeedInv, FeedRefresh, UNCHANGED request
  PROVE  FeedInv'
  <1>1. UNCHANGED <<likes, views, counts>> /\ DOMAIN posts' = DOMAIN posts
    BY DEF FeedRefresh, RefreshOn, RefreshOff, Switch
  <1>2. Unnoticed /\ Come' = Come /\ UNCHANGED sent
    BY DEF Unnoticed, request, Died, Come
  <1>3. counts \in [DOMAIN posts -> Tally]
    BY DEF FeedInv, FeedTypes
  <1>4. QED
    BY <1>1, <1>2, <1>3, FeedStays

-----------------------------------------------------------------------------
(* The notification engine *)

Statuses == {"QUEUED", "SENT", "FAILED", "OPENED"}
LogRow == [job : JobIds, channel : Channels, status : Statuses]
Attempted == [order : Seq(Channels), i : Nat \ {0}, row : Nat, sms : BOOLEAN]

MailTypes ==
    /\ prefs = [u \in Recipients |-> prefs[u]]
    /\ \A u \in Recipients : DOMAIN prefs[u] \subseteq Channels
    /\ mail = [j \in MailJobs |-> mail[j]] /\ \A j \in MailJobs : mail[j].user \in Recipients
    /\ sending = [j \in DOMAIN sending |-> sending[j]]
    /\ chosenFor = [j \in DOMAIN chosenFor |-> chosenFor[j]] /\ DOMAIN chosenFor \subseteq MailJobs
    /\ log \in Seq(LogRow)
    /\ jobs = [j \in JobIds |-> jobs[j]]

\* The jobs of messages are those of the requests that queued them.
MailIds ==
    /\ \A j \in MailJobs : /\ j \in JobIds /\ j[1] = "mail" /\ j[2] \in Come
                          /\ pc[j[2]] # "start" /\ Op(j[2]) \in MailOps
    /\ \A j \in JobIds \ MailJobs : j[1] = "mail" => jobs[j] = NoJob

\* Only what was sent over the app is opened, and only rows of one's own.
LogRows ==
    \A i \in DOMAIN log :
        /\ log[i].job \in MailJobs /\ log[i].channel \in mail[log[i].job].to
        /\ log[i].status = "OPENED" => log[i].channel = "IN_APP"
OpenRows ==
    \A c \in Come : Op(c) = "opened" /\ pc[c] = "open" =>
        saw[c].row \in DOMAIN log /\ log[saw[c].row].channel = "IN_APP"

Answered(j, ch) == \E i \in DOMAIN log : log[i].job = j /\ log[i].channel = ch /\ log[i].status # "QUEUED"

\* A WhatsApp message got through, or its SMS is logged, or there is no number.
Followed(j) ==
    \/ "SMS" \notin mail[j].to
    \/ \E i \in DOMAIN log : log[i].job = j /\ log[i].channel = "SMS"
    \/ \E i \in DOMAIN log : log[i].job = j /\ log[i].channel = "WHATSAPP" /\ log[i].status = "SENT"

Reached(j, ch) == ch \in mail[j].to => Answered(j, ch) /\ (ch = "WHATSAPP" => Followed(j))

\* An attempt has reached the channels before the one it is at.
Attempt(j) ==
    LET s == sending[j] IN
    /\ j \in DOMAIN sending /\ s \in Attempted /\ s.i <= Len(s.order) + 1
    /\ jobs[j].at \in {"channel", "send"}
    /\ \A k \in 1 .. s.i - 1 : Reached(j, s.order[k])
    /\ s.sms => /\ s.i <= Len(s.order) /\ s.order[s.i] = "WHATSAPP"
                /\ "SMS" \in mail[j].to /\ Answered(j, "WHATSAPP")
    /\ jobs[j].at = "send" =>
           /\ s.i <= Len(s.order) /\ s.row \in DOMAIN log /\ log[s.row].job = j
           /\ log[s.row].channel = Channel(j) /\ log[s.row].status \in {"QUEUED", "OPENED"}

\* Rows without an answer that no attempt is waiting for.
Abandoned(j) ==
    {i \in DOMAIN log : /\ log[i].job = j /\ log[i].status = "QUEUED"
                        /\ Held(j, "send") => i # sending[j].row}

JobInv(j) ==
    /\ jobs[j].tries \in Nat
    /\ jobs[j].state = "active" => Attempt(j)
    /\ Cardinality(Abandoned(j)) <= jobs[j].tries
    /\ j \in DOMAIN chosenFor =>
           jobs[j].state = "completed" /\ \A ch \in chosenFor[j] : Reached(j, ch)

MailInv ==
    /\ MailTypes /\ MailIds /\ LogRows /\ OpenRows
    /\ \A j \in MailJobs : JobInv(j)

\* What a log may become: rows stay, an answer stays an answer.
LogGrows ==
    /\ DOMAIN log \subseteq DOMAIN log'
    /\ \A i \in DOMAIN log :
           /\ log'[i].job = log[i].job /\ log'[i].channel = log[i].channel
           /\ log[i].status # "QUEUED" => log'[i].status # "QUEUED"
           /\ log[i].status = "SENT" /\ log[i].channel # "IN_APP" => log'[i].status = "SENT"

\* What a step may do to the rows of a job it is not about: open them.
OnlyOpened(j) ==
    \A i \in DOMAIN log' : log'[i].job = j => i \in DOMAIN log /\ log'[i].status \in {log[i].status, "OPENED"}

LEMMA ReachedStays ==
  ASSUME LogGrows, NEW j, mail'[j] = mail[j], NEW ch
  PROVE  /\ Answered(j, ch) => Answered(j, ch)'
         /\ Followed(j) => Followed(j)'
         /\ Reached(j, ch) => Reached(j, ch)'
  <1>1. Answered(j, ch) => Answered(j, ch)'
    BY DEF Answered, LogGrows
  <1>2. Followed(j) => Followed(j)'
    BY DEF Followed, LogGrows
  <1>3. QED
    BY <1>1, <1>2 DEF Reached

LEMMA LogFinite ==
  ASSUME MailTypes, NEW j
  PROVE  IsFiniteSet(DOMAIN log) /\ IsFiniteSet(Abandoned(j)) /\ Cardinality(Abandoned(j)) \in Nat
  <1>1. DOMAIN log = 1 .. Len(log) /\ Len(log) \in Nat
    BY DEF MailTypes
  <1>2. IsFiniteSet(DOMAIN log)
    BY <1>1, FS_Interval
  <1>3. Abandoned(j) \in SUBSET (DOMAIN log)
    BY DEF Abandoned
  <1>4. QED
    BY <1>2, <1>3, FS_Subset, FS_CardinalityType

\* A job that no step is about keeps what holds of it.
LEMMA JobStays ==
  ASSUME MailTypes, LogGrows, NEW j, JobInv(j), OnlyOpened(j), mail'[j] = mail[j], jobs'[j] = jobs[j],
         j \in DOMAIN sending => j \in DOMAIN sending' /\ sending'[j] = sending[j],
         j \in DOMAIN chosenFor' => j \in DOMAIN chosenFor /\ chosenFor'[j] = chosenFor[j]
  PROVE  JobInv(j)'
  <1>1. jobs[j].state = "active" => Attempt(j)'
    <2> SUFFICES ASSUME jobs[j].state = "active" PROVE Attempt(j)'
      OBVIOUS
    <2>1. Attempt(j)
      BY DEF JobInv
    <2>2. j \in DOMAIN sending' /\ sending'[j] = sending[j] /\ Channel(j)' = Channel(j)
      BY <2>1 DEF Attempt, Channel
    <2>3. \A k \in 1 .. sending[j].i - 1 : Reached(j, sending[j].order[k])'
      BY <2>1, ReachedStays DEF Attempt
    <2>4. sending[j].sms => Answered(j, "WHATSAPP")'
      BY <2>1, ReachedStays DEF Attempt
    <2>5. jobs[j].at = "send" =>
            /\ sending[j].row \in DOMAIN log' /\ log'[sending[j].row].job = j
            /\ log'[sending[j].row].channel = Channel(j)
            /\ log'[sending[j].row].status \in {"QUEUED", "OPENED"}
      BY <2>1 DEF Attempt, LogGrows, OnlyOpened
    <2>6. QED
      BY <2>1, <2>2, <2>3, <2>4, <2>5 DEF Attempt
  <1>2. Cardinality(Abandoned(j)') <= jobs[j].tries
    <2>1. Abandoned(j)' \in SUBSET Abandoned(j)
      BY DEF JobInv, Attempt, Abandoned, OnlyOpened, LogGrows, Held
    <2>2. Cardinality(Abandoned(j)') <= Cardinality(Abandoned(j)) /\ Cardinality(Abandoned(j)') \in Nat
      BY <2>1, LogFinite, FS_Subset, FS_CardinalityType
    <2>3. Cardinality(Abandoned(j)) \in Nat /\ Cardinality(Abandoned(j)) <= jobs[j].tries /\ jobs[j].tries \in Nat
      BY LogFinite DEF JobInv
    <2>4. QED
      BY <2>2, <2>3
  <1>3. j \in DOMAIN chosenFor' =>
          jobs[j].state = "completed" /\ \A ch \in chosenFor[j] : Reached(j, ch)'
    BY ReachedStays DEF JobInv
  <1>4. QED
    BY <1>1, <1>2, <1>3 DEF JobInv

LEMMA InitMail ==
  ASSUME NEW w \in Scenarios, RequestsInit(w), jobs = [j \in JobIds |-> NoJob], NotifierInit(w)
  PROVE  MailInv
  <1>1. \A c \in Come : pc[c] = "start"
    BY DEF RequestsInit, Come
  <1>2. log = <<>> /\ MailJobs = {} /\ DOMAIN log = {}
    BY DEF NotifierInit, MailJobs
  <1>3. MailTypes
    <2>1. mail = [j \in MailJobs |-> mail[j]] /\ sending = [j \in DOMAIN sending |-> sending[j]]
          /\ chosenFor = [j \in DOMAIN chosenFor |-> chosenFor[j]] /\ DOMAIN chosenFor = {}
      BY DEF NotifierInit, MailJobs
    <2>2. log \in Seq(LogRow)
      BY <1>2
    <2>3. prefs = Wanted
      BY DEF NotifierInit
    <2>4. QED
      BY <1>2, <2>1, <2>2, <2>3, NotifierAssumption DEF MailTypes
  <1>4. MailIds
    BY <1>2 DEF MailIds
  <1>5. LogRows /\ OpenRows
    BY <1>1, <1>2 DEF LogRows, OpenRows
  <1>6. QED
    BY <1>2, <1>3, <1>4, <1>5 DEF MailInv

\* A log that does not change, or in which one row is opened.
LEMMA SameLog ==
  ASSUME MailTypes, log' = log
  PROVE  LogGrows /\ \A j : OnlyOpened(j)
  BY DEF LogGrows, OnlyOpened

\* The queue after another job was added, taken or finished.
LEMMA QueueChanges ==
  ASSUME MailTypes, NEW k, NEW l, jobs' \in {jobs, Added(k), Taken(k, l), Finished(k)}
  PROVE  /\ jobs' = [x \in JobIds |-> jobs'[x]]
         /\ \A x \in JobIds : x # k => jobs'[x] = jobs[x]
  BY DEF MailTypes, Added, Taken, Finished

\* Steps of the other services, and their jobs.
LEMMA MailUntouched ==
  ASSUME RequestInv, MailInv, UNCHANGED mailVars, Apart(MailOps), Come' = Come, UNCHANGED sent,
         jobs' = [x \in JobIds |-> jobs'[x]],
         \A x \in JobIds : x[1] = "mail" => jobs'[x] = jobs[x]
  PROVE  MailInv'
  <1>1. UNCHANGED <<prefs, mail, sending, log, chosenFor>> /\ MailJobs' = MailJobs
    BY DEF mailVars, MailJobs
  <1>2. \A c \in Come : /\ Op(c)' = Op(c)
                        /\ Op(c) \in MailOps /\ pc[c] # "start" => pc'[c] # "start"
                        /\ Op(c) = "opened" /\ pc'[c] = "open" => pc[c] = "open" /\ saw'[c] = saw[c]
    BY DEF Apart, MailOps, Op
  <1>3. MailTypes'
    BY <1>1 DEF MailInv, MailTypes
  <1>4. MailIds'
    <2>1. \A c, u : Message(c, u)[1] = "mail"
      BY DEF Message
    <2>2. \A c, u : Message(c, u)' = Message(c, u)
      BY DEF Message
    <2>3. QED
      BY <1>1, <1>2, <2>1, <2>2 DEF MailInv, MailIds
  <1>5. LogRows' /\ OpenRows'
    BY <1>1, <1>2 DEF MailInv, LogRows, OpenRows
  <1>6. ASSUME NEW j \in MailJobs
        PROVE  JobInv(j)'
    <2>1. LogGrows /\ OnlyOpened(j)
      BY <1>1, SameLog DEF MailInv
    <2>2. jobs'[j] = jobs[j] /\ JobInv(j)
      BY DEF MailInv, MailIds
    <2>3. QED
      BY <1>1, <2>1, <2>2, JobStays DEF MailInv
  <1>7. QED
    BY <1>1, <1>3, <1>4, <1>5, <1>6 DEF MailInv

\* A request that goes on and leaves the messages as they are.
LEMMA MailGoesOn ==
  ASSUME RequestInv, MailInv, NEW c \in Come, NEW l, Goto(c, l), l # "start",
         \A d \in Come : d # c => saw'[d] = saw[d],
         Op(c) = "opened" /\ l = "open" =>
             saw'[c].row \in DOMAIN log /\ log[saw'[c].row].channel = "IN_APP",
         UNCHANGED <<prefs, mail, sending, log, chosenFor, jobs>>
  PROVE  MailInv'
  <1>1. /\ Come' = Come /\ UNCHANGED sent /\ pc'[c] = l
        /\ \A d \in Come : Op(d)' = Op(d) /\ (d # c => pc'[d] = pc[d])
    BY OnlyGoes
  <1>2. MailJobs' = MailJobs /\ MailTypes'
    BY DEF MailInv, MailTypes, MailJobs
  <1>3. MailIds'
    <2>1. \A d, u : Message(d, u)' = Message(d, u)
      BY DEF Message
    <2>2. QED
      BY <1>1, <1>2, <2>1 DEF MailInv, MailIds
  <1>4. LogRows' /\ OpenRows'
    BY <1>1, <1>2 DEF MailInv, LogRows, OpenRows
  <1>5. ASSUME NEW j \in MailJobs
        PROVE  JobInv(j)'
    <2>1. LogGrows /\ OnlyOpened(j)
      BY SameLog DEF MailInv
    <2>2. QED
      BY <2>1, JobStays DEF MailInv
  <1>6. QED
    BY <1>2, <1>3, <1>4, <1>5 DEF MailInv

\* Messages to some users, each with a job of its own.
LEMMA MessagesQueued ==
  ASSUME RequestInv, MailInv, NEW c \in Come, Op(c) \in {"notify", "broadcast"}, pc[c] = "start",
         Goto(c, "done"), UNCHANGED <<saw, prefs, sending, log, chosenFor>>,
         NEW new, new \subseteq JobIds, \A j \in new : \E u \in Recipients : j = Message(c, u),
         DOMAIN mail' = MailJobs \union new, mail' = [j \in DOMAIN mail' |-> mail'[j]],
         \A j \in MailJobs : mail'[j] = mail[j],
         \A j \in new : mail'[j].user \in Recipients,
         jobs' = [x \in JobIds |-> jobs'[x]],
         \A x \in JobIds : jobs'[x] = IF x \in new THEN NewJob ELSE jobs[x]
  PROVE  MailInv'
  <1>1. /\ Come' = Come /\ UNCHANGED sent /\ pc'[c] = "done"
        /\ \A d \in Come : Op(d)' = Op(d) /\ (d # c => pc'[d] = pc[d])
    BY OnlyGoes
  <1>2. MailJobs' = MailJobs \union new /\ new \intersect MailJobs = {}
    BY DEF MailJobs, MailInv, MailIds, Message
  <1>3. MailTypes'
    BY <1>2 DEF MailInv, MailTypes, MailJobs
  <1>4. MailIds'
    <2>1. \A j \in new : j[1] = "mail" /\ j[2] = c
      BY DEF Message
    <2>2. \A d, u : Message(d, u)' = Message(d, u)
      BY DEF Message
    <2>3. QED
      BY <1>1, <1>2, <2>1, <2>2 DEF MailInv, MailIds, MailOps
  <1>5. LogRows' /\ OpenRows'
    BY <1>1, <1>2 DEF MailInv, LogRows, OpenRows
  <1>6. ASSUME NEW j \in MailJobs
        PROVE  JobInv(j)'
    <2>1. LogGrows /\ OnlyOpened(j)
      BY SameLog DEF MailInv
    <2>2. jobs'[j] = jobs[j] /\ JobInv(j) /\ mail'[j] = mail[j]
      BY <1>2 DEF MailInv, MailIds
    <2>3. QED
      BY <2>1, <2>2, JobStays DEF MailInv
  <1>7. ASSUME NEW j \in new
        PROVE  JobInv(j)'
    <2>1. jobs'[j] = NewJob /\ j \notin MailJobs
      BY <1>2
    <2>2. Abandoned(j)' = {}
      BY <2>1 DEF Abandoned, MailInv, LogRows
    <2>3. Cardinality(Abandoned(j)') = 0
      BY <2>2, FS_EmptySet
    <2>4. j \notin DOMAIN chosenFor'
      BY <2>1 DEF MailInv, MailTypes
    <2>5. QED
      BY <2>1, <2>3, <2>4 DEF JobInv, NewJob
  <1>8. QED
    BY <1>2, <1>3, <1>4, <1>5, <1>6, <1>7 DEF MailInv

LEMMA EnqueueInv ==
  ASSUME RequestInv, MailInv, NEW c \in Come, Enqueue(c)
  PROVE  MailInv'
  <1>1. sent[c] = Input[c] /\ c \in Calls
    BY DEF RequestInv
  <1>2. CASE Op(c) = "notify"
    <2> DEFINE m == Message(c, sent[c].user)
    <2>1. m \in JobIds /\ sent[c].user \in Recipients
      BY <1>1, <1>2, NotifierAssumption DEF Op
    <2>2. /\ pc[c] = "start" /\ Goto(c, "done") /\ UNCHANGED <<saw, prefs, sending, log, chosenFor>>
          /\ mail' = Put(mail, m, [user |-> sent[c].user, to |-> sent[c].to])
          /\ jobs' = Added(m)
      BY <1>2 DEF Enqueue, Move, Forget
    <2>3. m \notin MailJobs
      BY <2>2 DEF MailInv, MailIds, Message
    <2>4. jobs[m] = NoJob
      BY <2>1, <2>3 DEF MailInv, MailIds, Message
    <2>5. jobs = [x \in JobIds |-> jobs[x]] /\ mail = [j \in MailJobs |-> mail[j]]
      BY DEF MailInv, MailTypes
    <2> DEFINE new == {m}
    <2>6. /\ new \subseteq JobIds /\ \A j \in new : \E u \in Recipients : j = Message(c, u)
      BY <2>1
    <2> HIDE DEF m
    <2>7. /\ DOMAIN mail' = MailJobs \union new /\ mail' = [j \in DOMAIN mail' |-> mail'[j]]
          /\ \A j \in MailJobs : mail'[j] = mail[j]
          /\ \A j \in new : mail'[j].user \in Recipients
      BY <2>1, <2>2, <2>3 DEF Put, MailJobs
    <2>8. /\ jobs' = [x \in JobIds |-> jobs'[x]]
          /\ \A x \in JobIds : jobs'[x] = IF x \in new THEN NewJob ELSE jobs[x]
      BY <2>1, <2>2, <2>4, <2>5 DEF Added
    <2> HIDE DEF new
    <2>9. QED
      BY <1>2, <2>2, <2>6, <2>7, <2>8, MessagesQueued
  <1>3. CASE Op(c) = "broadcast" /\ sent[c].super
    <2> DEFINE users == Audience[sent[c].audience]
               new == {Message(c, u) : u \in users}
    <2>1. new \subseteq JobIds /\ \A u \in users : u \in Recipients
      BY <1>1, <1>3, NotifierAssumption DEF Op
    <2>2. /\ pc[c] = "start" /\ Goto(c, "done") /\ UNCHANGED <<saw, prefs, sending, log, chosenFor>>
          /\ mail' = Updated(mail, [j \in new |-> [user |-> j[3], to |-> sent[c].to]])
          /\ jobs' = [j \in JobIds |-> IF \E u \in users : j = Message(c, u) THEN NewJob ELSE jobs[j]]
      BY <1>3 DEF Enqueue, Move, Forget
    <2>3. \A j \in new : j \notin MailJobs /\ j[3] \in Recipients
      BY <2>1, <2>2 DEF MailInv, MailIds, Message
    <2>4. \A j \in new : \E u \in Recipients : j = Message(c, u)
      BY <2>1
    <2>5. /\ jobs' = [x \in JobIds |-> jobs'[x]]
          /\ \A x \in JobIds : jobs'[x] = IF x \in new THEN NewJob ELSE jobs[x]
      BY <2>2
    <2> HIDE DEF new
    <2>6. /\ DOMAIN mail' = MailJobs \union new /\ mail' = [j \in DOMAIN mail' |-> mail'[j]]
          /\ \A j \in MailJobs : mail'[j] = mail[j]
          /\ \A j \in new : mail'[j].user \in Recipients
      BY <2>2, <2>3 DEF Updated, MailJobs
    <2>7. QED
      BY <1>3, <2>1, <2>2, <2>4, <2>5, <2>6, MessagesQueued
  <1>4. CASE Op(c) = "broadcast" /\ ~sent[c].super
    <2>1. /\ pc[c] = "start" /\ Goto(c, "refused")
          /\ UNCHANGED <<saw, prefs, mail, sending, log, chosenFor, jobs>>
      BY <1>4 DEF Enqueue, Move, Forget
    <2>2. QED
      BY <1>4, <2>1, MailGoesOn
  <1>5. QED
    BY <1>2, <1>3, <1>4 DEF Enqueue

LEMMA PreferenceInv ==
  ASSUME RequestInv, MailInv, NEW c \in Come, Op(c) = "preference", PutPreference(c)
  PROVE  MailInv'
  <1> DEFINE u == sent[c].user
             ch == sent[c].channel
  <1>1. sent[c] = Input[c] /\ c \in Calls
    BY DEF RequestInv
  <1>2. ch \in Channels
    BY <1>1, NotifierAssumption DEF Op
  <1>3. /\ pc[c] = "start" /\ Goto(c, "done") /\ UNCHANGED <<saw, mail, sending, log, chosenFor, jobs>>
        /\ prefs' = [prefs EXCEPT ![u] = Put(@, ch, sent[c].enabled)]
    BY DEF PutPreference, Move, Forget
  <1>4. /\ Come' = Come /\ UNCHANGED sent /\ pc'[c] = "done"
        /\ \A d \in Come : Op(d)' = Op(d) /\ (d # c => pc'[d] = pc[d])
    BY <1>3, OnlyGoes
  <1>5. MailTypes'
    <2>1. prefs' = [v \in Recipients |-> prefs'[v]]
      BY <1>3 DEF MailInv, MailTypes
    <2>2. ASSUME NEW v \in Recipients
          PROVE  DOMAIN prefs'[v] \subseteq Channels
      <3>1. DOMAIN prefs[v] \subseteq Channels
        BY DEF MailInv, MailTypes
      <3>2. CASE v = u
        <4>1. prefs'[v] = Put(prefs[v], ch, sent[c].enabled)
          BY <1>3, <3>2 DEF MailInv, MailTypes
        <4>2. QED
          BY <1>2, <3>1, <4>1 DEF Put
      <3>3. CASE v # u
        BY <1>3, <3>1, <3>3 DEF MailInv, MailTypes
      <3>4. QED
        BY <3>2, <3>3
    <2>3. QED
      BY <1>3, <2>1, <2>2 DEF MailInv, MailTypes, MailJobs
  <1>6. MailJobs' = MailJobs
    BY <1>3 DEF MailJobs
  <1>7. MailIds'
    <2>1. \A d, v : Message(d, v)' = Message(d, v)
      BY DEF Message
    <2>2. QED
      BY <1>3, <1>4, <1>6, <2>1 DEF MailInv, MailIds
  <1>8. LogRows' /\ OpenRows'
    BY <1>3, <1>4, <1>6 DEF MailInv, LogRows, OpenRows
  <1>9. ASSUME NEW j \in MailJobs
        PROVE  JobInv(j)'
    <2>1. LogGrows /\ OnlyOpened(j)
      BY <1>3, SameLog DEF MailInv
    <2>2. QED
      BY <1>3, <2>1, JobStays DEF MailInv
  <1>10. QED
    BY <1>5, <1>6, <1>7, <1>8, <1>9 DEF MailInv

\* The log after the status of one row was written.
LEMMA RowWritten ==
  ASSUME MailTypes, NEW r \in DOMAIN log, NEW s \in Statuses, log' = [log EXCEPT ![r].status = s]
  PROVE  /\ log' \in Seq(LogRow) /\ DOMAIN log' = DOMAIN log
         /\ \A i \in DOMAIN log : i # r => log'[i] = log[i]
         /\ log'[r].job = log[r].job /\ log'[r].channel = log[r].channel /\ log'[r].status = s
  <1>1. log \in Seq(LogRow) /\ log[r] \in LogRow
    BY DEF MailTypes
  <1>2. [log[r] EXCEPT !.status = s] \in LogRow
    BY <1>1 DEF LogRow
  <1>3. log' = [log EXCEPT ![r] = [log[r] EXCEPT !.status = s]]
    OBVIOUS
  <1>4. log'[r] = [log[r] EXCEPT !.status = s]
    BY <1>1, <1>3
  <1>5. log'[r].job = log[r].job /\ log'[r].channel = log[r].channel /\ log'[r].status = s
    BY <1>1, <1>4 DEF LogRow
  <1>6. log' \in Seq(LogRow) /\ DOMAIN log' = DOMAIN log /\ \A i \in DOMAIN log : i # r => log'[i] = log[i]
    BY <1>1, <1>2, <1>3
  <1>7. QED
    BY <1>5, <1>6

LEMMA OpenInv ==
  ASSUME RequestInv, MailInv, NEW c \in Come, Op(c) = "opened", OpenWrite(c)
  PROVE  MailInv'
  <1> DEFINE r == saw[c].row
  <1>1. /\ pc[c] = "open" /\ Goto(c, "done") /\ UNCHANGED <<saw, prefs, mail, sending, chosenFor, jobs>>
        /\ log' = [log EXCEPT ![r].status = "OPENED"]
    BY DEF OpenWrite, Move, Forget
  <1>2. r \in DOMAIN log /\ log[r].channel = "IN_APP" /\ MailTypes
    BY <1>1 DEF MailInv, OpenRows
  <1> HIDE DEF r
  <1>3. /\ log' \in Seq(LogRow) /\ DOMAIN log' = DOMAIN log
        /\ \A i \in DOMAIN log : i # r => log'[i] = log[i]
        /\ log'[r].job = log[r].job /\ log'[r].channel = log[r].channel /\ log'[r].status = "OPENED"
    BY <1>1, <1>2, RowWritten DEF Statuses
  <1>4. LogGrows /\ \A j : OnlyOpened(j)
    BY <1>2, <1>3 DEF LogGrows, OnlyOpened
  <1>5. /\ Come' = Come /\ UNCHANGED sent /\ pc'[c] = "done"
        /\ \A d \in Come : Op(d)' = Op(d) /\ (d # c => pc'[d] = pc[d])
    BY <1>1, OnlyGoes
  <1>6. MailTypes' /\ MailJobs' = MailJobs
    BY <1>1, <1>2, <1>3 DEF MailTypes, MailJobs
  <1>7. MailIds'
    <2>1. \A d, v : Message(d, v)' = Message(d, v)
      BY DEF Message
    <2>2. QED
      BY <1>1, <1>5, <1>6, <2>1 DEF MailInv, MailIds
  <1>8. LogRows'
    BY <1>1, <1>2, <1>3, <1>6 DEF MailInv, LogRows
  <1>9. OpenRows'
    BY <1>1, <1>3, <1>4, <1>5 DEF MailInv, OpenRows, LogGrows
  <1>10. ASSUME NEW j \in MailJobs
         PROVE  JobInv(j)'
    BY <1>1, <1>2, <1>4, JobStays DEF MailInv
  <1>11. QED
    BY <1>6, <1>7, <1>8, <1>9, <1>10 DEF MailInv

LEMMA MailStepInv ==
  ASSUME RequestInv, MailInv, NEW c \in Come, MailStep(c)
  PROVE  MailInv'
  <1>1. CASE Op(c) = "opened" /\ OpenRead(c)
    <2>1. CASE Goto(c, "refused") /\ Forget
      BY <1>1, <2>1, MailGoesOn DEF OpenRead, Forget, mailVars
    <2>2. CASE \E i \in DOMAIN log : /\ log[i].channel = "IN_APP"
                                     /\ Goto(c, "open") /\ Keep(c, [row |-> i])
      <3>1. PICK i \in DOMAIN log : /\ log[i].channel = "IN_APP"
                                    /\ Goto(c, "open") /\ Keep(c, [row |-> i])
        BY <2>2
      <3>2. saw'[c].row = i /\ \A d \in Come : d # c => saw'[d] = saw[d]
        BY <3>1 DEF Keep, RequestInv
      <3>3. UNCHANGED <<prefs, mail, sending, log, chosenFor, jobs>>
        BY <1>1 DEF OpenRead, mailVars
      <3>4. QED
        BY <3>1, <3>2, <3>3, MailGoesOn
    <2>3. QED
      BY <1>1, <2>1, <2>2 DEF OpenRead
  <1>2. CASE Op(c) = "opened" /\ OpenWrite(c)
    BY <1>2, OpenInv
  <1>3. CASE Op(c) = "preference" /\ PutPreference(c)
    BY <1>3, PreferenceInv
  <1>4. QED
    BY <1>1, <1>2, <1>3, EnqueueInv DEF MailStep

\* A step of the worker on the job j, as far as the other jobs go.
LEMMA WorkInv ==
  ASSUME RequestInv, MailInv, NEW j \in MailJobs, UNCHANGED <<request, prefs, mail>>,
         MailTypes', LogRows', LogGrows, JobInv(j)',
         \A k \in MailJobs : k # j =>
             /\ OnlyOpened(k)
             /\ k \in DOMAIN sending => k \in DOMAIN sending' /\ sending'[k] = sending[k]
             /\ k \in DOMAIN chosenFor' => k \in DOMAIN chosenFor /\ chosenFor'[k] = chosenFor[k],
         \A k \in JobIds : k # j => jobs'[k] = jobs[k]
  PROVE  MailInv'
  <1>1. UNCHANGED <<sent, pc, saw>> /\ Come' = Come /\ MailJobs' = MailJobs
    BY DEF request, Come, MailJobs
  <1>2. MailIds'
    <2>1. \A d, v : Message(d, v)' = Message(d, v)
      BY DEF Message
    <2>2. QED
      BY <1>1, <2>1 DEF MailInv, MailIds, Op
  <1>3. OpenRows'
    BY <1>1 DEF MailInv, OpenRows, LogGrows, Op
  <1>4. ASSUME NEW k \in MailJobs, k # j
        PROVE  JobInv(k)'
    <2>1. k \in JobIds
      BY DEF MailInv, MailIds
    <2>2. QED
      BY <1>4, <2>1, JobStays DEF MailInv
  <1>5. QED
    BY <1>1, <1>2, <1>3, <1>4 DEF MailInv

\* The channels are tried in the order the rows come, whatever it is.
LEMMA ChannelOrder ==
  ASSUME MailTypes, NEW u \in Recipients, NEW order \in SetToSeqs(ResolveChannels(u))
  PROVE  order \in Seq(Channels) /\ Len(order) \in Nat
  <1> DEFINE S == ResolveChannels(u)
  <1>1. S \in SUBSET Channels
    BY NotifierAssumption DEF MailTypes, ResolveChannels
  <1> HIDE DEF S
  <1>2. Cardinality(S) \in Nat
    BY <1>1, NotifierAssumption, FS_Subset, FS_CardinalityType
  <1>3. order \in [1 .. Cardinality(S) -> S]
    BY DEF SetToSeqs, S
  <1>4. QED
    BY <1>1, <1>2, <1>3

LEMMA StartInv ==
  ASSUME RequestInv, MailInv, NEW j \in MailJobs, DispatchStart(j), UNCHANGED request
  PROVE  MailInv'
  <1>1. j \in JobIds /\ mail[j].user \in Recipients /\ JobInv(j) /\ MailTypes
    BY DEF MailInv, MailIds, MailTypes
  <1>2. PICK order \in SetToSeqs(ResolveChannels(mail[j].user)) :
            sending' = Put(sending, j, [order |-> order, i |-> 1, row |-> 0, sms |-> FALSE])
    BY DEF DispatchStart
  <1>3. order \in Seq(Channels) /\ Len(order) \in Nat
    BY <1>1, ChannelOrder
  <1>4. /\ jobs[j].state = "waiting" /\ jobs' = Taken(j, "channel")
        /\ UNCHANGED <<prefs, mail, log, chosenFor>>
    BY DEF DispatchStart
  <1>5. /\ jobs' = [x \in JobIds |-> jobs'[x]] /\ \A k \in JobIds : k # j => jobs'[k] = jobs[k]
        /\ jobs'[j] = [state |-> "active", tries |-> jobs[j].tries, at |-> "channel"]
    BY <1>1, <1>4 DEF Taken, MailTypes
  <1>6. /\ sending' = [k \in DOMAIN sending' |-> sending'[k]]
        /\ sending'[j] = [order |-> order, i |-> 1, row |-> 0, sms |-> FALSE]
        /\ j \in DOMAIN sending'
        /\ \A k \in DOMAIN sending : k # j => k \in DOMAIN sending' /\ sending'[k] = sending[k]
    BY <1>2 DEF Put
  <1>7. MailTypes' /\ LogRows'
    BY <1>1, <1>4, <1>5, <1>6 DEF MailInv, MailTypes, LogRows, MailJobs
  <1>8. LogGrows /\ \A k : OnlyOpened(k)
    BY <1>1, <1>4, SameLog
  <1>9. JobInv(j)'
    <2>1. Attempt(j)'
      <3>1. sending'[j] \in Attempted
        BY <1>3, <1>6 DEF Attempted
      <3>2. QED
        BY <1>3, <1>5, <1>6, <3>1 DEF Attempt
    <2>2. Abandoned(j)' = Abandoned(j)
      BY <1>4, <1>5 DEF Abandoned, Held
    <2>3. QED
      BY <1>1, <1>4, <1>5, <2>1, <2>2 DEF JobInv
  <1>10. QED
    BY <1>4, <1>5, <1>6, <1>7, <1>8, <1>9, WorkInv

LEMMA SkipInv ==
  ASSUME RequestInv, MailInv, NEW j \in MailJobs, SkipChannel(j), UNCHANGED request
  PROVE  MailInv'
  <1> DEFINE s == sending[j]
  <1>1. j \in JobIds /\ JobInv(j) /\ MailTypes /\ Attempt(j)
    BY DEF MailInv, MailIds, JobInv, SkipChannel, Held
  <1>2. s \in Attempted /\ j \in DOMAIN sending
    BY <1>1 DEF Attempt
  <1>3. /\ sending' = [sending EXCEPT ![j].i = @ + 1] /\ Channel(j) \notin mail[j].to
        /\ jobs[j].state = "active" /\ jobs[j].at = "channel"
        /\ ~Over(j) /\ UNCHANGED <<prefs, mail, log, chosenFor, jobs>>
    BY DEF SkipChannel, Held
  <1>4. ~s.sms /\ s.i <= Len(s.order)
    BY <1>1, <1>2, <1>3 DEF Attempt, Channel, Over, Attempted
  <1>5. /\ sending' = [k \in DOMAIN sending' |-> sending'[k]] /\ DOMAIN sending' = DOMAIN sending
        /\ sending'[j] = [order |-> s.order, i |-> s.i + 1, row |-> s.row, sms |-> FALSE]
        /\ \A k \in DOMAIN sending : k # j => sending'[k] = sending[k]
    BY <1>1, <1>2, <1>3, <1>4 DEF MailTypes, Attempted
  <1>6. MailTypes' /\ LogRows'
    BY <1>1, <1>3, <1>5 DEF MailInv, MailTypes, LogRows, MailJobs
  <1>7. LogGrows /\ \A k : OnlyOpened(k)
    BY <1>1, <1>3, SameLog
  <1>8. Attempt(j)'
    <2>1. sending'[j] \in Attempted
      BY <1>2, <1>4, <1>5 DEF Attempted
    <2>2. ASSUME NEW k \in 1 .. s.i
          PROVE  Reached(j, s.order[k])'
      <3>1. CASE k = s.i
        BY <1>3, <1>4, <3>1 DEF Reached, Channel
      <3>2. CASE k # s.i
        <4>1. k \in 1 .. s.i - 1
          BY <1>2, <3>2 DEF Attempted
        <4>2. Reached(j, s.order[k])
          BY <1>1, <4>1 DEF Attempt
        <4>3. QED
          BY <1>3, <1>7, <4>2, ReachedStays
      <3>3. QED
        BY <3>1, <3>2
    <2>3. sending'[j].i - 1 = s.i /\ sending'[j].i <= Len(s.order) + 1 /\ sending'[j].order = s.order
      BY <1>2, <1>4, <1>5 DEF Attempted
    <2>4. QED
      BY <1>2, <1>3, <1>5, <2>1, <2>2, <2>3 DEF Attempt
  <1>9. JobInv(j)'
    <2>1. Abandoned(j)' = Abandoned(j)
      BY <1>3 DEF Abandoned, Held
    <2>2. QED
      BY <1>1, <1>3, <1>8, <2>1 DEF JobInv
  <1>10. QED
    BY <1>3, <1>5, <1>6, <1>7, <1>9, WorkInv

LEMMA QueuedInv ==
  ASSUME RequestInv, MailInv, NEW j \in MailJobs, LogQueued(j), UNCHANGED request
  PROVE  MailInv'
  <1> DEFINE s == sending[j]
             n == Len(log) + 1
             row == [job |-> j, channel |-> Channel(j), status |-> "QUEUED"]
  <1>1. j \in JobIds /\ JobInv(j) /\ MailTypes /\ Attempt(j)
    BY DEF MailInv, MailIds, JobInv, LogQueued, Held
  <1>2. s \in Attempted /\ j \in DOMAIN sending
    BY <1>1 DEF Attempt
  <1>3. /\ sending' = [sending EXCEPT ![j].row = n] /\ Channel(j) \in mail[j].to
        /\ jobs[j].state = "active" /\ jobs[j].at = "channel" /\ jobs' = Taken(j, "send")
        /\ log' = Append(log, row)
        /\ ~Over(j) /\ UNCHANGED <<prefs, mail, chosenFor>>
    BY DEF LogQueued, Held
  <1>4. s.i \in 1 .. Len(s.order) /\ Channel(j) \in Channels
    BY <1>2, <1>3, NotifierAssumption DEF Over, Attempted, Channel
  <1>5. /\ log' \in Seq(LogRow) /\ DOMAIN log' = DOMAIN log \union {n} /\ log'[n] = row
        /\ n \notin DOMAIN log /\ n \in Nat
        /\ \A i \in DOMAIN log : log'[i] = log[i]
    <2>1. log \in Seq(LogRow) /\ row \in LogRow
      BY <1>1, <1>4 DEF MailTypes, LogRow, Statuses
    <2> HIDE DEF row
    <2>2. QED
      BY <1>3, <2>1
  <1>6. /\ sending' = [k \in DOMAIN sending' |-> sending'[k]] /\ DOMAIN sending' = DOMAIN sending
        /\ sending'[j] = [order |-> s.order, i |-> s.i, row |-> n, sms |-> s.sms]
        /\ \A k \in DOMAIN sending : k # j => sending'[k] = sending[k]
    BY <1>1, <1>2, <1>3 DEF MailTypes, Attempted
  <1>7. /\ jobs' = [x \in JobIds |-> jobs'[x]] /\ \A k \in JobIds : k # j => jobs'[k] = jobs[k]
        /\ jobs'[j] = [state |-> "active", tries |-> jobs[j].tries, at |-> "send"]
    BY <1>1, <1>3 DEF Taken, MailTypes
  <1>8. MailTypes'
    BY <1>1, <1>3, <1>5, <1>6, <1>7 DEF MailTypes, MailJobs
  <1>9. LogRows' /\ LogGrows /\ \A k : k # j => OnlyOpened(k)
    BY <1>3, <1>5 DEF MailInv, LogRows, MailJobs, LogGrows, OnlyOpened
  <1>10. Attempt(j)'
    <2>1. sending'[j] \in Attempted
      BY <1>2, <1>5, <1>6 DEF Attempted
    <2> HIDE DEF n, row
    <2>2. PICK order : order = s.order
      OBVIOUS
    <2>3. ASSUME NEW k \in 1 .. s.i - 1
          PROVE  Reached(j, order[k])'
      <3>1. Reached(j, order[k])
        BY <1>1, <2>2 DEF Attempt
      <3>2. QED
        BY <1>3, <1>9, <3>1, ReachedStays
    <2>4. s.sms => Answered(j, "WHATSAPP")' /\ order[s.i] = "WHATSAPP" /\ "SMS" \in mail[j].to
      <3>1. s.sms => Answered(j, "WHATSAPP") /\ order[s.i] = "WHATSAPP" /\ "SMS" \in mail[j].to
        BY <1>1, <2>2 DEF Attempt
      <3>2. QED
        BY <1>3, <1>9, <3>1, ReachedStays
    <2>5. Channel(j)' = Channel(j)
      BY <1>6 DEF Channel
    <2>6. s.i <= Len(order) /\ s.i <= Len(order) + 1
      BY <1>2, <1>4, <2>2 DEF Attempted
    <2>7. /\ n \in DOMAIN log' /\ log'[n].job = j /\ log'[n].channel = Channel(j)'
          /\ log'[n].status = "QUEUED"
      BY <1>5, <2>5 DEF row
    <2>8. /\ sending'[j].order = order /\ sending'[j].i = s.i /\ sending'[j].row = n
          /\ sending'[j].sms = s.sms
      BY <1>6, <2>2
    <2>9. QED
      BY <1>2, <1>3, <1>6, <1>7, <2>1, <2>3, <2>4, <2>6, <2>7, <2>8 DEF Attempt
  <1>11. JobInv(j)'
    <2>1. Abandoned(j)' = Abandoned(j)
      BY <1>3, <1>5, <1>6, <1>7 DEF Abandoned, Held
    <2>2. QED
      BY <1>1, <1>3, <1>7, <1>10, <2>1 DEF JobInv
  <1>12. QED
    BY <1>3, <1>6, <1>7, <1>8, <1>9, <1>11, WorkInv

LEMMA ResultInv ==
  ASSUME RequestInv, MailInv, NEW j \in MailJobs, LogResult(j), UNCHANGED request
  PROVE  MailInv'
  <1> DEFINE s == sending[j]
             failover(ok) == ~ok /\ Channel(j) = "WHATSAPP" /\ "SMS" \in mail[j].to
  <1>1. j \in JobIds /\ JobInv(j) /\ MailTypes /\ Attempt(j)
    BY DEF MailInv, MailIds, JobInv, LogResult, Held
  <1>2. s \in Attempted /\ j \in DOMAIN sending
    BY <1>1 DEF Attempt
  <1>3. /\ jobs[j].state = "active" /\ jobs[j].at = "send" /\ jobs' = Taken(j, "channel")
        /\ UNCHANGED <<prefs, mail, chosenFor>>
    BY DEF LogResult, Held
  <1>4. PICK ok \in BOOLEAN :
            /\ log' = [log EXCEPT ![s.row].status = IF ok THEN "SENT" ELSE "FAILED"]
            /\ sending' = [sending EXCEPT ![j].sms = failover(ok),
                                          ![j].i = IF failover(ok) THEN @ ELSE @ + 1]
    BY DEF LogResult
  <1>5. PICK r, order, i, ch : r = s.row /\ order = s.order /\ i = s.i /\ ch = Channel(j)
    OBVIOUS
  <1>6. /\ r \in DOMAIN log /\ log[r].job = j /\ log[r].channel = ch
        /\ log[r].status \in {"QUEUED", "OPENED"}
        /\ i \in 1 .. Len(order) /\ Len(order) \in Nat /\ i \in Nat
    BY <1>1, <1>2, <1>3, <1>5 DEF Attempt, Attempted
  <1>7. PICK w \in {"SENT", "FAILED"} : w = IF ok THEN "SENT" ELSE "FAILED"
    OBVIOUS
  <1>8. /\ log' \in Seq(LogRow) /\ DOMAIN log' = DOMAIN log
        /\ \A k \in DOMAIN log : k # r => log'[k] = log[k]
        /\ log'[r].job = j /\ log'[r].channel = ch /\ log'[r].status = w
    BY <1>1, <1>4, <1>5, <1>6, <1>7, RowWritten DEF Statuses
  <1>9. PICK over \in BOOLEAN : over = failover(ok)
    BY DEF failover
  <1> HIDE DEF failover
  <1>10. /\ sending' = [k \in DOMAIN sending' |-> sending'[k]] /\ DOMAIN sending' = DOMAIN sending
         /\ sending'[j] \in Attempted /\ sending'[j].order = order /\ sending'[j].sms = over
         /\ sending'[j].i = IF over THEN i ELSE i + 1
         /\ \A k \in DOMAIN sending : k # j => sending'[k] = sending[k]
    <2>1. sending' = [sending EXCEPT ![j].sms = over, ![j].i = IF over THEN @ ELSE @ + 1]
      BY <1>4, <1>9
    <2>3. sending = [k \in DOMAIN sending |-> sending[k]]
      BY <1>1 DEF MailTypes
    <2>4. sending' = [k \in DOMAIN sending |-> IF k = j THEN sending'[j] ELSE sending[k]]
      BY <2>1, <2>3
    <2>5. sending'[j] = [s EXCEPT !.sms = over, !.i = IF over THEN i ELSE i + 1]
      BY <1>2, <1>5, <2>1, <2>3
    <2>6. PICK n : n = IF over THEN i ELSE i + 1
      OBVIOUS
    <2>7. n \in Nat \ {0}
      BY <1>6, <2>6
    <2>8. [s EXCEPT !.sms = over, !.i = n] \in Attempted
      BY <1>2, <2>7 DEF Attempted
    <2>9. /\ [s EXCEPT !.sms = over, !.i = n].order = order
          /\ [s EXCEPT !.sms = over, !.i = n].sms = over
          /\ [s EXCEPT !.sms = over, !.i = n].i = n
      BY <1>2, <1>5 DEF Attempted
    <2>10. QED
      BY <1>2, <2>4, <2>5, <2>6, <2>8, <2>9
  <1>11. /\ jobs' = [x \in JobIds |-> jobs'[x]] /\ \A k \in JobIds : k # j => jobs'[k] = jobs[k]
         /\ jobs'[j] = [state |-> "active", tries |-> jobs[j].tries, at |-> "channel"]
    BY <1>1, <1>3 DEF Taken, MailTypes
  <1>12. MailTypes'
    BY <1>1, <1>3, <1>8, <1>10, <1>11 DEF MailTypes, MailJobs
  <1>13. LogRows' /\ LogGrows /\ \A k : k # j => OnlyOpened(k)
    BY <1>3, <1>6, <1>8 DEF MailInv, LogRows, MailJobs, LogGrows, OnlyOpened
  <1>14. Answered(j, ch)'
    BY <1>6, <1>8 DEF Answered
  <1>15. over = (~ok /\ ch = "WHATSAPP" /\ "SMS" \in mail[j].to)
    BY <1>5, <1>9 DEF failover
  <1>16. /\ s.sms => /\ order[i] = "WHATSAPP" /\ ch = "SMS" /\ Answered(j, "WHATSAPP")'
         /\ ~s.sms => ch = order[i]
    <2>1. /\ s.sms => /\ order[i] = "WHATSAPP" /\ ch = "SMS" /\ Answered(j, "WHATSAPP")
          /\ ~s.sms => ch = order[i]
      BY <1>1, <1>5 DEF Attempt, Channel
    <2>2. QED
      BY <1>3, <1>13, <2>1, ReachedStays
  <1>17. ch = "SMS" \/ (ch = "WHATSAPP" /\ ~over) => Followed(j)'
    <2>1. CASE ch = "SMS"
      BY <1>6, <1>8, <2>1 DEF Followed
    <2>2. CASE ch = "WHATSAPP" /\ "SMS" \notin mail[j].to
      BY <1>3, <2>2 DEF Followed
    <2>3. CASE ch = "WHATSAPP" /\ ok
      BY <1>6, <1>7, <1>8, <2>3 DEF Followed
    <2>4. QED
      BY <1>15, <2>1, <2>2, <2>3
  <1>18. ~over => Reached(j, order[i])'
    <2>1. PICK x : x = order[i]
      OBVIOUS
    <2>2. ~over => Reached(j, x)'
      <3>1. ASSUME ~over, s.sms
            PROVE  Answered(j, x)' /\ Followed(j)'
        <4>1. x = "WHATSAPP" /\ Answered(j, "WHATSAPP")' /\ ch = "SMS"
          BY <1>16, <2>1, <3>1
        <4>2. Followed(j)'
          BY <1>17, <4>1
        <4>3. QED
          BY <4>1, <4>2
      <3>2. ASSUME ~over, ~s.sms
            PROVE  Answered(j, x)' /\ (x = "WHATSAPP" => Followed(j)')
        BY <1>14, <1>16, <1>17, <2>1, <3>2
      <3>3. QED
        BY <3>1, <3>2 DEF Reached
    <2>3. QED
      BY <2>1, <2>2
  <1>19. over => order[i] = "WHATSAPP" /\ Answered(j, "WHATSAPP")' /\ "SMS" \in mail[j].to
    <2> SUFFICES ASSUME over
                 PROVE  order[i] = "WHATSAPP" /\ Answered(j, "WHATSAPP")' /\ "SMS" \in mail[j].to
      OBVIOUS
    <2>1. ch = "WHATSAPP" /\ "SMS" \in mail[j].to
      BY <1>15
    <2>2. ~s.sms
      BY <1>16, <2>1
    <2>3. order[i] = "WHATSAPP"
      BY <1>16, <2>1, <2>2
    <2>4. Answered(j, "WHATSAPP")'
      BY <1>14, <2>1
    <2>5. QED
      BY <2>1, <2>3, <2>4
  <1>20. ASSUME NEW k \in 1 .. i - 1
         PROVE  Reached(j, order[k])'
    <2>1. Reached(j, order[k])
      BY <1>1, <1>5, <1>20 DEF Attempt
    <2>2. QED
      BY <1>3, <1>13, <2>1, ReachedStays
  <1>21. Attempt(j)'
    <2> DEFINE n == IF over THEN i ELSE i + 1
    <2>1. sending'[j] \in Attempted /\ n <= Len(order) + 1
      BY <1>2, <1>5, <1>6, <1>10 DEF Attempted
    <2>2. ASSUME NEW k \in 1 .. n - 1
          PROVE  Reached(j, order[k])'
      <3>1. CASE k = i
        BY <1>6, <1>18, <2>2, <3>1
      <3>2. CASE k # i
        BY <1>6, <1>20, <2>2, <3>2
      <3>3. QED
        BY <3>1, <3>2
    <2>3. /\ sending'[j].order = order /\ sending'[j].i = n /\ sending'[j].sms = over
          /\ over => n = i
      BY <1>10
    <2> HIDE DEF n
    <2>4. QED
      BY <1>2, <1>3, <1>6, <1>10, <1>11, <1>19, <2>1, <2>2, <2>3 DEF Attempt
  <1>22. JobInv(j)'
    <2>1. Abandoned(j)' = Abandoned(j)
      <3>1. Held(j, "send") /\ ~Held(j, "send")'
        BY <1>3, <1>11 DEF Held
      <3>2. sending[j].row = r
        BY <1>5
      <3>3. QED
        BY <1>6, <1>7, <1>8, <3>1, <3>2 DEF Abandoned
    <2>2. QED
      BY <1>1, <1>3, <1>11, <1>21, <2>1 DEF JobInv
  <1>23. QED
    BY <1>3, <1>10, <1>11, <1>12, <1>13, <1>22, WorkInv

LEMMA EndInv ==
  ASSUME RequestInv, MailInv, NEW j \in MailJobs, DispatchEnd(j), UNCHANGED request
  PROVE  MailInv'
  <1> DEFINE s == sending[j]
  <1>1. j \in JobIds /\ JobInv(j) /\ MailTypes /\ Attempt(j)
    BY DEF MailInv, MailIds, JobInv, DispatchEnd, Held
  <1>2. PICK order : order = s.order /\ order \in Seq(Channels)
    BY <1>1 DEF Attempt, Attempted
  <1>3. /\ jobs[j].state = "active" /\ jobs[j].at = "channel" /\ jobs' = Finished(j)
        /\ chosenFor' = Put(chosenFor, j, ToSet(order))
        /\ s.i > Len(order) /\ UNCHANGED <<prefs, mail, sending, log>>
    BY <1>2 DEF DispatchEnd, Held, Over
  <1>4. /\ jobs' = [x \in JobIds |-> jobs'[x]] /\ \A k \in JobIds : k # j => jobs'[k] = jobs[k]
        /\ jobs'[j] = [state |-> "completed", tries |-> jobs[j].tries, at |-> "start"]
    BY <1>1, <1>3 DEF Finished, MailTypes
  <1>5. /\ chosenFor' = [k \in DOMAIN chosenFor' |-> chosenFor'[k]]
        /\ DOMAIN chosenFor' = DOMAIN chosenFor \union {j} /\ chosenFor'[j] = ToSet(order)
        /\ \A k \in DOMAIN chosenFor' : k # j => k \in DOMAIN chosenFor /\ chosenFor'[k] = chosenFor[k]
    BY <1>3 DEF Put
  <1>6. MailTypes' /\ LogRows'
    BY <1>1, <1>3, <1>4, <1>5 DEF MailInv, MailTypes, LogRows, MailJobs
  <1>7. LogGrows /\ \A k : OnlyOpened(k)
    BY <1>1, <1>3, SameLog
  <1>8. ASSUME NEW ch \in ToSet(order)
        PROVE  Reached(j, ch)'
    <2>1. PICK k \in DOMAIN order : ch = order[k]
      BY DEF ToSet
    <2>2. k \in 1 .. s.i - 1
      BY <1>1, <1>2, <1>3 DEF Attempt, Attempted
    <2>3. Reached(j, ch)
      BY <1>1, <1>2, <2>1, <2>2 DEF Attempt
    <2>4. QED
      BY <1>3, <1>7, <2>3, ReachedStays
  <1>9. JobInv(j)'
    <2>1. Abandoned(j)' = Abandoned(j)
      BY <1>3, <1>4 DEF Abandoned, Held
    <2>2. QED
      BY <1>1, <1>4, <1>5, <1>8, <2>1 DEF JobInv
  <1>10. QED
    BY <1>3, <1>4, <1>5, <1>6, <1>7, <1>9, WorkInv

\* The worker dies: the row it waited for is one more without an answer.
LEMMA FailInv ==
  ASSUME RequestInv, MailInv, NEW j \in MailJobs, JobFails(j), UNCHANGED <<request, mailVars>>
  PROVE  MailInv'
  <1>1. j \in JobIds /\ JobInv(j) /\ MailTypes /\ jobs[j].state = "active" /\ Attempt(j)
    BY DEF MailInv, MailIds, JobInv, JobFails
  <1>2. UNCHANGED <<prefs, mail, sending, log, chosenFor>>
    BY DEF mailVars
  <1>3. /\ jobs' = [x \in JobIds |-> jobs'[x]] /\ \A k \in JobIds : k # j => jobs'[k] = jobs[k]
        /\ jobs'[j].tries = jobs[j].tries + 1 /\ jobs'[j].state \in {"waiting", "failed"}
        /\ jobs'[j].at = "start"
    BY <1>1 DEF JobFails, MailTypes
  <1>4. MailTypes' /\ LogRows'
    BY <1>1, <1>2, <1>3 DEF MailInv, MailTypes, LogRows, MailJobs
  <1>5. LogGrows /\ \A k : OnlyOpened(k)
    BY <1>1, <1>2, SameLog
  <1>6. Cardinality(Abandoned(j)') <= jobs'[j].tries
    <2>1. Abandoned(j)' \in SUBSET (Abandoned(j) \union {sending[j].row})
      BY <1>2 DEF Abandoned
    <2>2. IsFiniteSet(Abandoned(j)) /\ Cardinality(Abandoned(j)) \in Nat
      BY <1>1, LogFinite
    <2>3. /\ IsFiniteSet(Abandoned(j) \union {sending[j].row})
          /\ Cardinality(Abandoned(j) \union {sending[j].row}) <= Cardinality(Abandoned(j)) + 1
          /\ Cardinality(Abandoned(j) \union {sending[j].row}) \in Nat
      <3>1. PICK x : x = sending[j].row
        OBVIOUS
      <3>2. PICK old : old = Abandoned(j)
        OBVIOUS
      <3>3. /\ IsFiniteSet(old \union {x})
            /\ Cardinality(old \union {x}) = IF x \in old THEN Cardinality(old) ELSE Cardinality(old) + 1
        BY <2>2, <3>2, FS_AddElement
      <3>4. Cardinality(old \union {x}) \in Nat
        BY <3>3, FS_CardinalityType
      <3>5. QED
        BY <2>2, <3>1, <3>2, <3>3, <3>4
    <2>4. /\ Cardinality(Abandoned(j)') <= Cardinality(Abandoned(j) \union {sending[j].row})
          /\ Cardinality(Abandoned(j)') \in Nat
      BY <2>1, <2>3, FS_Subset, FS_CardinalityType
    <2>5. jobs[j].tries \in Nat /\ Cardinality(Abandoned(j)) <= jobs[j].tries
      BY <1>1 DEF JobInv
    <2>6. QED
      BY <1>3, <2>2, <2>3, <2>4, <2>5
  <1>7. JobInv(j)'
    BY <1>1, <1>2, <1>3, <1>6 DEF JobInv
  <1>8. QED
    BY <1>2, <1>3, <1>4, <1>5, <1>7, WorkInv

-----------------------------------------------------------------------------
(* The community *)

CommunityInv == RequestInv /\ FeedInv /\ MailInv

\* What another service does to the queue does not meet a message.
OtherJobs ==
    /\ jobs' = [x \in JobIds |-> jobs'[x]]
    /\ \A x \in JobIds : x[1] = "mail" => jobs'[x] = jobs[x]

LEMMA JobsOfOthers ==
  ASSUME MailTypes, NEW k, k[1] # "mail", NEW l, jobs' \in {jobs, Added(k), Taken(k, l), Finished(k)}
  PROVE  OtherJobs
  BY QueueChanges DEF OtherJobs

LEMMA NewsJobsOnly ==
  ASSUME MailTypes, NEW c, NewsStep(c)
  PROVE  OtherJobs
  <1>1. \A n : ArchiveJob(n)[1] # "mail" /\ RestoredJob(n, c)[1] # "mail"
    BY DEF ArchiveJob, RestoredJob
  <1>2. CASE jobs' = jobs
    BY <1>2 DEF OtherJobs, MailTypes
  <1>3. CASE NewsClock(c)
    <2>1. jobs' = Added(ArchiveJob(c))
      BY <1>3 DEF NewsClock
    <2>2. QED
      BY <1>1, <2>1, JobsOfOthers
  <1>4. CASE RestoreClock(c)
    <2>1. jobs' = Added(RestoredJob(Item(c), c))
      BY <1>4 DEF RestoreClock
    <2>2. QED
      BY <1>1, <2>1, JobsOfOthers
  <1>5. QED
    BY <1>2, <1>3, <1>4 DEF NewsStep, PublishNews, NewsNotify, NewsRead, RestoreWrite, NewsUpdate,
       DeleteNews, BookmarkNews

LEMMA OfferJobsOnly ==
  ASSUME MailTypes, NEW c, OfferStep(c)
  PROVE  OtherJobs
  <1>1. CASE jobs' = jobs
    BY <1>1 DEF OtherJobs, MailTypes
  <1>2. CASE ScheduleReminder(c)
    <2>1. PICK p \in Ahead(c) : jobs' = Added(ReminderJob(c, p))
      BY <1>2 DEF ScheduleReminder
    <2>2. ReminderJob(c, p)[1] # "mail"
      BY DEF ReminderJob
    <2>3. QED
      BY <2>1, <2>2, JobsOfOthers
  <1>3. QED
    BY <1>1, <1>2 DEF OfferStep, CreateOffer, OfferCard, UpdateOffer, SaveOffer, TrackOffer

LEMMA NewsWorkOnly ==
  ASSUME MailTypes, NEW j \in NewsJobs, NewsWork(j)
  PROVE  OtherJobs
  <1>1. j[1] # "mail"
    BY DEF NewsJobs
  <1>2. jobs' \in {jobs, Added(j), Taken(j, "archive"), Finished(j)}
    BY DEF NewsWork, ArchiveRead, ArchiveWrite
  <1>3. QED
    BY <1>1, <1>2, JobsOfOthers

LEMMA OfferWorkOnly ==
  ASSUME MailTypes, NEW j \in OfferJobs, OfferWork(j)
  PROVE  OtherJobs
  <1>1. j[1] # "mail"
    BY DEF OfferJobs
  <1>2. \E l : jobs' \in {jobs, Added(j), Taken(j, l), Finished(j)}
    BY DEF OfferWork, ReminderRead, ReminderSend, ReminderEnd
  <1>3. QED
    BY <1>1, <1>2, JobsOfOthers

\* To the feed and to the messages a step is one of their own, or one they do
\* not notice.
LEMMA FeedOrApart ==
  ASSUME RequestInv, [Next]_vars
  PROVE  \/ \E c \in Come : pc[c] \notin Ended /\ FeedStep(c)
         \/ FeedRefresh /\ UNCHANGED request
         \/ UNCHANGED feedVars /\ Apart(FeedOps)
  <1>1. UNCHANGED request => Apart(FeedOps)
    BY DEF request, Apart, Died, Come
  <1>2. CASE CallStep
    <2>1. PICK c \in Busy :
            \/ (NewsStep(c) \/ MailStep(c) \/ PageStep(c) \/ OfferStep(c)) /\ UNCHANGED feedVars
            \/ FeedStep(c)
      BY <1>2 DEF CallStep
    <2>2. c \in Come /\ pc[c] \notin Ended /\ pc[c] # "dead"
      BY DEF Busy, Ended
    <2>3. CASE NewsStep(c) \/ MailStep(c) \/ PageStep(c) \/ OfferStep(c)
      <3>1. Goes(c) /\ Op(c) \notin FeedOps
        BY <2>3, NewsGoes, MailGoes, PageGoes, OfferGoes, OpsApart
      <3>2. Apart(FeedOps)
        BY <2>2, <3>1, GoesApart
      <3>3. QED
        BY <2>1, <2>2, <3>2
    <2>4. QED
      BY <2>1, <2>2, <2>3
  <1>3. CASE WorkerStep
    BY <1>1, <1>3 DEF WorkerStep
  <1>4. CASE Elsewhere
    BY <1>1, <1>4, DeathApart DEF Elsewhere
  <1>5. CASE UNCHANGED vars
    BY <1>1, <1>5 DEF vars
  <1>6. QED
    BY <1>2, <1>3, <1>4, <1>5 DEF Next

LEMMA MailOrApart ==
  ASSUME RequestInv, MailInv, [Next]_vars
  PROVE  \/ \E c \in Come : MailStep(c)
         \/ \E j \in MailJobs : /\ MailWork(j) \/ (JobFails(j) /\ UNCHANGED mailVars)
                                /\ UNCHANGED request
         \/ UNCHANGED mailVars /\ Apart(MailOps) /\ OtherJobs
  <1>1. UNCHANGED request => Apart(MailOps)
    BY DEF request, Apart, Died, Come
  <1>2. MailTypes /\ (jobs' = jobs => OtherJobs)
    BY DEF MailInv, MailTypes, OtherJobs
  <1>3. CASE CallStep
    <2>1. PICK c \in Busy :
            \/ NewsStep(c) /\ UNCHANGED mailVars
            \/ MailStep(c)
            \/ PageStep(c) /\ UNCHANGED <<mailVars, jobs>>
            \/ OfferStep(c) /\ UNCHANGED mailVars
            \/ FeedStep(c) /\ UNCHANGED <<mailVars, jobs>>
      BY <1>3 DEF CallStep
    <2>2. c \in Come /\ pc[c] # "dead"
      BY DEF Busy, Ended
    <2>3. CASE MailStep(c)
      BY <2>2, <2>3
    <2>4. CASE NewsStep(c) \/ PageStep(c) \/ OfferStep(c) \/ FeedStep(c)
      <3>1. Goes(c) /\ Op(c) \notin MailOps
        BY <2>4, NewsGoes, PageGoes, OfferGoes, FeedGoes, OpsApart
      <3>2. Apart(MailOps)
        BY <2>2, <3>1, GoesApart
      <3>3. MailStep(c) \/ (UNCHANGED mailVars /\ OtherJobs)
        BY <1>2, <2>1, NewsJobsOnly, OfferJobsOnly
      <3>4. QED
        BY <2>2, <3>2, <3>3
    <2>5. QED
      BY <2>1, <2>3, <2>4
  <1>4. CASE WorkerStep
    BY <1>1, <1>2, <1>4, NewsWorkOnly, OfferWorkOnly DEF WorkerStep
  <1>5. CASE Elsewhere
    <2>1. CASE NextDay /\ UNCHANGED <<request, jobs>>
      BY <1>1, <1>2, <1>5, <2>1 DEF Elsewhere
    <2>2. CASE (\E c \in Come : Die(c)) /\ UNCHANGED <<jobs, today>>
      BY <1>2, <1>5, <2>2, DeathApart DEF Elsewhere
    <2>3. CASE (\E j \in JobIds : JobFails(j)) /\ UNCHANGED <<request, today>>
      <3>1. PICK j \in JobIds : JobFails(j)
        BY <2>3
      <3>2. CASE j \in MailJobs
        BY <1>5, <2>3, <3>1, <3>2 DEF Elsewhere
      <3>3. CASE j \notin MailJobs
        <4>1. j[1] # "mail"
          BY <3>1, <3>3 DEF MailInv, MailIds, JobFails, NoJob
        <4>2. OtherJobs
          BY <1>2, <3>1, <4>1 DEF OtherJobs, JobFails, MailTypes
        <4>3. QED
          BY <1>1, <1>5, <2>3, <4>2 DEF Elsewhere
      <3>4. QED
        BY <3>2, <3>3
    <2>4. QED
      BY <1>5, <2>1, <2>2, <2>3 DEF Elsewhere
  <1>6. CASE UNCHANGED vars
    BY <1>1, <1>2, <1>6 DEF vars
  <1>7. QED
    BY <1>3, <1>4, <1>5, <1>6 DEF Next

LEMMA InitCommunity == Init => CommunityInv
  <1>1. ASSUME NEW w \in Scenarios, RequestsInit(w)
        PROVE  RequestInv
    BY <1>1, RequestAssumption DEF RequestsInit, RequestInv, Come
  <1>2. QED
    BY <1>1, InitFeed, InitMail DEF Init, CommunityInv

LEMMA CommunityStepInv == CommunityInv /\ [Next]_vars => CommunityInv'
  <1> SUFFICES ASSUME RequestInv, FeedInv, MailInv, [Next]_vars
               PROVE  CommunityInv'
    BY DEF CommunityInv
  <1>1. RequestInv' /\ Come' = Come /\ UNCHANGED sent
    BY RequestStep
  <1>2. FeedInv'
    BY <1>1, FeedOrApart, FeedStepInv, RefreshInv, FeedUntouched
  <1>3. MailInv'
    <2>1. CASE \E c \in Come : MailStep(c)
      BY <2>1, MailStepInv
    <2>2. CASE \E j \in MailJobs : MailWork(j) /\ UNCHANGED request
      BY <2>2, StartInv, SkipInv, QueuedInv, ResultInv, EndInv DEF MailWork
    <2>3. CASE \E j \in MailJobs : JobFails(j) /\ UNCHANGED mailVars /\ UNCHANGED request
      BY <2>3, FailInv
    <2>4. CASE UNCHANGED mailVars /\ Apart(MailOps) /\ OtherJobs
      BY <1>1, <2>4, MailUntouched DEF OtherJobs
    <2>5. QED
      BY <2>1, <2>2, <2>3, <2>4, MailOrApart
  <1>4. QED
    BY <1>1, <1>2, <1>3 DEF CommunityInv

THEOREM CommunityInvariant == Spec => []CommunityInv
  BY InitCommunity, CommunityStepInv, PTL DEF Spec

\* feed.routes.ts:207-239, 311-351: taps of any number of members and devices,
\* for posts created and deleted meanwhile, leave as many likes and views
\* counted as there are rows, once all are answered and none died in between.
THEOREM LikesCounted == Spec => []LikesAreCounted
  <1>1. CommunityInv => LikesAreCounted
    <2> SUFFICES ASSUME FeedInv, RequestInv, Open = {}, ~Died, NEW p \in DOMAIN posts
                 PROVE  counts[p].like = Rows(likes, p) /\ counts[p].view = Rows(views, p)
      BY DEF CommunityInv, LikesAreCounted
    <2>1. Adding(p) = {} /\ Taking(p) = {} /\ Seeing(p) = {}
      BY DEF Adding, Taking, Seeing, Open, Ended
    <2>2. /\ Cardinality(Adding(p)) = 0 /\ Cardinality(Taking(p)) = 0
          /\ Cardinality(Seeing(p)) = 0
      BY <2>1, FS_EmptySet
    <2>3. LikesOf(p) /\ ViewsOf(p)
      BY DEF FeedInv
    <2>4. QED
      BY <2>2, <2>3, TapTypes DEF LikesOf, ViewsOf
  <1>2. QED
    BY <1>1, CommunityInvariant, PTL

\* notification.service.ts:74-130: however often a message is tried again, with
\* preferences that change and rows that are opened meanwhile, when it is done
\* with every channel of the last attempt has an answer, a WhatsApp message
\* that never got through has its SMS, and the rows without an answer are at
\* most as many as the attempts that died.
THEOREM DeliveryLogged == Spec => []DeliveryIsLogged
  <1>1. CommunityInv => DeliveryIsLogged
    <2> SUFFICES ASSUME MailInv, NEW j \in DOMAIN chosenFor
                 PROVE  LET unanswered == {i \in DOMAIN log : log[i].job = j /\ log[i].status = "QUEUED"} IN
                        /\ \A ch \in chosenFor[j] \intersect mail[j].to :
                               \E i \in RowsOf(j, ch) : log[i].status # "QUEUED"
                        /\ "WHATSAPP" \in chosenFor[j] /\ "SMS" \in mail[j].to =>
                               \/ RowsOf(j, "SMS") # {}
                               \/ {log[i].status : i \in RowsOf(j, "WHATSAPP")} \ {"QUEUED"} # {"FAILED"}
                        /\ Cardinality(unanswered) <= jobs[j].tries
      BY DEF CommunityInv, DeliveryIsLogged
    <2>1. j \in MailJobs /\ JobInv(j)
      BY DEF MailInv, MailTypes
    <2>2. jobs[j].state = "completed" /\ \A ch \in chosenFor[j] : Reached(j, ch)
      BY <2>1 DEF JobInv
    <2>3. \A ch \in chosenFor[j] \intersect mail[j].to : \E i \in RowsOf(j, ch) : log[i].status # "QUEUED"
      BY <2>2 DEF Reached, Answered, RowsOf
    <2>4. ASSUME "WHATSAPP" \in chosenFor[j], "SMS" \in mail[j].to, RowsOf(j, "SMS") = {}
          PROVE  {log[i].status : i \in RowsOf(j, "WHATSAPP")} \ {"QUEUED"} # {"FAILED"}
      <3>1. CASE "WHATSAPP" \in mail[j].to
        <4>1. \E i \in DOMAIN log : /\ log[i].job = j /\ log[i].channel = "WHATSAPP"
                                    /\ log[i].status = "SENT"
          BY <2>2, <2>4, <3>1 DEF Reached, Followed, RowsOf
        <4>2. QED
          BY <4>1 DEF RowsOf
      <3>2. CASE "WHATSAPP" \notin mail[j].to
        <4>1. RowsOf(j, "WHATSAPP") = {}
          BY <3>2 DEF RowsOf, MailInv, LogRows
        <4>2. QED
          BY <4>1
      <3>3. QED
        BY <3>1, <3>2
    <2>5. {i \in DOMAIN log : log[i].job = j /\ log[i].status = "QUEUED"} = Abandoned(j)
      BY <2>2 DEF Abandoned, Held
    <2>6. QED
      BY <2>1, <2>3, <2>4, <2>5 DEF JobInv
  <1>2. QED
    BY <1>1, CommunityInvariant, PTL

-----------------------------------------------------------------------------
(* The types: the queue *)

\* A job that may still be taken has failed less often than it may.
QueueTypes ==
    /\ jobs \in [JobIds -> JobType]
    /\ \A j \in JobIds : jobs[j].state # "failed" => jobs[j].tries < Attempts

LEMMA JobAdded ==
  ASSUME QueueTypes, NEW k, jobs' = Added(k)
  PROVE  QueueTypes'
  <1>1. NewJob \in JobType /\ NewJob.tries = 0 /\ 0 < Attempts
    BY JobAssumption DEF NewJob, JobType, JobLabels
  <1>2. CASE jobs' = jobs
    BY <1>2 DEF QueueTypes
  <1>3. CASE jobs' = [jobs EXCEPT ![k] = NewJob]
    BY <1>1, <1>3 DEF QueueTypes
  <1>4. QED
    BY <1>2, <1>3 DEF Added

LEMMA JobMoves ==
  ASSUME QueueTypes, NEW j \in JobIds, jobs[j].state # "failed",
         NEW l \in JobLabels, jobs' \in {Taken(j, l), Finished(j)}
  PROVE  QueueTypes'
  <1> DEFINE t == [state |-> "active", tries |-> jobs[j].tries, at |-> l]
             f == [state |-> "completed", tries |-> jobs[j].tries, at |-> "start"]
  <1>1. jobs[j].tries \in 0 .. Attempts /\ jobs[j].tries < Attempts
    BY DEF QueueTypes, JobType
  <1>2. t \in JobType /\ f \in JobType /\ t.tries < Attempts /\ f.tries < Attempts
    BY <1>1 DEF JobType, JobLabels
  <1>3. jobs' = [jobs EXCEPT ![j] = t] \/ jobs' = [jobs EXCEPT ![j] = f]
    BY DEF Taken, Finished
  <1> HIDE DEF t, f
  <1>4. QED
    BY <1>2, <1>3 DEF QueueTypes

LEMMA JobFailed ==
  ASSUME QueueTypes, NEW j \in JobIds, JobFails(j)
  PROVE  QueueTypes'
  <1> DEFINE n == jobs[j].tries + 1
             f == [state |-> IF n < Attempts THEN "waiting" ELSE "failed", tries |-> n, at |-> "start"]
  <1>1. jobs[j].tries \in 0 .. Attempts /\ jobs[j].tries < Attempts
    BY DEF QueueTypes, JobType, JobFails
  <1>2. n \in 0 .. Attempts
    BY <1>1, JobAssumption
  <1>3. f \in JobType /\ (f.state # "failed" => f.tries < Attempts)
    BY <1>2 DEF JobType, JobLabels
  <1>4. jobs' = [jobs EXCEPT ![j] = f]
    BY DEF JobFails
  <1> HIDE DEF f
  <1>5. QED
    BY <1>3, <1>4 DEF QueueTypes

LEMMA MessagesQueuedTypes ==
  ASSUME QueueTypes, NEW S, jobs' = [j \in JobIds |-> IF j \in S THEN NewJob ELSE jobs[j]]
  PROVE  QueueTypes'
  <1>1. NewJob \in JobType /\ NewJob.tries = 0 /\ 0 < Attempts
    BY JobAssumption DEF NewJob, JobType, JobLabels
  <1>2. QED
    BY <1>1 DEF QueueTypes

-----------------------------------------------------------------------------
(* The types: news *)

NewsTypes ==
    /\ \A n \in DOMAIN news : NewsRow(news[n])
    /\ \A b \in newsBookmarks \union newsTold : b[1] \in DOMAIN news
    /\ \A c \in Come : Op(c) = "publishNews" /\ pc[c] \in {"clock", "notify"} => c \in DOMAIN news

\* Items are added and written, and never lose a column.
NewsKept ==
    /\ DOMAIN news \subseteq DOMAIN news'
    /\ \A n \in DOMAIN news' : NewsRow(news'[n])

LEMMA NewsWrites ==
  ASSUME \A n \in DOMAIN news : NewsRow(news[n]), NEW k, NEW col \in {"archived", "deleted"}, NEW on \in BOOLEAN,
         news' = [news EXCEPT ![k] = [@ EXCEPT ![col] = on]]
  PROVE  NewsKept
  <1>1. DOMAIN news' = DOMAIN news /\ \A n \in DOMAIN news : news'[n] = IF n = k THEN [news[k] EXCEPT ![col] = on] ELSE news[n]
    OBVIOUS
  <1>2. k \in DOMAIN news => NewsRow([news[k] EXCEPT ![col] = on])
    BY DEF NewsRow
  <1>3. QED
    BY <1>1, <1>2 DEF NewsKept

\* An edit writes what its body holds, and values of the types there were.
LEMMA NewsEdited ==
  ASSUME RequestInv, \A n \in DOMAIN news : NewsRow(news[n]), NEW c \in Come, Op(c) = "updateNews",
         news' = [news EXCEPT ![Item(c)] = Updated(news[Item(c)], sent[c].body)]
  PROVE  NewsKept
  <1> DEFINE body == sent[c].body
             row == Updated(news[Item(c)], body)
  <1>1. \A col \in {"archived", "deleted"} \intersect DOMAIN body : body[col] \in BOOLEAN
    BY NewsAssumption DEF RequestInv, Op
  <1>2. Item(c) \in DOMAIN news => NewsRow(row)
    <2> SUFFICES ASSUME Item(c) \in DOMAIN news
                 PROVE  NewsRow(row)
      OBVIOUS
    <2>1. {"archived", "deleted"} \subseteq DOMAIN news[Item(c)]
          /\ news[Item(c)].archived \in BOOLEAN /\ news[Item(c)].deleted \in BOOLEAN
      BY DEF NewsRow
    <2>2. DOMAIN row = DOMAIN news[Item(c)] \union DOMAIN body
      BY DEF Updated
    <2>3. row.archived \in BOOLEAN /\ row.deleted \in BOOLEAN
      BY <1>1, <2>1, <2>2 DEF Updated
    <2>4. QED
      BY <2>1, <2>2, <2>3 DEF NewsRow
  <1>3. DOMAIN news' = DOMAIN news /\ \A n \in DOMAIN news : news'[n] = IF n = Item(c) THEN row ELSE news[n]
    OBVIOUS
  <1> HIDE DEF row
  <1>4. QED
    BY <1>2, <1>3 DEF NewsKept

\* The request at hand goes to one label, and the others stay where they are.
LEMMA OneGoes ==
  ASSUME RequestInv, NEW c \in Come, NEW l, Goto(c, l)
  PROVE  /\ Come' = Come /\ UNCHANGED sent /\ pc'[c] = l
         /\ \A d \in Come : Op(d)' = Op(d) /\ (d # c => pc'[d] = pc[d])
         /\ \A d \in Come : pc'[d] = pc[d] \/ (d = c /\ pc'[d] = l)
  BY DEF RequestInv, Goto, Come, Op

LEMMA NewsStays ==
  ASSUME NewsTypes, NewsKept, Come' = Come, \A d \in Come : Op(d)' = Op(d),
         \A b \in newsBookmarks' \union newsTold' :
             b \in newsBookmarks \union newsTold \/ b[1] \in DOMAIN news',
         \A d \in Come : pc'[d] \in {pc[d], "dead"} \/ d \in DOMAIN news' \/ pc'[d] \notin {"clock", "notify"}
  PROVE  NewsTypes'
  <1>1. \A b \in newsBookmarks' \union newsTold' : b[1] \in DOMAIN news'
    BY DEF NewsTypes, NewsKept
  <1>2. ASSUME NEW d \in Come, Op(d)' = "publishNews", pc'[d] \in {"clock", "notify"}
        PROVE  d \in DOMAIN news'
    BY <1>2 DEF NewsTypes, NewsKept
  <1>3. QED
    BY <1>1, <1>2 DEF NewsTypes, NewsKept

LEMMA NewsTypesStep ==
  ASSUME RequestInv, NewsTypes, NEW c \in Come, NewsStep(c)
  PROVE  NewsTypes'
  <1> USE DEF Move, newsVars
  <1>1. news' = news => NewsKept
    BY DEF NewsTypes, NewsKept
  <1>2. CASE Op(c) = "publishNews" /\ PublishNews(c)
    <2> DEFINE row == [archived |-> FALSE, deleted |-> FALSE, by |-> sent[c].by]
    <2>1. NewsRow(row)
      BY DEF NewsRow
    <2>2. news' = Put(news, c, row) /\ Goto(c, "clock") /\ UNCHANGED <<newsBookmarks, newsTold>>
      BY <1>2 DEF PublishNews
    <2> HIDE DEF row
    <2>3. NewsKept /\ c \in DOMAIN news'
      BY <2>1, <2>2 DEF Put, NewsKept, NewsTypes
    <2>4. QED
      BY <2>2, <2>3, OneGoes, NewsStays
  <1>3. CASE Op(c) = "publishNews" /\ NewsClock(c)
    <2>1. pc[c] = "clock" /\ Goto(c, "notify") /\ UNCHANGED <<news, newsBookmarks, newsTold>>
      BY <1>3 DEF NewsClock
    <2>2. c \in DOMAIN news'
      BY <1>3, <2>1 DEF NewsTypes
    <2>3. QED
      BY <1>1, <2>1, <2>2, OneGoes, NewsStays
  <1>4. CASE Op(c) = "publishNews" /\ NewsNotify(c)
    <2>1. /\ pc[c] = "notify" /\ Goto(c, "done") /\ UNCHANGED <<news, newsBookmarks>>
          /\ newsTold' = newsTold \union ({c} \X JainMembers)
      BY <1>4 DEF NewsNotify
    <2>2. c \in DOMAIN news'
      BY <1>4, <2>1 DEF NewsTypes
    <2>3. QED
      BY <1>1, <2>1, <2>2, OneGoes, NewsStays
  <1>5. CASE Op(c) \in {"restoreNews", "updateNews"} /\ NewsRead(c)
    <2>1. (\E l \in {"restoreNews", "updateNews", "refused"} : Goto(c, l)) /\ UNCHANGED <<news, newsBookmarks, newsTold>>
      BY <1>5 DEF NewsRead
    <2>2. QED
      BY <1>1, <2>1, OneGoes, NewsStays
  <1>6. CASE RestoreWrite(c)
    <2>1. /\ Goto(c, "restart") /\ UNCHANGED <<newsBookmarks, newsTold>>
          /\ news' = [news EXCEPT ![Item(c)] = [@ EXCEPT !["archived"] = FALSE]]
      BY <1>6 DEF RestoreWrite
    <2>2. NewsKept
      BY <2>1, NewsWrites DEF NewsTypes
    <2>3. QED
      BY <2>1, <2>2, OneGoes, NewsStays
  <1>7. CASE RestoreClock(c) \/ (Op(c) = "updateNews" /\ NewsUpdate(c))
    <2>1. /\ \E l \in {"done", "failed"} : Goto(c, l)
          /\ UNCHANGED <<newsBookmarks, newsTold>>
          /\ \/ news' = news
             \/ /\ Op(c) = "updateNews"
                /\ news' = [news EXCEPT ![Item(c)] = Updated(news[Item(c)], sent[c].body)]
      BY <1>7 DEF RestoreClock, NewsUpdate
    <2>2. NewsKept
      BY <1>1, <2>1, NewsEdited DEF NewsTypes
    <2>3. QED
      BY <2>1, <2>2, OneGoes, NewsStays
  <1>8. CASE DeleteNews(c)
    <2>1. /\ \E l \in {"done", "failed"} : Goto(c, l)
          /\ UNCHANGED <<newsBookmarks, newsTold>>
          /\ news' = news \/ news' = [news EXCEPT ![Item(c)] = [@ EXCEPT !["deleted"] = TRUE]]
      BY <1>8 DEF DeleteNews
    <2>2. NewsKept
      BY <1>1, <2>1, NewsWrites DEF NewsTypes
    <2>3. QED
      BY <2>1, <2>2, OneGoes, NewsStays
  <1>9. CASE BookmarkNews(c)
    <2>1. (\E l \in {"done", "failed"} : Goto(c, l)) /\ UNCHANGED <<news, newsTold>>
      BY <1>9 DEF BookmarkNews
    <2>2. \A b \in newsBookmarks' : b \in newsBookmarks \/ b[1] \in DOMAIN news'
      <3>1. CASE ~Known(c)
        BY <1>9, <3>1 DEF BookmarkNews
      <3>2. CASE Known(c) /\ sent[c].add
        <4>1. newsBookmarks' = newsBookmarks \union {<<Item(c), sent[c].by>>} /\ Item(c) \in DOMAIN news
          BY <1>9, <3>2 DEF BookmarkNews, Known
        <4>2. QED
          BY <2>1, <4>1
      <3>3. CASE Known(c) /\ ~sent[c].add
        BY <1>9, <3>3 DEF BookmarkNews
      <3>4. QED
        BY <3>1, <3>2, <3>3
    <2>3. QED
      BY <1>1, <2>1, <2>2, OneGoes, NewsStays
  <1>10. QED
    BY <1>2, <1>3, <1>4, <1>5, <1>6, <1>7, <1>8, <1>9 DEF NewsStep

LEMMA NewsTypesWork ==
  ASSUME NewsTypes, NEW j, NewsWork(j), UNCHANGED request
  PROVE  NewsTypes'
  <1>1. Come' = Come /\ pc' = pc /\ \A d \in Come : Op(d)' = Op(d)
    BY DEF request, Come, Op
  <1>2. /\ UNCHANGED <<newsBookmarks, newsTold>>
        /\ news' = news \/ news' = [news EXCEPT ![j[2]] = [@ EXCEPT !["archived"] = TRUE]]
    BY DEF NewsWork, ArchiveRead, ArchiveWrite, newsVars
  <1>3. NewsKept
    BY <1>2, NewsWrites DEF NewsTypes, NewsKept
  <1>4. QED
    BY <1>1, <1>2, <1>3, NewsStays

LEMMA NewsUntouched ==
  ASSUME NewsTypes, UNCHANGED newsVars, Come' = Come, UNCHANGED sent, Apart(NewsOps)
  PROVE  NewsTypes'
  <1>1. UNCHANGED <<news, newsBookmarks, newsTold>> /\ \A d \in Come : Op(d)' = Op(d)
    BY DEF newsVars, Op
  <1>2. ASSUME NEW d \in Come, Op(d)' = "publishNews", pc'[d] \in {"clock", "notify"}
        PROVE  d \in DOMAIN news'
    <2>1. Op(d) \in NewsOps /\ Op(d) = "publishNews"
      BY <1>1, <1>2 DEF NewsOps
    <2>2. pc'[d] = pc[d]
      BY <1>2, <2>1 DEF Apart
    <2>3. QED
      BY <1>1, <1>2, <2>1, <2>2 DEF NewsTypes
  <1>3. QED
    BY <1>1, <1>2 DEF NewsTypes

-----------------------------------------------------------------------------
(* The types: pages *)

Subscribed(r) == "status" \in DOMAIN r /\ r.status \in SubscriptionStatus

PageTypes ==
    /\ \A p \in DOMAIN pages : Subscribed(pages[p])
    /\ \A k \in DOMAIN membership : k[1] \in DOMAIN pages /\ membership[k] \in PageMemberStatus
    /\ \A c \in Come : Op(c) = "join" /\ pc[c] = "join" =>
           ThePage(c) \in DOMAIN pages /\ saw[c].status \in PageMemberStatus

\* Pages stay, and memberships are of pages there are.
PagesKept ==
    /\ DOMAIN pages \subseteq DOMAIN pages'
    /\ \A p \in DOMAIN pages' : Subscribed(pages'[p])
MembershipKept ==
    \A k \in DOMAIN membership' :
        /\ k \in DOMAIN membership \/ k[1] \in DOMAIN pages'
        /\ membership'[k] \in PageMemberStatus

LEMMA PageStays ==
  ASSUME PageTypes, PagesKept, MembershipKept, Come' = Come, UNCHANGED sent,
         \A d \in Come : Op(d) = "join" /\ pc'[d] = "join" =>
             \/ pc[d] = "join" /\ saw'[d] = saw[d]
             \/ ThePage(d) \in DOMAIN pages' /\ saw'[d].status \in PageMemberStatus
  PROVE  PageTypes'
  <1>1. \A d \in Come : Op(d)' = Op(d) /\ ThePage(d)' = ThePage(d)
    BY DEF Op, ThePage
  <1>2. \A k \in DOMAIN membership' : k[1] \in DOMAIN pages' /\ membership'[k] \in PageMemberStatus
    BY DEF PageTypes, PagesKept, MembershipKept
  <1>3. ASSUME NEW d \in Come, Op(d)' = "join", pc'[d] = "join"
        PROVE  ThePage(d)' \in DOMAIN pages' /\ saw'[d].status \in PageMemberStatus
    BY <1>1, <1>3 DEF PageTypes, PagesKept
  <1>4. QED
    BY <1>2, <1>3 DEF PageTypes, PagesKept

LEMMA SamePages ==
  ASSUME PageTypes
  PROVE  /\ pages' = pages => PagesKept
         /\ DOMAIN membership' \subseteq DOMAIN membership /\ (\A k \in DOMAIN membership' : membership'[k] = membership[k])
                => MembershipKept
  BY DEF PageTypes, PagesKept, MembershipKept

\* The pages after a sweep over some of them.
LEMMA PagesMarked ==
  ASSUME PageTypes, NEW which, NEW word \in SubscriptionStatus, pages' = Mark(which, word)
  PROVE  PagesKept
  <1>1. \A p \in DOMAIN pages : Subscribed([pages[p] EXCEPT !.status = word])
    BY DEF PageTypes, Subscribed
  <1>2. DOMAIN pages' = DOMAIN pages
    BY DEF Mark
  <1>3. \A p \in DOMAIN pages : pages'[p] \in {pages[p], [pages[p] EXCEPT !.status = word]}
    BY DEF Mark
  <1>4. QED
    BY <1>1, <1>2, <1>3 DEF PagesKept, PageTypes

LEMMA PageTypesStep ==
  ASSUME RequestInv, PageTypes, NEW c \in Come, PageStep(c)
  PROVE  PageTypes'
  <1> USE DEF Move, Forget, pageVars
  <1>1. Input[c] = sent[c] /\ c \in Calls
    BY DEF RequestInv
  <1>2. ASSUME NEW l, Goto(c, l), l # "join", UNCHANGED saw, PagesKept, MembershipKept
        PROVE  PageTypes'
    BY <1>2, OneGoes, PageStays
  <1>3. CASE CreatePage(c)
    <2> DEFINE row == [owners |-> sent[c].owners, status |-> "ACTIVE",
                       expires |-> sent[c].expires, auto |-> FALSE, gone |-> FALSE]
    <2>1. Subscribed(row)
      BY DEF Subscribed, SubscriptionStatus
    <2>2. pages' = Put(pages, c, row) /\ Goto(c, "done") /\ UNCHANGED <<saw, membership>>
      BY <1>3 DEF CreatePage
    <2> HIDE DEF row
    <2>3. PagesKept
      BY <2>1, <2>2 DEF Put, PagesKept, PageTypes
    <2>4. QED
      BY <1>2, <2>2, <2>3, SamePages
  <1>4. CASE Op(c) = "adminPage" /\ AdminUpdatePage(c)
    <2> DEFINE p == ThePage(c)
               row == Updated(pages[p], sent[c].body)
    <2>1. /\ \E l \in {"done", "failed"} : Goto(c, l)
          /\ UNCHANGED <<saw, membership>>
          /\ pages' = IF p \in DOMAIN pages THEN Put(pages, p, row) ELSE pages
      BY <1>4 DEF AdminUpdatePage
    <2>2. p \in DOMAIN pages => Subscribed(row)
      <3> SUFFICES ASSUME p \in DOMAIN pages PROVE Subscribed(row)
        OBVIOUS
      <3>1. Subscribed(pages[p])
        BY DEF PageTypes
      <3>2. "status" \in DOMAIN sent[c].body => sent[c].body.status \in SubscriptionStatus
        BY <1>1, <1>4, PagesAssumption DEF Op
      <3>3. QED
        BY <3>1, <3>2 DEF Subscribed, Updated
    <2> HIDE DEF row
    <2>3. PagesKept
      BY <2>1, <2>2 DEF Put, PagesKept, PageTypes
    <2>4. QED
      BY <1>2, <2>1, <2>3, SamePages
  <1>5. CASE AssertOwnerCanManage(c)
    <2>1. (\E l \in {"manage", "refused"} : Goto(c, l)) /\ UNCHANGED <<saw, pages, membership>>
      BY <1>5 DEF AssertOwnerCanManage
    <2>2. QED
      BY <1>2, <2>1, SamePages
  <1>6. CASE Manage(c)
    <2> DEFINE key == <<ThePage(c), sent[c].m>>
    <2>1. (\E l \in {"done", "tell", "failed"} : Goto(c, l)) /\ UNCHANGED <<saw, pages>>
      BY <1>6 DEF Manage
    <2>2. \/ UNCHANGED membership
          \/ Op(c) = "decide" /\ key \in DOMAIN membership /\ membership' = [membership EXCEPT ![key] = sent[c].word]
          \/ membership' = Without(key)
      BY <1>6 DEF Manage
    <2>3. MembershipKept
      <3>1. CASE UNCHANGED membership
        BY <3>1, SamePages
      <3>2. CASE Op(c) = "decide" /\ membership' = [membership EXCEPT ![key] = sent[c].word]
        <4>1. sent[c].word \in PageMemberStatus
          BY <1>1, <3>2, PagesAssumption DEF Op
        <4>2. QED
          BY <3>2, <4>1 DEF PageTypes, MembershipKept
      <3>3. CASE membership' = Without(key)
        BY <3>3, SamePages DEF Without
      <3>4. QED
        BY <2>2, <3>1, <3>2, <3>3
    <2>4. QED
      BY <1>2, <2>1, <2>3, SamePages
  <1>7. CASE TellMembers(c) \/ JoinTell(c)
    <2>1. Goto(c, "done") /\ UNCHANGED <<saw, pages, membership>>
      BY <1>7 DEF TellMembers, JoinTell
    <2>2. QED
      BY <1>2, <2>1, SamePages
  <1>8. CASE JoinRead(c)
    <2> DEFINE v == [status |-> IF PageThere(c) /\ pages[ThePage(c)].auto THEN "APPROVED" ELSE "PENDING",
                     owners |-> IF PageThere(c) THEN pages[ThePage(c)].owners ELSE {}]
    <2>1. /\ Goto(c, IF PageThere(c) THEN Op(c) ELSE "refused")
          /\ saw' = [saw EXCEPT ![c] = v] /\ UNCHANGED <<pages, membership>>
      BY <1>8 DEF JoinRead, Keep
    <2>2. v.status \in PageMemberStatus
      BY DEF PageMemberStatus
    <2> HIDE DEF v
    <2>3. saw'[c] = v /\ \A d \in Come : d # c => saw'[d] = saw[d]
      BY <2>1 DEF RequestInv
    <2>4. pc'[c] = "join" => ThePage(c) \in DOMAIN pages
      BY <2>1, OneGoes DEF PageThere
    <2>5. Come' = Come /\ UNCHANGED sent /\ \A d \in Come : d # c => pc'[d] = pc[d]
      BY <2>1, OneGoes
    <2>6. QED
      BY <2>1, <2>2, <2>3, <2>4, <2>5, SamePages, PageStays
  <1>9. CASE Op(c) = "join" /\ JoinWrite(c)
    <2> DEFINE key == <<ThePage(c), sent[c].m>>
    <2>1. /\ \E l \in {"tellOwners", "done"} : Goto(c, l)
          /\ pc[c] = "join" /\ UNCHANGED <<saw, pages>>
          /\ membership' = Put(membership, key, saw[c].status)
      BY <1>9 DEF JoinWrite
    <2>2. key[1] \in DOMAIN pages' /\ saw[c].status \in PageMemberStatus
      BY <1>9, <2>1 DEF PageTypes
    <2> HIDE DEF key
    <2>3. MembershipKept
      BY <2>1, <2>2 DEF Put, PageTypes, MembershipKept
    <2>4. QED
      BY <1>2, <2>1, <2>3, SamePages
  <1>10. CASE LeaveWrite(c)
    <2>1. Goto(c, "done") /\ UNCHANGED <<saw, pages>> /\ membership' = Without(<<ThePage(c), sent[c].m>>)
      BY <1>10 DEF LeaveWrite
    <2>2. QED
      BY <1>2, <2>1, SamePages DEF Without
  <1>11. QED
    BY <1>3, <1>4, <1>5, <1>6, <1>7, <1>8, <1>9, <1>10 DEF PageStep

LEMMA PageTypesSweep ==
  ASSUME PageTypes, PageSweep, UNCHANGED request
  PROVE  PageTypes'
  <1>1. Come' = Come /\ UNCHANGED <<sent, pc, saw>>
    BY DEF request, Come
  <1>2. UNCHANGED membership
    BY DEF PageSweep, SweepExpired, SweepSoon, SweepRemind
  <1>3. PagesKept
    BY SamePages, PagesMarked DEF PageSweep, SweepExpired, SweepSoon, SweepRemind, SubscriptionStatus
  <1>4. QED
    BY <1>1, <1>2, <1>3, SamePages, PageStays

LEMMA PageUntouched ==
  ASSUME PageTypes, UNCHANGED pageVars, Come' = Come, UNCHANGED sent, Apart(PageOps)
  PROVE  PageTypes'
  <1>1. UNCHANGED <<pages, membership>>
    BY DEF pageVars
  <1>2. ASSUME NEW d \in Come, Op(d) = "join", pc'[d] = "join"
        PROVE  pc[d] = "join" /\ saw'[d] = saw[d]
    BY <1>2 DEF Apart, PageOps
  <1>3. QED
    BY <1>1, <1>2, SamePages, PageStays

-----------------------------------------------------------------------------
(* The types: the feed *)

FeedRows ==
    /\ IsFiniteSet(DOMAIN posts) /\ \A p \in DOMAIN posts : PostRow(posts[p])
    /\ \A v \in DOMAIN votes : v[1] \in DOMAIN polls
    /\ \A c \in Come : Op(c) = "vote" /\ pc[c] = "vote" => sent[c].poll \in DOMAIN polls

PostsKept ==
    /\ IsFiniteSet(DOMAIN posts')
    /\ \A p \in DOMAIN posts' : PostRow(posts'[p])

LEMMA FeedRowsStay ==
  ASSUME FeedRows, PostsKept, DOMAIN polls \subseteq DOMAIN polls', Come' = Come, UNCHANGED sent,
         \A v \in DOMAIN votes' : v \in DOMAIN votes \/ v[1] \in DOMAIN polls',
         \A d \in Come : Op(d) = "vote" /\ pc'[d] = "vote" =>
             pc[d] = "vote" \/ sent[d].poll \in DOMAIN polls'
  PROVE  FeedRows'
  <1>1. \A d \in Come : Op(d)' = Op(d)
    BY DEF Op
  <1>2. \A v \in DOMAIN votes' : v[1] \in DOMAIN polls'
    BY DEF FeedRows
  <1>3. ASSUME NEW d \in Come, Op(d)' = "vote", pc'[d] = "vote"
        PROVE  sent'[d].poll \in DOMAIN polls'
    BY <1>1, <1>3 DEF FeedRows
  <1>4. QED
    BY <1>2, <1>3 DEF FeedRows, PostsKept

\* A post after one of its other columns, or the switch, was written.
LEMMA PostWritten ==
  ASSUME NEW row, PostRow(row), NEW on \in BOOLEAN
  PROVE  /\ PostRow([row EXCEPT !.active = on])
         /\ PostRow([row EXCEPT !.gone = TRUE])
         /\ PostRow([[row EXCEPT !.gone = TRUE] EXCEPT !.active = FALSE])
  BY DEF PostRow

LEMMA SamePosts ==
  ASSUME FeedRows, posts' = posts
  PROVE  PostsKept
  BY DEF FeedRows, PostsKept

LEMMA PostReplaced ==
  ASSUME FeedRows, NEW p, NEW row, p \in DOMAIN posts => PostRow(row), posts' = [posts EXCEPT ![p] = row]
  PROVE  PostsKept
  <1>1. DOMAIN posts' = DOMAIN posts /\ \A q \in DOMAIN posts : posts'[q] = IF q = p THEN row ELSE posts[q]
    OBVIOUS
  <1>2. QED
    BY <1>1 DEF FeedRows, PostsKept

LEMMA PostsSwitched ==
  ASSUME FeedRows, NEW which, NEW on \in BOOLEAN, posts' = Switch(which, on)
  PROVE  PostsKept
  <1>1. DOMAIN posts' = DOMAIN posts
    BY DEF Switch
  <1>2. \A p \in DOMAIN posts : posts'[p] \in {posts[p], [posts[p] EXCEPT !.active = on]}
    BY DEF Switch
  <1>3. ASSUME NEW p \in DOMAIN posts
        PROVE  PostRow(posts'[p])
    <2>1. PostRow(posts[p]) /\ posts'[p] \in {posts[p], [posts[p] EXCEPT !.active = on]}
      BY <1>2 DEF FeedRows
    <2>2. PostRow([posts[p] EXCEPT !.active = on])
      BY <2>1, PostWritten
    <2>3. QED
      BY <2>1, <2>2
  <1>4. QED
    BY <1>1, <1>3 DEF FeedRows, PostsKept

LEMMA FeedRowsStep ==
  ASSUME RequestInv, FeedRows, NEW c \in Come, FeedStep(c)
  PROVE  FeedRows'
  <1> USE DEF Move, feedVars
  <1>1. Input[c] = sent[c] /\ c \in Calls
    BY DEF RequestInv
  <1>2. ASSUME NEW l, Goto(c, l), l # "vote", UNCHANGED <<polls, votes>>, PostsKept
        PROVE  FeedRows'
    BY <1>2, OneGoes, FeedRowsStay
  <1>3. CASE Op(c) = "post" /\ CreatePost(c)
    <2> DEFINE on == ~sent[c].body.manual \/ Begun(sent[c].body.starts)
               row == [sent[c].body EXCEPT !.active = on]
    <2>1. posts' = Put(posts, c, row) /\ Goto(c, "done") /\ UNCHANGED <<polls, votes>>
      BY <1>3 DEF CreatePost
    <2>2. on \in BOOLEAN
      OBVIOUS
    <2>3. PostRow(sent[c].body)
      BY <1>1, <1>3, FeedAssumption DEF Op
    <2>4. PostRow(row)
      BY <2>2, <2>3, PostWritten
    <2> HIDE DEF row
    <2>5. DOMAIN posts' = DOMAIN posts \union {c} /\ \A p \in DOMAIN posts' : PostRow(posts'[p])
      BY <2>1, <2>4 DEF Put, FeedRows
    <2>6. PostsKept
      BY <2>5, FS_AddElement DEF FeedRows, PostsKept
    <2>7. QED
      BY <1>2, <2>1, <2>6
  <1>4. CASE Op(c) \in {"editPost", "deletePost"} /\ PostRead(c)
    <2>1. /\ \E l \in {"editPost", "deletePost", "refused"} : Goto(c, l)
          /\ UNCHANGED <<posts, polls, votes>>
      BY <1>4 DEF PostRead
    <2>2. QED
      BY <1>2, <2>1, SamePosts
  <1>5. CASE Op(c) = "editPost" /\ PostEdit(c)
    <2> DEFINE p == ThePost(c)
               body == sent[c].body
               old == Updated(posts[p], body)
               on == IF "starts" \in DOMAIN body THEN Begun(body.starts) ELSE old.active
               row == [old EXCEPT !.active = on]
    <2>1. Goto(c, "done") /\ UNCHANGED <<polls, votes>> /\ posts' = [posts EXCEPT ![p] = row]
      BY <1>5 DEF PostEdit
    <2>2. p \in DOMAIN posts => PostRow(row)
      <3> SUFFICES ASSUME p \in DOMAIN posts PROVE PostRow(row)
        OBVIOUS
      <3>1. PostRow(posts[p])
        BY DEF FeedRows
      <3>2. /\ "active" \in DOMAIN body => body.active \in BOOLEAN
            /\ "tie" \in DOMAIN body => body.tie \in Ties
        BY <1>1, <1>5, FeedAssumption DEF Op
      <3>3. PostRow(old)
        BY <3>1, <3>2 DEF PostRow, Updated
      <3> HIDE DEF old
      <3>4. on \in BOOLEAN
        BY <3>3 DEF PostRow, Begun
      <3>5. QED
        BY <3>3, <3>4, PostWritten
    <2> HIDE DEF row, p
    <2>3. PostsKept
      BY <2>1, <2>2, PostReplaced
    <2>4. QED
      BY <1>2, <2>1, <2>3
  <1>6. CASE PostDelete(c)
    <2> DEFINE p == ThePost(c)
               row == [[posts[p] EXCEPT !.gone = TRUE] EXCEPT !.active = FALSE]
    <2>1. Goto(c, "done") /\ UNCHANGED <<polls, votes>> /\ posts' = [posts EXCEPT ![p] = row]
      BY <1>6 DEF PostDelete
    <2>2. p \in DOMAIN posts => PostRow(row)
      BY PostWritten DEF FeedRows
    <2> HIDE DEF row, p
    <2>3. PostsKept
      BY <2>1, <2>2, PostReplaced
    <2>4. QED
      BY <1>2, <2>1, <2>3
  <1>7. CASE LikeRead(c) \/ LikeCreate(c) \/ LikeDelete(c) \/ ViewRead(c) \/ ViewCreate(c)
    <2>1. /\ \E l \in {"like", "unlike", "done", "count", "see", "failed"} : Goto(c, l)
          /\ UNCHANGED <<posts, polls, votes>>
      BY <1>7 DEF LikeRead, LikeCreate, LikeDelete, ViewRead, ViewCreate
    <2>2. QED
      BY <1>2, <2>1, SamePosts
  <1>8. CASE BookmarkWrite(c) \/ ShareOrClick(c) \/ \E field, n : Count(c, field, n)
    <2>1. /\ \E l \in {"done", "count"} : Goto(c, l)
          /\ UNCHANGED <<posts, polls, votes>>
      BY <1>8 DEF BookmarkWrite, ShareOrClick, Count
    <2>2. QED
      BY <1>2, <2>1, SamePosts
  <1>9. CASE PollWrite(c)
    <2>1. Goto(c, "done") /\ UNCHANGED votes /\ DOMAIN polls \subseteq DOMAIN polls'
      BY <1>9 DEF PollWrite, Put
    <2>2. PostsKept
      <3>1. CASE UNCHANGED posts
        BY <3>1, SamePosts
      <3>2. CASE posts' = [posts EXCEPT ![polls[sent[c].poll].post].gone = TRUE]
        <4> DEFINE q == polls[sent[c].poll].post
                   row == [posts[q] EXCEPT !.gone = TRUE]
        <4>1. posts' = [posts EXCEPT ![q] = row]
          BY <3>2
        <4>2. q \in DOMAIN posts => PostRow(row)
          BY PostWritten DEF FeedRows
        <4> HIDE DEF row, q
        <4>3. QED
          BY <4>1, <4>2, PostReplaced
      <3>3. QED
        BY <1>9, <3>1, <3>2 DEF PollWrite
    <2>3. QED
      BY <2>1, <2>2, OneGoes, FeedRowsStay
  <1>10. CASE VoteRead(c)
    <2>1. /\ \/ Goto(c, "refused")
             \/ Goto(c, "vote") /\ sent[c].poll \in DOMAIN polls
          /\ UNCHANGED <<posts, polls, votes>>
      BY <1>10 DEF VoteRead
    <2>2. QED
      BY <1>2, <2>1, OneGoes, SamePosts, FeedRowsStay
  <1>11. CASE Op(c) = "vote" /\ VoteWrite(c)
    <2> DEFINE key == <<sent[c].poll, sent[c].by>>
    <2>1. /\ pc[c] = "vote" /\ Goto(c, "done") /\ UNCHANGED <<posts, polls>>
          /\ votes' = Put(votes, key, sent[c].option)
      BY <1>11 DEF VoteWrite
    <2>2. key[1] \in DOMAIN polls
      BY <1>11, <2>1 DEF FeedRows
    <2> HIDE DEF key
    <2>3. DOMAIN votes' = DOMAIN votes \union {key}
      BY <2>1 DEF Put
    <2>4. QED
      BY <2>1, <2>2, <2>3, OneGoes, SamePosts, FeedRowsStay
  <1>12. QED
    BY <1>3, <1>4, <1>5, <1>6, <1>7, <1>8, <1>9, <1>10, <1>11 DEF FeedStep

LEMMA FeedRowsSwitch ==
  ASSUME FeedRows, FeedRefresh, UNCHANGED request
  PROVE  FeedRows'
  <1>1. Come' = Come /\ UNCHANGED <<sent, pc>>
    BY DEF request, Come
  <1>2. UNCHANGED <<polls, votes>>
    BY DEF FeedRefresh, RefreshOn, RefreshOff
  <1>3. PostsKept
    BY PostsSwitched DEF FeedRefresh, RefreshOn, RefreshOff
  <1>4. QED
    BY <1>1, <1>2, <1>3, FeedRowsStay

LEMMA FeedRowsUntouched ==
  ASSUME FeedRows, UNCHANGED feedVars, Come' = Come, UNCHANGED sent, Apart(FeedOps)
  PROVE  FeedRows'
  <1>1. UNCHANGED <<posts, polls, votes>>
    BY DEF feedVars
  <1>2. \A d \in Come : Op(d) = "vote" /\ pc'[d] = "vote" => pc[d] = "vote"
    BY DEF Apart, FeedOps
  <1>3. QED
    BY <1>1, <1>2, SamePosts, FeedRowsStay

\* A finite set of posts can be listed by their ranks: one with the highest
\* rank comes after the others.
LEMMA HighestRank ==
  ASSUME NEW S, IsFiniteSet(S), S # {}, NEW rank, \A x \in S : rank[x] \in Int
  PROVE  \E m \in S : \A x \in S : rank[x] <= rank[m]
  <1> DEFINE Highless == {U \in SUBSET S : U # {} /\ ~ \E m \in U : \A x \in U : rank[x] <= rank[m]}
  <1> SUFFICES ASSUME Highless # {} PROVE FALSE
    OBVIOUS
  <1>1. PICK U \in Highless : \A V \in Highless : V \subseteq U => V = U
    <2>1. Highless \subseteq SUBSET S
      OBVIOUS
    <2> HIDE DEF Highless
    <2>2. QED
      BY <2>1, SmallestSubset
  <1>2. PICK u \in U : TRUE
    BY <1>1
  <1>3. CASE U \ {u} = {}
    BY <1>1, <1>2, <1>3
  <1>4. CASE U \ {u} # {}
    <2>1. U \ {u} \in SUBSET S /\ U \ {u} # U /\ U \ {u} \subseteq U
      BY <1>1, <1>2
    <2>2. PICK m \in U \ {u} : \A x \in U \ {u} : rank[x] <= rank[m]
      BY <1>1, <1>4, <2>1
    <2>3. U \subseteq S
      BY <1>1
    <2>4. CASE rank[m] <= rank[u]
      <3>1. \A x \in U : rank[x] <= rank[u]
        BY <2>2, <2>3, <2>4
      <3>2. QED
        BY <1>1, <1>2, <3>1
    <2>5. CASE ~(rank[m] <= rank[u])
      <3>1. \A x \in U : rank[x] <= rank[m]
        BY <2>2, <2>3, <2>5
      <3>2. QED
        BY <1>1, <2>2, <3>1
    <2>6. QED
      BY <2>4, <2>5
  <1>5. QED
    BY <1>3, <1>4

\* f lists the elements of S by their ranks.
Lists(f, S, rank) ==
    /\ f \in [1 .. Cardinality(S) -> S] /\ ToSet(f) = S
    /\ \A i, j \in DOMAIN f : i < j => rank[f[i]] <= rank[f[j]]

LEMMA SortedListing ==
  ASSUME NEW S, IsFiniteSet(S), NEW rank, \A x \in S : rank[x] \in Int
  PROVE  \E f : Lists(f, S, rank)
  <1> DEFINE Unlisted == {U \in SUBSET S : ~ \E f : Lists(f, U, rank)}
  <1> SUFFICES ASSUME Unlisted # {} PROVE FALSE
    OBVIOUS
  <1>1. PICK U \in Unlisted : \A V \in Unlisted : V \subseteq U => V = U
    <2>1. Unlisted \subseteq SUBSET S
      OBVIOUS
    <2> HIDE DEF Unlisted
    <2>2. QED
      BY <2>1, SmallestSubset
  <1>2. U \subseteq S /\ IsFiniteSet(U) /\ ~ \E f : Lists(f, U, rank)
    BY <1>1, FS_Subset
  <1>3. CASE U = {}
    <2>1. Cardinality(U) = 0
      BY <1>3, FS_EmptySet
    <2> DEFINE e == [i \in 1 .. 0 |-> i]
    <2>2. e \in [1 .. Cardinality(U) -> U] /\ ToSet(e) = U
      BY <1>3, <2>1 DEF ToSet
    <2>3. Lists(e, U, rank)
      BY <2>2 DEF Lists
    <2>4. QED
      BY <1>2, <2>3
  <1>4. CASE U # {}
    <2>1. PICK m \in U : \A x \in U : rank[x] <= rank[m]
      BY <1>2, <1>4, HighestRank
    <2> DEFINE R == U \ {m}
               n == Cardinality(R)
    <2>2. IsFiniteSet(R) /\ n \in Nat /\ Cardinality(U) = n + 1
      <3>1. Cardinality(U) - 1 = Cardinality(R) /\ IsFiniteSet(R)
        BY <1>2, <2>1, FS_RemoveElement
      <3>2. Cardinality(U) \in Nat /\ Cardinality(R) \in Nat
        BY <1>2, <3>1, FS_CardinalityType
      <3>3. QED
        BY <3>1, <3>2
    <2>3. R \in SUBSET S /\ R # U /\ R \subseteq U
      BY <1>2, <2>1
    <2>4. PICK g : Lists(g, R, rank)
      BY <1>1, <2>3
    <2> HIDE DEF n
    <2>5. g \in [1 .. n -> R] /\ ToSet(g) = R /\ \A i, j \in 1 .. n : i < j => rank[g[i]] <= rank[g[j]]
      BY <2>4 DEF Lists, n
    <2> DEFINE f == [i \in 1 .. n + 1 |-> IF i = n + 1 THEN m ELSE g[i]]
    <2>6. f \in [1 .. n + 1 -> U] /\ DOMAIN f = 1 .. n + 1
      BY <2>1, <2>2, <2>5
    <2>7. f[n + 1] = m /\ \A i \in 1 .. n : f[i] = g[i]
      BY <2>2
    <2> HIDE DEF f
    <2>8. ToSet(f) = U
      <3>1. \A x \in R : \E i \in 1 .. n : g[i] = x
        BY <2>5 DEF ToSet
      <3>2. \A x \in U : \E i \in 1 .. n + 1 : f[i] = x
        <4> SUFFICES ASSUME NEW x \in U PROVE \E i \in 1 .. n + 1 : f[i] = x
          OBVIOUS
        <4>1. CASE x = m
          BY <2>2, <2>7, <4>1
        <4>2. CASE x # m
          <5>1. PICK i \in 1 .. n : g[i] = x
            BY <3>1, <4>2
          <5>2. i \in 1 .. n + 1
            BY <2>2
          <5>3. QED
            BY <2>7, <5>1, <5>2
        <4>3. QED
          BY <4>1, <4>2
      <3>3. QED
        BY <2>6, <3>2 DEF ToSet
    <2>9. ASSUME NEW i \in 1 .. n + 1, NEW j \in 1 .. n + 1, i < j
          PROVE  rank[f[i]] <= rank[f[j]]
      <3>1. CASE j = n + 1
        BY <2>1, <2>6, <2>7, <3>1
      <3>2. CASE j # n + 1
        <4>1. i \in 1 .. n /\ j \in 1 .. n
          BY <2>2, <2>9, <3>2
        <4>2. QED
          BY <2>5, <2>7, <2>9, <4>1
      <3>3. QED
        BY <3>1, <3>2
    <2>10. Lists(f, U, rank)
      BY <2>2, <2>6, <2>8, <2>9 DEF Lists
    <2>11. QED
      BY <1>2, <2>10
  <1>5. QED
    BY <1>3, <1>4

\* The feed of every member is in the order of its ranks.
LEMMA Priorities ==
  ASSUME NEW tie \in Ties
  PROVE  FeedPriority(tie) \in Int
  <1>1. /\ tie = "followed" => FeedPriority(tie) = 0
        /\ tie = "community" => FeedPriority(tie) = 1000
        /\ tie = "near" => FeedPriority(tie) = 2001
        /\ tie = "city" => FeedPriority(tie) = 2004
        /\ tie = "state" => FeedPriority(tie) = 2006
        /\ tie = "country" => FeedPriority(tie) = 2007
        /\ tie = "global" => FeedPriority(tie) = 9000
        /\ tie = "none" => FeedPriority(tie) = Unranked
    BY DEF FeedPriority
  <1>2. QED
    BY <1>1 DEF Ties, Unranked

LEMMA RanksAreNumbers ==
  ASSUME FeedRows, NEW p \in DOMAIN posts, NEW m
  PROVE  RankPost(p, m) \in Int
  <1>1. posts[p].tie \in Ties
    BY DEF FeedRows, PostRow
  <1>2. FeedPriority(posts[p].tie) \in Int
    BY <1>1, Priorities
  <1>3. QED
    BY <1>2 DEF RankPost

LEMMA FeedSorted ==
  ASSUME FeedRows, NEW m
  PROVE  LET feed == SmartFeed(m, FALSE) IN
         \A i, j \in DOMAIN feed : i < j => RankPost(feed[i], m) <= RankPost(feed[j], m)
  <1> DEFINE Ranked == {p \in Candidates(m, FALSE) : RankPost(p, m) < Unranked}
             Sorted(feed, S) == /\ ToSet(feed) = S
                                /\ \A i, j \in DOMAIN feed : i < j => RankPost(feed[i], m) <= RankPost(feed[j], m)
  <1>1. PICK shown : shown = Ranked
    OBVIOUS
  <1>2. SmartFeed(m, FALSE) = CHOOSE feed \in [1 .. Cardinality(shown) -> shown] : Sorted(feed, shown)
    BY <1>1 DEF SmartFeed
  <1>3. shown \in SUBSET DOMAIN posts
    BY <1>1 DEF Candidates
  <1> HIDE DEF Ranked
  <1>4. IsFiniteSet(shown)
    BY <1>3, FS_Subset DEF FeedRows
  <1>5. PICK rank : rank = [p \in shown |-> RankPost(p, m)]
    OBVIOUS
  <1>6. \A p \in shown : rank[p] \in Int
    BY <1>3, <1>5, RanksAreNumbers
  <1>7. PICK f : Lists(f, shown, rank)
    BY <1>4, <1>6, SortedListing
  <1>8. f \in [1 .. Cardinality(shown) -> shown] /\ ToSet(f) = shown
    BY <1>7 DEF Lists
  <1>9. \A i \in DOMAIN f : rank[f[i]] = RankPost(f[i], m)
    BY <1>5, <1>8
  <1>10. Sorted(f, shown)
    BY <1>7, <1>8, <1>9 DEF Lists
  <1> HIDE DEF Sorted
  <1>11. Sorted(SmartFeed(m, FALSE), shown)
    BY <1>2, <1>8, <1>10
  <1>12. QED
    BY <1>11 DEF Sorted

-----------------------------------------------------------------------------
(* The types: offers. A reminder goes out once for every time its job is    *)
(* tried.                                                                   *)

OfferTally == [views : Nat, clicks : Nat, shares : Nat]
Row(j) == <<j[2], j[3][1], j[3][2]>>

\* How often a reminder may have gone out: once for every attempt that failed,
\* and once for the one that got past it.
Sendings(j) == jobs[j].tries + (IF jobs[j].state = "completed" \/ Held(j, "end") THEN 1 ELSE 0)

OfferTypes ==
    /\ \A o \in DOMAIN offers : "gone" \in DOMAIN offers[o] /\ offers[o].gone \in BOOLEAN
    /\ DOMAIN offers \subseteq DOMAIN offerCounts
    /\ \A o \in DOMAIN offerCounts : offerCounts[o] \in OfferTally

\* j is the job of a reminder of the schedule of the offer that c creates.
Scheduled(j, c, p) ==
    /\ Op(c) = "createOffer" /\ j = ReminderJob(c, p)
    /\ p \in Schedule(sent[c].starts, sent[c].ends)

ReminderTypes ==
    /\ \A j \in OfferJobs : jobs[j] # NoJob => \E c \in Come : \E p : Scheduled(j, c, p)
    /\ \A k \in DOMAIN reminded :
           /\ reminded[k] \in Nat \ {0}
           /\ \E j \in OfferJobs : jobs[j] # NoJob /\ Row(j) = k /\ reminded[k] <= Sendings(j)

LEMMA NoCountsYet == [views |-> 0, clicks |-> 0, shares |-> 0] \in OfferTally
  BY DEF OfferTally

LEMMA OfferTypesStep ==
  ASSUME RequestInv, OfferTypes, NEW c \in Come, OfferStep(c)
  PROVE  OfferTypes'
  <1> USE DEF Move, offerVars
  <1>1. Input[c] = sent[c] /\ c \in Calls
    BY DEF RequestInv
  <1>2. CASE CreateOffer(c)
    <2> DEFINE i == sent[c]
               row == [starts |-> i.starts, ends |-> i.ends, gone |-> FALSE, for |-> i.for,
                       featuredUntil |-> i.starts + FeaturedDays(i.ends - i.starts)]
               none == [views |-> 0, clicks |-> 0, shares |-> 0]
    <2>1. "gone" \in DOMAIN row /\ row.gone \in BOOLEAN /\ none \in OfferTally
      BY NoCountsYet
    <2>2. offers' = Put(offers, c, row) /\ offerCounts' = Put(offerCounts, c, none)
      BY <1>2 DEF CreateOffer
    <2> HIDE DEF row, none
    <2>3. QED
      BY <2>1, <2>2 DEF Put, OfferTypes
  <1>3. CASE Op(c) = "updateOffer" /\ UpdateOffer(c)
    <2> DEFINE o == sent[c].offer
               row == Updated(offers[o], sent[c].body)
    <2>1. /\ offers' = IF o \in DOMAIN offers THEN Put(offers, o, row) ELSE offers
          /\ UNCHANGED offerCounts
      BY <1>3 DEF UpdateOffer
    <2>2. o \in DOMAIN offers => "gone" \in DOMAIN row /\ row.gone \in BOOLEAN
      <3>1. "gone" \in DOMAIN sent[c].body => sent[c].body.gone \in BOOLEAN
        BY <1>1, <1>3, OffersAssumption DEF Op
      <3>2. QED
        BY <3>1 DEF OfferTypes, Updated
    <2> HIDE DEF row, o
    <2>3. QED
      BY <2>1, <2>2 DEF Put, OfferTypes
  <1>4. CASE TrackOffer(c)
    <2> DEFINE o == sent[c].offer
               k == sent[c].kind
               t == [offerCounts[o] EXCEPT ![k] = offerCounts[o][k] + 1]
    <2>1. UNCHANGED offers /\ offerCounts' = [offerCounts EXCEPT ![o] = t] /\ o \in DOMAIN offers
      BY <1>4 DEF TrackOffer
    <2>2. offerCounts[o] \in OfferTally
      BY <2>1 DEF OfferTypes
    <2>3. t \in OfferTally
      <3>1. CASE k = "views"
        BY <2>2, <3>1 DEF OfferTally
      <3>2. CASE k = "clicks"
        BY <2>2, <3>2 DEF OfferTally
      <3>3. CASE k = "shares"
        BY <2>2, <3>3 DEF OfferTally
      <3>4. CASE k \notin {"views", "clicks", "shares"}
        BY <2>2, <3>4 DEF OfferTally
      <3>5. QED
        BY <3>1, <3>2, <3>3, <3>4
    <2> HIDE DEF t, o
    <2>4. QED
      BY <2>1, <2>3 DEF OfferTypes
  <1>5. CASE ScheduleReminder(c) \/ OfferCard(c) \/ SaveOffer(c)
    <2>1. UNCHANGED <<offers, offerCounts>>
      BY <1>5 DEF ScheduleReminder, OfferCard, SaveOffer
    <2>2. QED
      BY <2>1 DEF OfferTypes
  <1>6. QED
    BY <1>2, <1>3, <1>4, <1>5 DEF OfferStep

\* A reminder is queued under one day.
LEMMA OneDay ==
  ASSUME NEW s, NEW e, NEW p \in Schedule(s, e), NEW q \in Schedule(s, e), p[1] = q[1], p[2] = q[2]
  PROVE  p = q
  <1> DEFINE first(k) == s + (k - 1) * CYCLE
  <1>1. \A x \in Schedule(s, e) : \/ x = <<"DAY1", x[2], first(x[2])>>
                                  \/ x = <<"DAY15", x[2], first(x[2]) + MID_CYCLE>>
                                  \/ x = <<"EXPIRY_24H", 0, e - 1>>
    BY DEF Schedule
  <1> HIDE DEF first
  <1>2. \A x \in Schedule(s, e) : \/ x[1] = "DAY1" /\ x = <<"DAY1", x[2], first(x[2])>>
                                  \/ x[1] = "DAY15" /\ x = <<"DAY15", x[2], first(x[2]) + MID_CYCLE>>
                                  \/ x[1] = "EXPIRY_24H" /\ x = <<"EXPIRY_24H", 0, e - 1>>
    BY <1>1
  <1>3. QED
    BY <1>2

\* ... and by one job.
LEMMA OneJob ==
  ASSUME ReminderTypes, NEW j \in OfferJobs, NEW k \in OfferJobs, jobs[j] # NoJob, jobs[k] # NoJob,
         Row(j) = Row(k)
  PROVE  j = k
  <1>1. PICK c \in Come : \E p : Scheduled(j, c, p)
    BY DEF ReminderTypes
  <1>2. PICK p : Scheduled(j, c, p)
    BY <1>1
  <1>3. PICK d \in Come : \E q : Scheduled(k, d, q)
    BY DEF ReminderTypes
  <1>4. PICK q : Scheduled(k, d, q)
    BY <1>3
  <1>5. c = d /\ p[1] = q[1] /\ p[2] = q[2]
    BY <1>2, <1>4 DEF Scheduled, ReminderJob, Row
  <1>6. p = q
    BY <1>2, <1>4, <1>5, OneDay DEF Scheduled
  <1>7. QED
    BY <1>2, <1>4, <1>5, <1>6 DEF Scheduled

\* Nothing is sent: jobs of offers are there still, and may have been sent for
\* as often as before.
LEMMA RemindersStay ==
  ASSUME ReminderTypes, UNCHANGED <<sent, reminded>>, Come' = Come,
         \A j \in OfferJobs : jobs'[j] # NoJob => jobs[j] # NoJob \/ \E c \in Come : \E p : Scheduled(j, c, p),
         \A j \in OfferJobs : jobs[j] # NoJob => jobs'[j] # NoJob /\ Sendings(j) <= Sendings(j)',
         QueueTypes, QueueTypes'
  PROVE  ReminderTypes'
  <1>1. \A j, c, p : Scheduled(j, c, p)' = Scheduled(j, c, p)
    BY DEF Scheduled, Op, ReminderJob, Schedule
  <1>2. \A j : Row(j)' = Row(j) /\ OfferJobs' = OfferJobs
    BY DEF Row, OfferJobs
  <1>3. \A j \in OfferJobs : Sendings(j) \in Nat /\ Sendings(j)' \in Nat
    BY DEF QueueTypes, JobType, Sendings, OfferJobs
  <1>4. ASSUME NEW k \in DOMAIN reminded
        PROVE  \E j \in OfferJobs : jobs'[j] # NoJob /\ Row(j) = k /\ reminded[k] <= Sendings(j)'
    <2>1. PICK j \in OfferJobs : jobs[j] # NoJob /\ Row(j) = k /\ reminded[k] <= Sendings(j)
      BY DEF ReminderTypes
    <2>2. jobs'[j] # NoJob /\ Sendings(j) <= Sendings(j)' /\ reminded[k] \in Nat
      BY <2>1 DEF ReminderTypes
    <2>3. QED
      BY <1>3, <2>1, <2>2
  <1>5. \A j \in OfferJobs : jobs'[j] # NoJob => \E c \in Come : \E p : Scheduled(j, c, p)
    BY DEF ReminderTypes
  <1>6. QED
    BY <1>1, <1>2, <1>4, <1>5 DEF ReminderTypes

\* The queue as the other services leave it to the offers.
LEMMA RemindersUntouched ==
  ASSUME ReminderTypes, UNCHANGED <<sent, reminded>>, Come' = Come, QueueTypes, QueueTypes',
         \A j \in OfferJobs : jobs'[j] = jobs[j]
  PROVE  ReminderTypes'
  <1>1. \A j \in OfferJobs : Sendings(j) \in Nat /\ Sendings(j)' = Sendings(j)
    BY DEF QueueTypes, JobType, Sendings, OfferJobs, Held
  <1>2. QED
    BY <1>1, RemindersStay

\* A reminder goes out for its job.
LEMMA ReminderSent ==
  ASSUME ReminderTypes, UNCHANGED sent, Come' = Come, QueueTypes, QueueTypes', NEW j \in OfferJobs,
         ReminderSend(j)
  PROVE  ReminderTypes'
  <1> DEFINE key == <<j[2], j[3][1], j[3][2]>>
             n == IF key \in DOMAIN reminded THEN reminded[key] + 1 ELSE 1
  <1>1. /\ j \in JobIds /\ jobs[j].state = "active" /\ jobs[j].at = "remind"
        /\ reminded' = Put(reminded, key, n) /\ jobs' = Taken(j, "end")
    BY DEF ReminderSend, Held, OfferJobs
  <1>2. /\ jobs'[j].state = "active" /\ jobs'[j].tries = jobs[j].tries /\ jobs'[j].at = "end"
        /\ \A i \in JobIds : i # j => jobs'[i] = jobs[i]
    BY <1>1 DEF Taken, QueueTypes
  <1>3. key = Row(j)
    BY DEF Row
  <1> HIDE DEF key, n
  <1>4. jobs[j] # NoJob /\ jobs'[j] # NoJob
    BY <1>1, <1>2 DEF NoJob
  <1>5. jobs[j].tries \in Nat /\ Sendings(j) = jobs[j].tries /\ Sendings(j)' = jobs[j].tries + 1
    BY <1>1, <1>2 DEF QueueTypes, JobType, Sendings, Held
  <1>6. n \in Nat \ {0} /\ n <= jobs[j].tries + 1
    <2>1. CASE key \in DOMAIN reminded
      <3>1. PICK i \in OfferJobs : jobs[i] # NoJob /\ Row(i) = key /\ reminded[key] <= Sendings(i)
        BY <2>1 DEF ReminderTypes
      <3>2. i = j
        BY <1>3, <1>4, <3>1, OneJob
      <3>3. reminded[key] \in Nat /\ n = reminded[key] + 1
        BY <2>1 DEF ReminderTypes, n
      <3>4. QED
        BY <1>5, <3>1, <3>2, <3>3
    <2>2. CASE key \notin DOMAIN reminded
      BY <1>5, <2>2 DEF n
    <2>3. QED
      BY <2>1, <2>2
  <1>7. DOMAIN reminded' = DOMAIN reminded \union {key} /\ reminded'[key] = n
        /\ \A k \in DOMAIN reminded : k # key => reminded'[k] = reminded[k]
    BY <1>1 DEF Put
  <1>8. \A i, c, p : Scheduled(i, c, p)' = Scheduled(i, c, p) /\ Row(i)' = Row(i) /\ OfferJobs' = OfferJobs
    BY DEF Scheduled, Op, ReminderJob, Schedule, Row, OfferJobs
  <1>9. ASSUME NEW k \in DOMAIN reminded'
        PROVE  /\ reminded'[k] \in Nat \ {0}
               /\ \E i \in OfferJobs : jobs'[i] # NoJob /\ Row(i) = k /\ reminded'[k] <= Sendings(i)'
    <2>1. CASE k = key
      BY <1>3, <1>4, <1>5, <1>6, <1>7, <2>1
    <2>2. CASE k # key
      <3>1. k \in DOMAIN reminded /\ reminded'[k] = reminded[k] /\ reminded[k] \in Nat \ {0}
        BY <1>7, <2>2 DEF ReminderTypes
      <3>2. PICK i \in OfferJobs : jobs[i] # NoJob /\ Row(i) = k /\ reminded[k] <= Sendings(i)
        BY <3>1 DEF ReminderTypes
      <3>3. i # j /\ jobs'[i] = jobs[i]
        BY <1>2, <1>3, <2>2, <3>2 DEF OfferJobs
      <3>4. Sendings(i)' = Sendings(i)
        BY <3>3 DEF Sendings, Held
      <3>5. QED
        BY <3>1, <3>2, <3>3, <3>4
    <2>3. QED
      BY <2>1, <2>2
  <1>10. ASSUME NEW i \in OfferJobs, jobs'[i] # NoJob
         PROVE  \E c \in Come : \E p : Scheduled(i, c, p)
    <2>1. jobs[i] # NoJob
      BY <1>2, <1>4, <1>10 DEF OfferJobs
    <2>2. QED
      BY <2>1 DEF ReminderTypes
  <1>11. QED
    BY <1>8, <1>9, <1>10 DEF ReminderTypes

\* A request about offers queues reminders of its schedule, or no job.
LEMMA OfferStepReminders ==
  ASSUME RequestInv, ReminderTypes, QueueTypes, QueueTypes', NEW c \in Come, OfferStep(c),
         UNCHANGED sent, Come' = Come
  PROVE  ReminderTypes'
  <1>1. UNCHANGED reminded
    BY DEF OfferStep, CreateOffer, ScheduleReminder, OfferCard, UpdateOffer, SaveOffer, TrackOffer, offerVars
  <1>2. CASE UNCHANGED jobs
    BY <1>1, <1>2, RemindersUntouched
  <1>3. CASE Op(c) = "createOffer" /\ ScheduleReminder(c)
    <2>1. PICK p \in Ahead(c) : /\ jobs[ReminderJob(c, p)] = NoJob
                                /\ jobs' = Added(ReminderJob(c, p))
      BY <1>3 DEF ScheduleReminder
    <2>2. Scheduled(ReminderJob(c, p), c, p)
      BY <1>3, <2>1 DEF Scheduled, Ahead
    <2> DEFINE n == ReminderJob(c, p)
    <2> HIDE DEF n
    <2>3. jobs' = [jobs EXCEPT ![n] = NewJob]
      BY <2>1 DEF Added, n
    <2>4. /\ \A j \in JobIds : j # n => jobs'[j] = jobs[j]
          /\ n \in JobIds => jobs'[n] = NewJob
      BY <2>3 DEF QueueTypes
    <2>5. \A j \in OfferJobs : jobs[j] # NoJob => j # n /\ jobs'[j] # NoJob /\ Sendings(j)' = Sendings(j)
      BY <2>1, <2>4 DEF Sendings, Held, OfferJobs, n
    <2>6. \A j \in OfferJobs : Sendings(j) \in Nat
      BY DEF QueueTypes, JobType, Sendings, OfferJobs
    <2>7. \A j \in OfferJobs : jobs[j] # NoJob => jobs'[j] # NoJob /\ Sendings(j) <= Sendings(j)'
      BY <2>5, <2>6
    <2>8. \A j \in OfferJobs : jobs'[j] # NoJob => jobs[j] # NoJob \/ \E d \in Come : \E q : Scheduled(j, d, q)
      BY <2>2, <2>4 DEF OfferJobs, n
    <2>9. QED
      BY <1>1, <2>7, <2>8, RemindersStay
  <1>4. QED
    BY <1>2, <1>3 DEF OfferStep, CreateOffer, OfferCard, UpdateOffer, SaveOffer, TrackOffer

\* The job of a reminder goes on, or fails: it may have been sent for as often.
LEMMA ReminderMoves ==
  ASSUME ReminderTypes, QueueTypes, QueueTypes', UNCHANGED <<sent, reminded>>, Come' = Come,
         NEW j \in OfferJobs, jobs[j] # NoJob, jobs' = [jobs EXCEPT ![j] = jobs'[j]],
         jobs'[j].state # "none", Sendings(j) <= Sendings(j)'
  PROVE  ReminderTypes'
  <1>1. \A i \in OfferJobs : i # j => jobs'[i] = jobs[i]
    BY DEF QueueTypes, OfferJobs
  <1>2. \A i \in OfferJobs : i # j => Sendings(i)' = Sendings(i) /\ Sendings(i) \in Nat
    BY <1>1 DEF Sendings, Held, QueueTypes, JobType, OfferJobs
  <1>3. \A i \in OfferJobs : jobs[i] # NoJob => jobs'[i] # NoJob /\ Sendings(i) <= Sendings(i)'
    BY <1>1, <1>2 DEF NoJob
  <1>4. \A i \in OfferJobs : jobs'[i] # NoJob => jobs[i] # NoJob
    BY <1>1
  <1>5. QED
    BY <1>3, <1>4, RemindersStay

LEMMA OfferWorkReminders ==
  ASSUME ReminderTypes, QueueTypes, QueueTypes', UNCHANGED sent, Come' = Come,
         NEW j \in OfferJobs, OfferWork(j) \/ (JobFails(j) /\ UNCHANGED offerVars)
  PROVE  ReminderTypes'
  <1> USE DEF offerVars
  <1>1. j \in JobIds /\ jobs[j] \in JobType /\ jobs[j].tries \in Nat
    BY DEF QueueTypes, JobType, OfferJobs
  <1>2. ASSUME jobs[j].state \in {"waiting", "active"}, UNCHANGED reminded,
               NEW s \in {"waiting", "active", "completed", "failed"}, NEW t \in Nat, NEW a,
               jobs' = [jobs EXCEPT ![j] = [state |-> s, tries |-> t, at |-> a]],
               t = jobs[j].tries + 1 \/ (t = jobs[j].tries /\ (Held(j, "end") => s = "completed"))
        PROVE  ReminderTypes'
    <2>1. jobs'[j] = [state |-> s, tries |-> t, at |-> a]
      BY <1>1, <1>2 DEF QueueTypes
    <2>2. jobs[j] # NoJob /\ jobs' = [jobs EXCEPT ![j] = jobs'[j]] /\ jobs'[j].state # "none"
      <3>1. NoJob.state = "none"
        BY DEF NoJob
      <3>2. jobs[j] # NoJob
        BY <1>2, <3>1
      <3>3. jobs' = [jobs EXCEPT ![j] = jobs'[j]]
        BY <1>2, <2>1
      <3>4. jobs'[j].state = s
        BY <2>1
      <3>5. QED
        BY <1>2, <3>2, <3>3, <3>4
    <2>3. /\ Sendings(j) = jobs[j].tries + (IF Held(j, "end") THEN 1 ELSE 0)
          /\ Sendings(j)' = t + (IF s = "completed" \/ (s = "active" /\ a = "end") THEN 1 ELSE 0)
      BY <1>2, <2>1 DEF Sendings, Held
    <2>4. Sendings(j) <= Sendings(j)'
      BY <1>1, <1>2, <2>3
    <2>5. QED
      BY <1>2, <2>2, <2>4, ReminderMoves
  <1>3. CASE JobFails(j) /\ UNCHANGED offerVars
    <2> DEFINE t == jobs[j].tries + 1
               s == IF t < Attempts THEN "waiting" ELSE "failed"
    <2>1. /\ jobs[j].state = "active" /\ UNCHANGED reminded
          /\ jobs' = [jobs EXCEPT ![j] = [state |-> s, tries |-> t, at |-> "start"]]
      BY <1>3 DEF JobFails
    <2>2. t \in Nat /\ s \in {"waiting", "failed"} /\ t = jobs[j].tries + 1
      BY <1>1
    <2> HIDE DEF t, s
    <2>3. QED
      BY <1>2, <2>1, <2>2
  <1>4. CASE ReminderRead(j)
    <2>1. /\ jobs[j].state = "waiting" /\ UNCHANGED reminded
          /\ jobs' = Finished(j) \/ jobs' = Taken(j, "remind")
      BY <1>4 DEF ReminderRead
    <2>2. \E s \in {"active", "completed"}, a \in JobLabels :
              jobs' = [jobs EXCEPT ![j] = [state |-> s, tries |-> jobs[j].tries, at |-> a]]
      BY <2>1 DEF Finished, Taken, JobLabels
    <2>3. ~Held(j, "end")
      BY <2>1 DEF Held
    <2>4. QED
      BY <1>1, <1>2, <2>1, <2>2, <2>3
  <1>5. CASE ReminderSend(j)
    BY <1>5, ReminderSent
  <1>6. CASE ReminderEnd(j)
    <2>1. /\ jobs[j].state = "active" /\ UNCHANGED reminded
          /\ jobs' = [jobs EXCEPT ![j] = [state |-> "completed", tries |-> jobs[j].tries, at |-> "start"]]
      BY <1>6 DEF ReminderEnd, Finished, Held
    <2>2. QED
      BY <1>1, <1>2, <2>1
  <1>7. QED
    BY <1>3, <1>4, <1>5, <1>6 DEF OfferWork

-----------------------------------------------------------------------------
(* The types: every part *)

TypesInv == NewsTypes /\ PageTypes /\ FeedRows /\ OfferTypes /\ QueueTypes /\ ReminderTypes

\* Every service moves the queue as a queue moves.
LEMMA QueueTypesStep ==
  ASSUME RequestInv, MailInv, QueueTypes, [Next]_vars
  PROVE  QueueTypes'
  <1> USE DEF newsVars, mailVars, offerVars
  <1>1. CASE UNCHANGED jobs
    BY <1>1 DEF QueueTypes
  <1>2. ASSUME NEW c, MailStep(c)
        PROVE  QueueTypes'
    <2>1. CASE Enqueue(c)
      <3>1. CASE jobs' = Added(Message(c, sent[c].user))
        BY <3>1, JobAdded
      <3>2. CASE jobs' = [j \in JobIds |-> IF \E u \in Audience[sent[c].audience] : j = Message(c, u)
                                           THEN NewJob ELSE jobs[j]]
        <4> DEFINE S == {j \in JobIds : \E u \in Audience[sent[c].audience] : j = Message(c, u)}
        <4>1. jobs' = [j \in JobIds |-> IF j \in S THEN NewJob ELSE jobs[j]]
          BY <3>2
        <4> HIDE DEF S
        <4>2. QED
          BY <4>1, MessagesQueuedTypes
      <3>3. QED
        BY <1>1, <2>1, <3>1, <3>2 DEF Enqueue
    <2>2. QED
      BY <1>1, <1>2, <2>1 DEF MailStep, PutPreference, OpenRead, OpenWrite
  <1>3. ASSUME NEW c, NewsStep(c) \/ OfferStep(c)
        PROVE  QueueTypes'
    <2>1. UNCHANGED jobs \/ \E k : jobs' = Added(k)
      BY <1>3 DEF NewsStep, PublishNews, NewsClock, NewsNotify, NewsRead, RestoreWrite, RestoreClock,
         NewsUpdate, DeleteNews, BookmarkNews, OfferStep, CreateOffer, ScheduleReminder, OfferCard,
         UpdateOffer, SaveOffer, TrackOffer
    <2>2. QED
      BY <1>1, <2>1, JobAdded
  <1>4. ASSUME NEW j \in JobIds, jobs[j].state \in {"waiting", "active"},
               NEW l \in JobLabels, jobs' \in {Taken(j, l), Finished(j)}
        PROVE  QueueTypes'
    BY <1>4, JobMoves
  <1>5. ASSUME NEW j \in NewsJobs, NewsWork(j)
        PROVE  QueueTypes'
    BY <1>4, <1>5 DEF NewsWork, ArchiveRead, ArchiveWrite, Held, JobLabels, NewsJobs
  <1>6. ASSUME NEW j \in OfferJobs, OfferWork(j)
        PROVE  QueueTypes'
    BY <1>4, <1>6 DEF OfferWork, ReminderRead, ReminderSend, ReminderEnd, Held, JobLabels, OfferJobs
  <1>7. ASSUME NEW j \in MailJobs, MailWork(j)
        PROVE  QueueTypes'
    <2>1. j \in JobIds
      BY DEF MailInv, MailIds
    <2>2. CASE UNCHANGED jobs
      BY <1>1, <2>2
    <2>3. CASE DispatchStart(j)
      BY <1>4, <2>1, <2>3 DEF DispatchStart, JobLabels
    <2>4. CASE LogQueued(j) \/ LogResult(j) \/ DispatchEnd(j)
      <3>1. jobs[j].state = "active" /\ \E l \in JobLabels : jobs' \in {Taken(j, l), Finished(j)}
        BY <2>4 DEF LogQueued, LogResult, DispatchEnd, Held, JobLabels
      <3>2. QED
        BY <1>4, <2>1, <3>1
    <2>5. QED
      BY <1>7, <2>2, <2>3, <2>4 DEF MailWork, SkipChannel
  <1>8. CASE CallStep
    BY <1>1, <1>2, <1>3, <1>8 DEF CallStep, feedVars
  <1>9. CASE WorkerStep
    BY <1>1, <1>5, <1>6, <1>7, <1>9 DEF WorkerStep
  <1>10. CASE Elsewhere
    BY <1>1, <1>10, JobFailed DEF Elsewhere
  <1>11. CASE UNCHANGED vars
    BY <1>1, <1>11 DEF vars
  <1>12. QED
    BY <1>8, <1>9, <1>10, <1>11 DEF Next

\* A step is one of the news, or one they do not notice; and so for the pages.
LEMMA NewsOrApart ==
  ASSUME RequestInv, [Next]_vars
  PROVE  \/ \E c \in Come : NewsStep(c)
         \/ \E j \in NewsJobs : NewsWork(j) /\ UNCHANGED request
         \/ UNCHANGED newsVars /\ Apart(NewsOps)
  <1>1. UNCHANGED request => Apart(NewsOps)
    BY DEF request, Apart, Died, Come
  <1>2. CASE CallStep
    <2>1. PICK c \in Busy :
            \/ NewsStep(c)
            \/ (MailStep(c) \/ PageStep(c) \/ OfferStep(c) \/ FeedStep(c)) /\ UNCHANGED newsVars
      BY <1>2 DEF CallStep
    <2>2. c \in Come /\ pc[c] # "dead"
      BY DEF Busy, Ended
    <2>3. CASE (MailStep(c) \/ PageStep(c) \/ OfferStep(c) \/ FeedStep(c)) /\ UNCHANGED newsVars
      <3>1. Goes(c) /\ Op(c) \notin NewsOps
        BY <2>3, MailGoes, PageGoes, OfferGoes, FeedGoes
           DEF NewsOps, MailOps, PageOps, OfferOps, FeedOps
      <3>2. QED
        BY <2>2, <2>3, <3>1, GoesApart
    <2>4. QED
      BY <2>1, <2>2, <2>3
  <1>3. CASE WorkerStep
    BY <1>1, <1>3 DEF WorkerStep
  <1>4. CASE Elsewhere
    BY <1>1, <1>4, DeathApart DEF Elsewhere
  <1>5. CASE UNCHANGED vars
    BY <1>1, <1>5 DEF vars
  <1>6. QED
    BY <1>2, <1>3, <1>4, <1>5 DEF Next

LEMMA PageOrApart ==
  ASSUME RequestInv, [Next]_vars
  PROVE  \/ \E c \in Come : PageStep(c)
         \/ PageSweep /\ UNCHANGED request
         \/ UNCHANGED pageVars /\ Apart(PageOps)
  <1>1. UNCHANGED request => Apart(PageOps)
    BY DEF request, Apart, Died, Come
  <1>2. CASE CallStep
    <2>1. PICK c \in Busy :
            \/ PageStep(c)
            \/ (NewsStep(c) \/ MailStep(c) \/ OfferStep(c) \/ FeedStep(c)) /\ UNCHANGED pageVars
      BY <1>2 DEF CallStep
    <2>2. c \in Come /\ pc[c] # "dead"
      BY DEF Busy, Ended
    <2>3. CASE (NewsStep(c) \/ MailStep(c) \/ OfferStep(c) \/ FeedStep(c)) /\ UNCHANGED pageVars
      <3>1. Goes(c) /\ Op(c) \notin PageOps
        BY <2>3, NewsGoes, MailGoes, OfferGoes, FeedGoes
           DEF NewsOps, MailOps, PageOps, OfferOps, FeedOps
      <3>2. QED
        BY <2>2, <2>3, <3>1, GoesApart
    <2>4. QED
      BY <2>1, <2>2, <2>3
  <1>3. CASE WorkerStep
    BY <1>1, <1>3 DEF WorkerStep
  <1>4. CASE Elsewhere
    BY <1>1, <1>4, DeathApart DEF Elsewhere
  <1>5. CASE UNCHANGED vars
    BY <1>1, <1>5 DEF vars
  <1>6. QED
    BY <1>2, <1>3, <1>4, <1>5 DEF Next

\* The jobs of offers move with the offers only, or they fail.
LEMMA OfferOrApart ==
  ASSUME RequestInv, MailInv, [Next]_vars
  PROVE  \/ \E c \in Come : OfferStep(c)
         \/ \E j \in OfferJobs : OfferWork(j) \/ (JobFails(j) /\ UNCHANGED offerVars)
         \/ UNCHANGED offerVars /\ \A j \in OfferJobs : jobs'[j] = jobs[j]
  <1> DEFINE Others == \A j \in OfferJobs : jobs'[j] = jobs[j]
  <1>1. ASSUME NEW k, k[1] # "offer", NEW l, jobs' \in {jobs, Added(k), Taken(k, l), Finished(k)}
        PROVE  Others
    BY <1>1, QueueChanges DEF OfferJobs, MailInv
  <1>2. jobs' = jobs => Others
    OBVIOUS
  <1>3. ASSUME NEW c, MailStep(c)
        PROVE  Others
    <2>1. \A u : Message(c, u)[1] # "offer"
      BY DEF Message
    <2>2. CASE Enqueue(c)
      <3>1. CASE jobs' = Added(Message(c, sent[c].user))
        BY <1>1, <2>1, <3>1
      <3>2. CASE jobs' = [j \in JobIds |-> IF \E u \in Audience[sent[c].audience] : j = Message(c, u)
                                           THEN NewJob ELSE jobs[j]]
        BY <2>1, <3>2 DEF OfferJobs
      <3>3. QED
        BY <1>2, <2>2, <3>1, <3>2 DEF Enqueue
    <2>3. QED
      BY <1>2, <1>3, <2>2 DEF MailStep, PutPreference, OpenRead, OpenWrite, mailVars
  <1>4. ASSUME NEW c, NewsStep(c)
        PROVE  Others
    <2>1. \A n : ArchiveJob(n)[1] # "offer" /\ RestoredJob(n, c)[1] # "offer"
      BY DEF ArchiveJob, RestoredJob
    <2>2. CASE NewsClock(c)
      BY <1>1, <2>1, <2>2 DEF NewsClock
    <2>3. CASE RestoreClock(c)
      BY <1>1, <2>1, <2>3 DEF RestoreClock
    <2>4. QED
      BY <1>2, <1>4, <2>2, <2>3 DEF NewsStep, PublishNews, NewsNotify, NewsRead, RestoreWrite, NewsUpdate,
         DeleteNews, BookmarkNews
  <1>5. ASSUME NEW j \in NewsJobs, NewsWork(j)
        PROVE  Others
    <2>1. j[1] # "offer" /\ jobs' \in {jobs, Added(j), Taken(j, "archive"), Finished(j)}
      BY <1>5 DEF NewsWork, ArchiveRead, ArchiveWrite, NewsJobs
    <2>2. QED
      BY <1>1, <2>1
  <1>6. ASSUME NEW j \in MailJobs, MailWork(j)
        PROVE  Others
    <2>1. j[1] # "offer"
      BY DEF MailInv, MailIds
    <2>2. \E l : jobs' \in {jobs, Added(j), Taken(j, l), Finished(j)}
      BY <1>6 DEF MailWork, DispatchStart, SkipChannel, LogQueued, LogResult, DispatchEnd
    <2>3. QED
      BY <1>1, <2>1, <2>2
  <1>7. ASSUME NEW j \in JobIds, JobFails(j), j \notin OfferJobs
        PROVE  Others
    BY <1>7 DEF JobFails
  <1> HIDE DEF Others
  <1>8. CASE CallStep
    BY <1>2, <1>3, <1>4, <1>8 DEF CallStep, Busy, Others
  <1>9. CASE WorkerStep
    BY <1>2, <1>5, <1>6, <1>9 DEF WorkerStep, Others
  <1>10. CASE Elsewhere
    BY <1>2, <1>7, <1>10 DEF Elsewhere, Others
  <1>11. CASE UNCHANGED vars
    BY <1>2, <1>11 DEF vars, Others
  <1>12. QED
    BY <1>8, <1>9, <1>10, <1>11 DEF Next

LEMMA InitTypes == Init => TypesInv
  <1> SUFFICES ASSUME NEW w \in Scenarios, RequestsInit(w), jobs = [j \in JobIds |-> NoJob],
                      NewsInit(w), PagesInit(w), OffersInit(w), FeedInit(w)
               PROVE  TypesInv
    BY DEF Init
  <1>1. \A c \in Come : pc[c] = "start"
    BY DEF RequestsInit, Come
  <1>2. NewsTypes
    BY <1>1, NewsAssumption DEF NewsInit, NewsTypes
  <1>3. PageTypes
    BY <1>1, PagesAssumption DEF PagesInit, PageTypes, Subscribed
  <1>4. FeedRows
    <2>1. DOMAIN votes = {}
      BY DEF FeedInit
    <2>2. QED
      BY <1>1, <2>1, FeedAssumption DEF FeedInit, FeedRows
  <1>5. OfferTypes
    BY NoCountsYet, OffersAssumption DEF OffersInit, OfferTypes
  <1>6. QueueTypes
    BY JobAssumption DEF QueueTypes, NoJob, JobType, JobLabels
  <1>7. ReminderTypes
    <2>1. DOMAIN reminded = {}
      BY DEF OffersInit
    <2>2. \A j \in OfferJobs : jobs[j] = NoJob
      BY DEF OfferJobs
    <2>3. QED
      BY <2>1, <2>2 DEF ReminderTypes
  <1>8. QED
    BY <1>2, <1>3, <1>4, <1>5, <1>6, <1>7 DEF TypesInv

LEMMA TypesStep == CommunityInv /\ TypesInv /\ [Next]_vars => TypesInv'
  <1> SUFFICES ASSUME RequestInv, FeedInv, MailInv, TypesInv, [Next]_vars
               PROVE  TypesInv'
    BY DEF CommunityInv
  <1> USE DEF TypesInv
  <1>1. Come' = Come /\ UNCHANGED sent
    BY RequestStep
  <1>2. QueueTypes'
    BY QueueTypesStep
  <1>3. NewsTypes'
    BY <1>1, NewsOrApart, NewsTypesStep, NewsTypesWork, NewsUntouched
  <1>4. PageTypes'
    BY <1>1, PageOrApart, PageTypesStep, PageTypesSweep, PageUntouched
  <1>5. FeedRows'
    BY <1>1, FeedOrApart, FeedRowsStep, FeedRowsSwitch, FeedRowsUntouched
  <1>6. OfferTypes' /\ ReminderTypes'
    <2>1. CASE \E c \in Come : OfferStep(c)
      BY <1>1, <1>2, <2>1, OfferTypesStep, OfferStepReminders
    <2>2. CASE \E j \in OfferJobs : OfferWork(j) \/ (JobFails(j) /\ UNCHANGED offerVars)
      <3>1. UNCHANGED <<offers, offerCounts>>
        BY <2>2 DEF OfferWork, ReminderRead, ReminderSend, ReminderEnd, offerVars
      <3>2. OfferTypes'
        BY <3>1 DEF OfferTypes
      <3>3. QED
        BY <1>1, <1>2, <2>2, <3>2, OfferWorkReminders
    <2>3. CASE UNCHANGED offerVars /\ \A j \in OfferJobs : jobs'[j] = jobs[j]
      <3>1. UNCHANGED <<offers, offerCounts, reminded>>
        BY <2>3 DEF offerVars
      <3>2. OfferTypes'
        BY <3>1 DEF OfferTypes
      <3>3. QED
        BY <1>1, <1>2, <2>3, <3>1, <3>2, RemindersUntouched
    <2>4. QED
      BY <2>1, <2>2, <2>3, OfferOrApart
  <1>7. QED
    BY <1>2, <1>3, <1>4, <1>5, <1>6

\* Rates are numbers: an offer nobody has seen has none.
LEMMA RateOfClicks ==
  ASSUME OfferTypes, NEW o \in DOMAIN offers
  PROVE  Clicks(o).ctr \in Nat
  <1>1. offerCounts[o].views \in Nat /\ offerCounts[o].clicks \in Nat
    BY DEF OfferTypes, OfferTally
  <1>2. \A a, b \in Nat : b # 0 => (a * 100) \div b \in Nat
    OBVIOUS
  <1>3. QED
    BY <1>1, <1>2 DEF Clicks

\* A reminder goes out as often as its job is tried at most.
LEMMA RemindedOften ==
  ASSUME QueueTypes, ReminderTypes, NEW k \in DOMAIN reminded
  PROVE  reminded[k] \in 1 .. Attempts
  <1>1. PICK j \in OfferJobs : reminded[k] <= Sendings(j)
    BY DEF ReminderTypes
  <1>2. /\ reminded[k] \in Nat \ {0} /\ jobs[j].tries \in 0 .. Attempts
        /\ jobs[j].state # "failed" => jobs[j].tries < Attempts
    BY DEF ReminderTypes, QueueTypes, JobType, OfferJobs
  <1>3. Sendings(j) <= Attempts /\ Sendings(j) \in Nat
    BY <1>2, JobAssumption DEF Sendings, Held
  <1>4. QED
    BY <1>1, <1>2, <1>3, JobAssumption

THEOREM TypesInvariant == Spec => []TypesInv
  BY InitTypes, TypesStep, CommunityInvariant, PTL DEF Spec

\* Every table of the community keeps its type, in whatever order requests,
\* jobs and deaths come: bookmarks, votes, memberships and rows of the log are
\* of something there is, no reminder goes out more often than its job is tried
\* (queues.ts:6-14), offers that are over are not listed
\* (offers.service.ts:137-187), and the feed of every member is in the order of
\* its ranks (feed.service.ts:278-280).
THEOREM CommunityTyped == Spec => []CommunityTypeOK
  <1>1. CommunityInv /\ TypesInv => CommunityTypeOK
    <2> SUFFICES ASSUME FeedInv, MailInv, TypesInv
                 PROVE  CommunityTypeOK
      BY DEF CommunityInv
    <2> USE DEF TypesInv
    <2>1. NewsTypeOK
      BY DEF NewsTypeOK, NewsTypes, NewsRow, MyBookmarks, ActiveNews, Shown, OnShow
    <2>2. MailTypeOK
      <3>1. \A i \in DOMAIN log : log[i] \in LogRow
        BY DEF MailInv, MailTypes
      <3>2. QED
        BY <3>1 DEF MailTypeOK, MailInv, MailTypes, LogRows, LogRow, Statuses, MailJobs
    <2>3. PageTypeOK
      BY DEF PageTypeOK, PageTypes, Subscribed
    <2>4. OfferTypeOK
      <3>1. \A m : \A o \in Browse(m, "saved") \union Browse(m, "recent") : offers[o].ends >= today
        BY DEF Browse, OnOffer
      <3>2. QED
        BY <3>1, RateOfClicks, RemindedOften DEF OfferTypeOK, OfferTypes
    <2>5. FeedTypeOK
      <3>1. \A p \in DOMAIN posts : posts[p].active \in BOOLEAN /\ counts[p].view \in Nat
        BY DEF FeedRows, PostRow, FeedInv, FeedTypes, Tally
      <3>2. QED
        BY <3>1, FeedSorted DEF FeedTypeOK, FeedRows
    <2>6. QED
      BY <2>1, <2>2, <2>3, <2>4, <2>5 DEF CommunityTypeOK, QueueTypes
  <1>2. QED
    BY <1>1, CommunityInvariant, TypesInvariant, PTL
=============================================================================
