---------------------------- MODULE MCCommunity ----------------------------
(***************************************************************************)
(* Two members, one owner, three days, cycles of two days with a reminder  *)
(* in the middle, "soon" is one day. Each scenario exercises one service:  *)
(*  - an item published, restored twice, edited, deleted as its jobs run;  *)
(*  - messages over channels that fail, with preferences that change and   *)
(*    rows opened before they are sent; broadcasts;                        *)
(*  - pages renewed, shortened, suspended while the sweep runs; members    *)
(*    who join again, leave and are decided upon;                          *)
(*  - offers moved or deleted between their reminders;                     *)
(*  - likes and views of two devices; posts switched by their dates; polls.*)
(***************************************************************************)
EXTENDS Community

CONSTANTS p1, p2, boss

item(o, n, u) == [op |-> o, item |-> n, by |-> u, super |-> u = boss, add |-> TRUE]
edit(u, body) == [body |-> body] @@ item("updateNews", "n", u)
message(u, to) == [op |-> "notify", user |-> u, to |-> to]
broadcast(a, to, super) == [op |-> "broadcast", audience |-> a, to |-> to, super |-> super]
preference(u, ch, on) == [op |-> "preference", user |-> u, channel |-> ch, enabled |-> on]
owner(o, u, m) == [op |-> o, page |-> "pg", by |-> u, super |-> u = boss, m |-> m,
                   word |-> "APPROVED"]
admin(body) == [op |-> "adminPage", page |-> "pg", body |-> body]
member(o, m) == [op |-> o, page |-> "pg", m |-> m]
offer(starts, ends) == [op |-> "createOffer", starts |-> starts, ends |-> ends, for |-> {p1}]
change(body) == [op |-> "updateOffer", offer |-> "o", body |-> body]
touch(o, u) == [op |-> o, post |-> "f", by |-> u, super |-> u = boss, add |-> TRUE]
Card(manual, starts, ends) == [manual |-> manual, author |-> boss, active |-> TRUE, gone |-> FALSE,
                               starts |-> starts, ends |-> ends, tie |-> "city", pinned |-> FALSE]
ballot(o, n) == [op |-> o, poll |-> "poll", post |-> "f", by |-> p1, options |-> n, option |-> 1,
                 inFeed |-> FALSE]

NewsInput ==
    "n" :> item("publishNews", "n", p1) @@ "restore" :> item("restoreNews", "n", boss) @@
    "restore2" :> item("restoreNews", "n", boss) @@ "delete" :> item("deleteNews", "n", boss) @@
    "edit" :> edit(p2, [archived |-> FALSE]) @@ "show" :> edit(p1, [archived |-> FALSE]) @@
    "hide" :> edit(p1, [archived |-> TRUE]) @@ "undelete" :> edit(boss, [deleted |-> FALSE, by |-> p2]) @@
    "misspelt" :> edit(p1, [achived |-> FALSE]) @@ "mark" :> item("bookmarkNews", "n", p1) @@
    "unmark" :> [item("bookmarkNews", "n", p1) EXCEPT !.add = FALSE]

MailInput ==
    "all" :> message(p1, {"WHATSAPP", "SMS", "IN_APP"}) @@
    "push" :> message(p2, {"IN_APP"}) @@ "opened" :> [op |-> "opened", user |-> p2] @@
    "wish" :> preference(p1, "SMS", TRUE) @@ "no_wish" :> preference(p1, "WHATSAPP", FALSE) @@
    "cast" :> broadcast("ALL", {"IN_APP"}, TRUE) @@ "no_cast" :> broadcast("ALL", {"SMS"}, FALSE)

PageInput ==
    "page" :> [op |-> "createPage", owners |-> {p1}, expires |-> 1] @@
    "renew" :> admin([expires |-> 2, status |-> "ACTIVE"]) @@
    "shorten" :> admin([expires |-> 0]) @@ "suspend" :> admin([status |-> "SUSPENDED"]) @@
    "owners" :> admin([owners |-> {p2}]) @@ "drop" :> admin([gone |-> TRUE]) @@
    "join" :> member("join", p2) @@ "join2" :> member("join", p2) @@ "leave" :> member("leave", p2) @@
    "decide" :> owner("decide", p1, p2) @@ "remove" :> owner("remove", p1, p2) @@
    "write" :> owner("pagePost", p1, p2) @@ "update" :> owner("updatePage", boss, p2)

OfferInput ==
    "o" :> offer(0, 2) @@ "o2" :> offer(1, 3) @@ "later" :> change([ends |-> 1]) @@ "away" :> change([gone |-> TRUE]) @@
    "keep" :> [op |-> "saveOffer", offer |-> "o", m |-> p1, add |-> TRUE] @@
    "seen" :> [op |-> "trackOffer", offer |-> "o", kind |-> "views"]

FeedInput ==
    "f" :> [op |-> "post", body |-> Card(TRUE, 1, 1)] @@
    "auto" :> [op |-> "post", body |-> Card(FALSE, Never, Never)] @@
    "erase" :> touch("deletePost", boss) @@
    "like1" :> touch("like", p1) @@ "like1b" :> touch("like", p1) @@ "like2" :> touch("like", p2) @@
    "view1" :> touch("view", p1) @@ "view1b" :> touch("view", p1) @@ "view2" :> touch("view", p2) @@
    "save1" :> touch("bookmark", p1) @@ "unsave1" :> [touch("bookmark", p1) EXCEPT !.add = FALSE] @@
    "share" :> touch("share", p1) @@ "click" :> touch("click", p2) @@
    "poll" :> ballot("createPoll", 2) @@ "edit_poll" :> ballot("editPoll", 1) @@
    "close_poll" :> ballot("closePoll", 2) @@ "drop_poll" :> ballot("deletePoll", 2) @@
    "vote" :> ballot("vote", 2) @@ "vote2" :> [ballot("vote", 2) EXCEPT !.inFeed = TRUE]

Redate(starts, ends) == [body |-> [starts |-> starts, ends |-> ends]] @@ touch("editPost", boss)

MCInput == "redate" :> Redate(0, 2) @@ "postpone" :> Redate(2, 2) @@
           "stranger" :> ([by |-> p2, super |-> FALSE] @@ Redate(0, 0)) @@
           NewsInput @@ MailInput @@ PageInput @@ OfferInput @@ FeedInput
MCCalls == DOMAIN MCInput
MCWanted == p1 :> ("WHATSAPP" :> TRUE @@ "EMAIL" :> TRUE) @@ p2 :> <<>>
MCAudience == "ALL" :> {p1, p2}
MCJobIds ==
    {<<"news", "n">>} \union ({"news"} \X {"n"} \X {"restore", "restore2"})
        \union ({"mail"} \X {"all", "push", "cast"} \X {p1, p2})
        \union ({"offer"} \X {"o"} \X {<<"DAY15", 1, 1>>, <<"EXPIRY_24H", 0, 1>>})
        \union ({"offer"} \X {"o2"} \X {<<"DAY1", 1, 1>>, <<"DAY15", 1, 2>>, <<"EXPIRY_24H", 0, 2>>})

Empty == [news |-> <<>>, pages |-> <<>>, membership |-> <<>>, offers |-> <<>>, posts |-> <<>>,
          polls |-> <<>>, today |-> 2, roles |-> p1 :> "MEMBER" @@ p2 :> "ORG_ADMIN", calls |-> {}]
Page(day, state) == "pg" :> [owners |-> {p1}, status |-> state, expires |-> day, auto |-> FALSE,
                             gone |-> FALSE]
Serve(calls) == [Empty EXCEPT !.calls = calls]
Early(w) == [w EXCEPT !.today = 0]
WithPage(day, state, calls) == [Empty EXCEPT !.pages = Page(day, state), !.calls = calls]
WithPost(starts, ends, calls) ==
    [Empty EXCEPT !.posts = "f" :> Card(TRUE, starts, ends), !.calls = calls,
                  !.today = IF starts = Never THEN 2 ELSE 0,
                  !.polls = "poll" :> [post |-> "f", options |-> 2, ends |-> Never]]

MCScenarios ==
    {Serve({"n", "restore", "restore2"}), Serve({"n", "restore", "delete", "edit"}),
     Serve({"n", "mark", "unmark", "delete"}), Serve({"n", "show", "restore", "misspelt"}),
     Serve({"n", "hide", "show", "restore"}), Serve({"n", "delete", "undelete", "restore"}),
     Serve({"all", "wish"}), Serve({"all", "no_wish"}), Serve({"push", "opened", "no_wish"}), Serve({"cast", "no_cast"}),
     Early(Serve({"page"})), Early(WithPage(1, "ACTIVE", {"renew", "shorten"})),
     Early(WithPage(0, "EXPIRING_SOON", {"suspend", "renew"})),
     WithPage(3, "ACTIVE", {"join", "join2", "decide", "leave"}),
     WithPage(1, "ACTIVE", {"join", "remove", "write", "owners"}),
     WithPage(3, "ACTIVE", {"drop", "join", "update"}),
     Early(Serve({"o", "later", "seen"})), Early(Serve({"o", "away", "keep"})), Early(Serve({"o2"})),
     WithPost(Never, Never, {"like1", "like1b", "like2"}),
     WithPost(Never, Never, {"view1", "view1b", "view2", "erase"}),
     WithPost(Never, Never, {"save1", "unsave1", "share", "click"}),
     WithPost(1, 1, {"redate", "postpone"}), WithPost(0, 1, {"erase", "redate", "stranger"}),
     WithPost(Never, Never, {"vote", "vote2", "edit_poll", "close_poll"}),
     WithPost(Never, Never, {"poll", "drop_poll", "vote", "auto"}), Early(Serve({"f", "postpone"}))}
=============================================================================
