------------------------------- MODULE MCPages -------------------------------
(* What the pages promise at any moment, on small instances: the settings,  *)
(* the search box, the listings of the archive, the walk of /random, the    *)
(* media of a post.  The components share no variable, so each behaviour    *)
(* follows one of them, the focus, and leaves the others out.  Each is      *)
(* taken in as it is, as the theorems about it take it in.                  *)
EXTENDS Settings, SettingsForm, Listings, RandomWalk, PostMedia, SearchSession, TLC

CONSTANTS s1, s2, r1, r2, p1, p2, v1, v2, t1

VARIABLE focus

all == <<focus, stVars, sfVars, sqVars, rwVars, ssVars, lsVars, pmVars>>

------------------------------------------------------------------------------
(* Two browsers on the settings page, two starts; a failing statement.      *)
PlainValues == [env |-> {"ours"}, legacy |-> {"theirs"}, user |-> {"mine"}]
Limits == {[boots |-> 2, saves |-> 2, faults |-> 0], [boots |-> 2, saves |-> 1, faults |-> 1]}

(* Clauses of the override box: bare names, pairs, a layer that continues a *)
(* depth, a name that is one, names that are none.                          *)
SubsNamed == {"a", "b", "l2", "l3"}
Pieces == {Bare("a"), Bare("b"), Bare("l3"), Bare("l2"), Bare("no!"),
           Piece("a", <<>>), Piece("a", <<KV("depth", <<"l2">>)>>),
           Piece("a", <<KV("sort", "sideways")>>),
           Piece("b", <<KV("sort", "top"), KV("depth", <<"l3">>)>>),
           Piece("b", <<KV("time", "week"), KV("depth", <<"l1">>)>>),
           Piece("no!", <<KV("sort", "top")>>), Piece("l3", <<KV("depth", <<"l2">>)>>),
           [Bare("l3") EXCEPT !.kv = <<KV("sort", "new")>>],
           [Bare("b") EXCEPT !.kv = <<KV("depth", <<"l2">>)>>]}

(* Tokens of the search box; names and kinds in and out, dates of each      *)
(* grain on each side, an author of two words, a quoted term like a key.    *)
Sign(n, inc)  == [name |-> n, inc |-> inc]
Day(grain, n) == [grain |-> grain, n |-> n]
Tokens == {Tok("sub", <<Sign("a", TRUE), Sign("b", FALSE)>>),
           Tok("sub", <<Sign("b", TRUE), Sign("a", FALSE)>>), Tok("sub", <<Sign("c", FALSE)>>),
           Tok("type", <<Sign("gif", FALSE)>>),
           Tok("type", <<Sign("gif", TRUE), Sign("video", TRUE)>>),
           Tok("type", <<Sign("gif", TRUE), Sign("gif", FALSE)>>),
           Tok("rating", "safe"), Tok("score", <<">", 5>>), Tok("author", <<"x">>),
           Tok("author", <<"x", "y">>),
           Tok("sort", "hot"), Tok("date", Day("day", 50)), Tok("date", Day("month", 1)),
           Tok("date", Day("ago", 7)), Tok("before", Day("ago", 3)),
           Tok("before", Day("month", 1)), Tok("<", Day("day", 40)), Tok(">", Day("ago", 9)),
           Tok("timeframe", "week"), Tok("instant", TRUE), Tok("instant", None),
           Tok("text", "t"), Tok("quoted", Tok("rating", "safe"))}

(* Two requests for a random picture, two pictures on disk, one of which    *)
(* may come late; a shuffle, a lost cursor or a late post.                  *)
ShownPosts == {p1, p2}
ShownKinds == [p \in ShownPosts |-> "image"]
Wanted     == {[instant |-> TRUE, media |-> {"image"}, score |-> TRUE]}

(* Three copies of a post, of which the third matches the first under       *)
(* nobody's name but the second's; two posts with long titles that overlap; *)
(* one whose title is too short.                                            *)
Post(i, toks, m, a, s) == [id |-> i, toks |-> toks, media |-> m, author |-> a, score |-> s]
Copy   == Post(1, 1 .. 4, "x", "u", 5)
Nicer  == Post(2, 1 .. 5, "x", "v", 9)
Hidden == Post(3, 2 .. 6, "x", "v", None)
Long   == Post(4, 10 .. 25, "y", "u", 3)
Longer == Post(5, 16 .. 33, "z", "u", 4)
Curt   == Post(6, {7, 8}, "", "u", 1)
Results  == {<<>>, <<Copy, Long, Curt>>, <<Hidden, Longer, Copy, Nicer>>}

(* Two visitors, one page of a subreddit, a post that is not safe, one      *)
(* that is folded under another; a save of the preferences.                 *)
Row(i, nsfw, score, created, seen, key) ==
    [id |-> i, sub |-> "a", words |-> IF i = 1 THEN {"w"} ELSE {}, author |-> "u",
     flair |-> None, kind |-> IF i = 2 THEN "gallery" ELSE "image", nsfw |-> nsfw,
     score |-> score, comments |-> IF i = 3 THEN None ELSE i, created |-> created,
     seen |-> seen, key |-> key]
Rows     == {Row(1, FALSE, 5, 1, 1, "k"), Row(2, TRUE, 7, 2, 3, None), Row(3, FALSE, -1, 3, 2, "k")}
Sites    == {[sub |-> "a", sort |-> "top", t |-> "week"]}
Queries  == {[rating |-> None],
             [rating |-> "nsfw", score |-> [op |-> ">=", val |-> 5]],
             [rating |-> "safe", media |-> {"image"}, comments |-> [op |-> "<", val |-> 9],
              white |-> {"a"}]}

(* Posts of a picture, a video, a preview that is one, a crosspost, a       *)
(* gallery, a text with pasted pictures, a link to somewhere else.          *)
Asset(h, p) == [host |-> h, path |-> p, height |-> IF h = "v.redd.it" THEN 720 ELSE 0, sig |-> "s1"]
Clip(p, g)  == [url |-> Asset("v.redd.it", p), gif |-> g]
Link(u, b)  == [url |-> u, bare |-> b]
Picture     == Link(Asset("preview.redd.it", "pic"), TRUE)
Shapes ==
    [thumb : {Asset("b.thumbs", "t")}, preview : {None, Clip("p", TRUE)},
     secure : {None, Clip("s", FALSE)},
     parent : {None,
               [secure |-> Clip("x", FALSE), source |-> Asset("preview.redd.it", "xs"),
                isGallery |-> FALSE, items |-> {}],
               [secure |-> None, source |-> None, isGallery |-> TRUE,
                items |-> {Asset("preview.redd.it", "g1"), None}]},
     hint : BOOLEAN, mp4 : {None, Asset("preview.redd.it", "m")},
     source : {None, Asset("external-preview.redd.it", "e")},
     url : {Asset("i.redd.it", "i"), Asset("example.com", "l")}, self : BOOLEAN,
     isGallery : BOOLEAN, items : {{}, {Asset("i.redd.it", "g2"), Asset("preview.redd.it", "g3")}},
     long : BOOLEAN, moderated : {FALSE},
     links : {{}, {Picture},
              {Link(Asset("example.com", "o"), TRUE), Link(Asset("i.redd.it", "n"), FALSE)}}]
\* What Reddit sends: a text has no media of its own, a gallery has pictures,
\* a crosspost carries its media in its parent.
Payloads == {d \in Shapes :
    /\ d.self => ~d.hint /\ d.preview = None /\ d.secure = None /\ d.parent = None
    /\ ~d.self => d.links = {}
    /\ d.isGallery <=> d.items # {}
    /\ d.mp4 # None => d.hint /\ d.source # None
    /\ d.preview # None => d.source # None /\ d.secure = None
    /\ d.parent # None => d.secure = None
    /\ d.long => d.self /\ d.links # {}}
Threads == {{}, {Link(Asset("preview.redd.it", "c"), TRUE),
                 Link(Asset("i.redd.it", "c2"), TRUE)}}
Pasted  == {Picture}

------------------------------------------------------------------------------
(* A step of component k, and of nothing else.                              *)
Alone(k) ==
    /\ focus = k /\ UNCHANGED focus
    /\ k # "site"   => UNCHANGED stVars
    /\ k # "form"   => UNCHANGED sfVars
    /\ k # "box"    => UNCHANGED sqVars
    /\ k # "walk"   => UNCHANGED rwVars
    /\ k # "search" => UNCHANGED ssVars
    /\ k # "lists"  => UNCHANGED lsVars
    /\ k # "media"  => UNCHANGED pmVars

Components == {"site", "form", "box", "walk", "search", "lists", "media"}

(* A component that is not followed is not there: its variables are None,   *)
(* or, where its own properties are checked, empty.                         *)
PagesInit ==
    /\ focus \in Components
    /\ IF focus = "site" THEN STInit
       ELSE stRow = None /\ stVote = None /\ stEnv = None /\ stMem = None /\ stControl = None
            /\ stPages = None /\ stPhase = None /\ stSave = None /\ stClock = None /\ stLeft = None
            /\ stCast = None /\ stEnded = None /\ stOk = None
    /\ SFInit /\ SQInit
    /\ IF focus = "walk" THEN RWInit
       ELSE rwKey = << >> /\ rwWalk = None /\ rwLock = None /\ rwReq = None /\ rwSignal = None
            /\ rwWorker = None /\ rwServed = None /\ rwWhole = None /\ rwLate = None /\ rwCut = None
            /\ rwLeft = None
    /\ SSInit
    /\ IF focus = "lists" THEN LSInit
       ELSE lsReq = [v \in LSVisitors |-> Nothing] /\ lsArch = {} /\ lsCache = {} /\ lsPuts = {}
            /\ lsShow = None /\ lsUp = None /\ lsFlight = None /\ lsFlush = None /\ lsLeft = None
    /\ IF focus = "media" THEN PMInit
       ELSE pmData = None /\ pmPost = None /\ pmThread = None /\ pmKept = None /\ pmDone = None
            /\ pmWave = None /\ pmSeen = None /\ pmTold = None /\ pmLeft = None

PagesNext ==
    \/ Alone("site")   /\ STNext
    \/ Alone("form")   /\ SFNext
    \/ Alone("box")    /\ SQNext
    \/ Alone("walk")   /\ RWNext
    \/ Alone("search") /\ SSNext
    \/ Alone("lists")  /\ LSNext
    \/ Alone("media")  /\ PMNext

PagesSpec == PagesInit /\ [][PagesNext]_all
==============================================================================
