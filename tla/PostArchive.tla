---------------------------- MODULE PostArchive ----------------------------
(***************************************************************************)
(* One post, from Reddit to the reader: the handlers that fetch it         *)
(* (handler/post.go), the prefetcher's listing and thread fetches, what    *)
(* archive/service.go writes of them to the posts and comments tables, and *)
(* the HTML page cache.  A request is one handler or prefetch goroutine,   *)
(* together with the archiver goroutine it spawns.                         *)
(***************************************************************************)
EXTENDS Integers, FiniteSets

CONSTANTS
    Requests,   \* goroutines; each serves one request after another
    Comments,   \* comment ids of the post
    MaxVersion, \* bound: edits of the post
    MaxOps,     \* bound: requests started
    MaxFaults,  \* bound: database statements that fail
    NoOne

ASSUME NoOneAssumption == NoOne \notin Requests
ASSUME MaxAssumption == MaxVersion \in Nat /\ MaxOps \in Nat /\ MaxFaults \in Nat

VARIABLES
    upstream, \* the post at Reddit
    row,      \* its row in posts
    tree,     \* the latest snapshot in comments, under the post's permalink
    page,     \* its page in the HTML cache
    allow,    \* Archive Control lets the subreddit in
    req,      \* what each request does: its place, the row it read, Reddit's answer
    leader,   \* upstreamFlight: the view whose fetch the others wait for
    arch,     \* the archiver goroutine of each request: its place, what it was given
    puts,     \* rendered pages on their way to the cache (cacheHTMLAsync)
    ops, faults

kept == <<row, tree, allow>>
vars == <<upstream, page, kept, req, leader, arch, puts, ops, faults>>

-----------------------------------------------------------------------------
Kinds == {"view", "refresh", "more", "replies", "thread", "listing"}
Foreground == {"view", "refresh", "more", "replies"}   \* behind shouldDegrade
Versions == 0..MaxVersion

\* A comment upstream, and a node of an archived snapshot: "kept" is a removed
\* comment whose body was restored from an earlier snapshot.
Live == {"none", "alive", "tomb"}
Node == Live \union {"kept"}
Empty == [c \in Comments |-> "none"]

Answer == [ok : BOOLEAN, gone : BOOLEAN, ver : Versions, coms : [Comments -> Live]]
Posted == [gone : BOOLEAN, ver : Versions, coms : [Comments -> Live]]
\* "blank" : the row holds the payload of a removed post.
Row  == [there : BOOLEAN, gone : BOOLEAN, blank : BOOLEAN, ver : Versions]
Page == [there : BOOLEAN, gone : BOOLEAN, ver : Versions]

NoRow  == [there |-> FALSE, gone |-> FALSE, blank |-> FALSE, ver |-> 0]
NoPage == [there |-> FALSE, gone |-> FALSE, ver |-> 0]
Failed == [ok |-> FALSE, gone |-> FALSE, ver |-> 0, coms |-> Empty]

Fetching == {"ask", "sent"}
Places   == {"idle", "gate", "wait", "got", "archive", "archiving", "flush"} \union Fetching

Request == [pc : Places, kind : Kinds, stored : Row, got : Answer]
\* "short" : the path given to ArchiveComments leaves the slug out.
Work == [pc : {"idle", "post", "read", "save"}, load : Answer, prior : [Comments -> Node],
         short : BOOLEAN, comments : BOOLEAN]

Idle == [pc |-> "idle", kind |-> "view", stored |-> NoRow, got |-> Failed]
Done == [pc |-> "idle", load |-> Failed, prior |-> Empty, short |-> FALSE, comments |-> FALSE]

TypeOK ==
    /\ upstream \in Posted /\ row \in Row /\ page \in Page /\ allow \in BOOLEAN
    /\ tree \in [Comments -> Node]
    /\ req \in [Requests -> Request] /\ leader \in Requests \union {NoOne}
    /\ arch \in [Requests -> Work] /\ puts \in [Requests -> Page]
    /\ ops \in 0..MaxOps /\ faults \in 0..MaxFaults

Init ==
    /\ upstream = [gone |-> FALSE, ver |-> 0, coms |-> Empty]
    /\ row = NoRow /\ tree = Empty /\ page = NoPage /\ allow = TRUE
    /\ req = [r \in Requests |-> Idle] /\ leader = NoOne
    /\ arch = [r \in Requests |-> Done] /\ puts = [r \in Requests |-> NoPage]
    /\ ops = 0 /\ faults = 0

-----------------------------------------------------------------------------
(* Reddit: the post is edited, removed or approved again; a comment is      *)
(* written, and removed or deleted.                                         *)

EditPost ==
    /\ upstream.ver < MaxVersion
    /\ \E g \in BOOLEAN : upstream' = [upstream EXCEPT !.ver = @ + 1, !.gone = g]
    /\ UNCHANGED <<page, kept, req, leader, arch, puts, ops, faults>>

Comment(c) ==
    /\ upstream.coms[c] # "tomb"
    /\ upstream' = [upstream EXCEPT !.coms[c] = IF @ = "none" THEN "alive" ELSE "tomb"]
    /\ UNCHANGED <<page, kept, req, leader, arch, puts, ops, faults>>

-----------------------------------------------------------------------------
(* The requests.                                                            *)

Goto(r, p) == req' = [req EXCEPT ![r] = [@ EXCEPT !.pc = p]]
Finish(r)  == req' = [req EXCEPT ![r] = Idle]

\* A view answers from the HTML cache, or goes on to the gate; the background
\* fetches have no gate, and a thread fetch is planned from an archived row.
Start(r, k) ==
    /\ req[r].pc = "idle" /\ arch[r].pc = "idle" /\ ~puts[r].there /\ ops < MaxOps
    /\ k = "thread" => row.there
    /\ ~(k = "view" /\ page.there)
    /\ ops' = ops + 1
    /\ req' = [req EXCEPT ![r] = [Idle EXCEPT !.kind = k,
                                 !.pc = IF k \in Foreground THEN "gate" ELSE "ask"]]
    /\ UNCHANGED <<upstream, page, kept, leader, arch, puts, faults>>

\* servePost: shouldDegrade, postStore.Get (by permalink, or by id when the
\* slug is another), and upstreamFlight.Do for the view that may fetch.
ViewGate(r, degrade) ==
    LET next == IF degrade \/ row.gone THEN "archive"
                ELSE IF leader = NoOne THEN "ask" ELSE "wait" IN
    /\ req' = [req EXCEPT ![r] = [@ EXCEPT !.pc = next, !.stored = row]]
    /\ leader' = IF next = "ask" THEN r ELSE leader

Gate(r) ==
    /\ req[r].pc = "gate"
    /\ \E degrade \in BOOLEAN :
          \/ req[r].kind = "view" /\ ViewGate(r, degrade)
          \/ req[r].kind # "view" /\ degrade /\ Finish(r) /\ UNCHANGED leader
          \/ req[r].kind # "view" /\ ~degrade /\ Goto(r, "ask") /\ UNCHANGED leader
    /\ UNCHANGED <<upstream, page, kept, arch, puts, ops, faults>>

\* What Reddit answers: the whole thread, or the part of it that "load more"
\* asks for; or the call fails.
Part(k) ==
    IF k \in {"view", "refresh", "thread"} THEN {Comments} ELSE SUBSET Comments
Snapshot(s) ==
    [ok |-> TRUE, gone |-> upstream.gone, ver |-> upstream.ver,
     coms |-> [c \in Comments |-> IF c \in s THEN upstream.coms[c] ELSE "none"]]

Reply(r) ==
    /\ req[r].pc = "ask"
    /\ \E a \in {Failed} \union {Snapshot(s) : s \in Part(req[r].kind)} :
          req' = [req EXCEPT ![r] = [@ EXCEPT !.pc = "sent", !.got = a]]
    /\ UNCHANGED <<upstream, page, kept, leader, arch, puts, ops, faults>>

\* The archiver of a fetch: ArchivePost first where the handler calls it, then
\* ArchiveComments except after a listing.
Spawn(r, first) ==
    arch' = [arch EXCEPT ![r] =
                [Done EXCEPT !.pc = first, !.load = req[r].got,
                             !.short = (req[r].kind = "replies"),
                             !.comments = (req[r].kind # "listing")]]

\* The leader's closure spawns the archiver, Do hands its answer to everyone
\* who waits.
ViewAnswered(r) ==
    /\ leader' = NoOne
    /\ req' = [f \in Requests |->
                 IF f = r \/ req[f].pc = "wait"
                 THEN [req[f] EXCEPT !.pc = "got", !.got = req[r].got] ELSE req[f]]
    /\ IF req[r].got.ok THEN Spawn(r, "post") ELSE UNCHANGED arch

\* handleRefreshPost looks for the row of a removed post under the path without
\* the slug, where there is none; it archives an alive one before it goes on.
RefreshAnswered(r) ==
    /\ req[r].got.ok
    /\ Goto(r, IF req[r].got.gone THEN "flush" ELSE "archiving")
    /\ Spawn(r, IF req[r].got.gone THEN "read" ELSE "post")
    /\ UNCHANGED leader

OtherAnswered(r) ==
    /\ req[r].got.ok
    /\ IF req[r].kind = "more" THEN Goto(r, "flush") ELSE Finish(r)
    /\ Spawn(r, IF req[r].kind \in {"more", "listing"} THEN "post" ELSE "read")
    /\ UNCHANGED leader

Deliver(r) ==
    /\ req[r].pc = "sent"
    /\ \/ req[r].kind = "view" /\ ViewAnswered(r)
       \/ req[r].kind = "refresh" /\ RefreshAnswered(r)
       \/ req[r].kind \notin {"view", "refresh"} /\ OtherAnswered(r)
       \/ req[r].kind # "view" /\ ~req[r].got.ok /\ Finish(r) /\ UNCHANGED <<leader, arch>>
    /\ UNCHANGED <<upstream, page, kept, puts, ops, faults>>

\* The fetch panics: Do removes the flight and every caller answers 500.
Panics(r) ==
    /\ req[r].pc = "sent" /\ req[r].kind = "view"
    /\ leader' = NoOne
    /\ req' = [f \in Requests |-> IF f = r \/ req[f].pc = "wait" THEN Idle ELSE req[f]]
    /\ UNCHANGED <<upstream, page, kept, arch, puts, ops, faults>>

\* renderPostFallback: the row of a removed post is sought under the path
\* without the slug, not found, and the answer is rendered as it is.  After a
\* failure servePost reads the row again.
Render(r) ==
    /\ req[r].pc = "got"
    /\ LET a == req[r].got IN
       \/ /\ a.ok /\ Finish(r)
          /\ puts' = [puts EXCEPT ![r] = [there |-> TRUE, gone |-> a.gone, ver |-> a.ver]]
       \/ /\ ~a.ok /\ req' = [req EXCEPT ![r] = [@ EXCEPT !.pc = "archive", !.stored = row]]
          /\ UNCHANGED puts
    /\ UNCHANGED <<upstream, page, kept, leader, arch, ops, faults>>

\* renderPostFromArchive, or serveDegradeMiss.
Archive(r) ==
    /\ req[r].pc = "archive"
    /\ LET sp == req[r].stored IN
       puts' = [puts EXCEPT ![r] = IF sp.there
                                   THEN [there |-> TRUE, gone |-> FALSE, ver |-> sp.ver] ELSE @]
    /\ Finish(r)
    /\ UNCHANGED <<upstream, page, kept, leader, arch, ops, faults>>

\* The synchronous archive of a refresh is done.
Archived(r) ==
    /\ req[r].pc = "archiving" /\ arch[r].pc = "idle"
    /\ Goto(r, "flush")
    /\ UNCHANGED <<upstream, page, kept, leader, arch, puts, ops, faults>>

\* InvalidateHTMLPrefix; a Redis error is logged, and the answer is ok.
Flush(r) ==
    /\ req[r].pc = "flush"
    /\ page' \in {NoPage, page}
    /\ Finish(r)
    /\ UNCHANGED <<upstream, kept, leader, arch, puts, ops, faults>>

RequestStep(r) ==
    \/ Gate(r) \/ Reply(r) \/ Deliver(r) \/ Panics(r)
    \/ Render(r) \/ Archive(r) \/ Archived(r) \/ Flush(r)

-----------------------------------------------------------------------------
(* The archiver.                                                            *)

Fault == faults < MaxFaults /\ faults' = faults + 1
Turn(r, p) == arch' = [arch EXCEPT ![r] = [@ EXCEPT !.pc = p]]
Rest(r)    == arch' = [arch EXCEPT ![r] = Done]

\* PostStore.Save: the upsert leaves upstream_removed alone.
Saved(a) == [there |-> TRUE, gone |-> row.gone, blank |-> a.gone, ver |-> a.ver]

\* A bug: the payload of a removed post is saved like any other.
PostWrittenBlind(a) == IF ~allow THEN row ELSE Saved(a)

\* archivePost: a removed post marks the row it has and writes nothing else.
PostWritten(a) ==
    IF ~allow THEN row
    ELSE IF a.gone THEN [row EXCEPT !.gone = row.there]
    ELSE Saved(a)

ArchivePost(r) ==
    /\ arch[r].pc = "post"
    /\ \/ row' = PostWritten(arch[r].load) /\ UNCHANGED faults
       \/ Fault /\ UNCHANGED row
    /\ IF arch[r].comments THEN Turn(r, "read") ELSE Rest(r)
    /\ UNCHANGED <<upstream, page, tree, allow, req, leader, puts, ops>>

\* ArchiveComments reads the latest snapshot of the path it was given; there is
\* none without the slug, and when the read fails it goes on without one.
ReadPrior(r) ==
    /\ arch[r].pc = "read"
    /\ \/ /\ arch[r].load.coms = Empty \/ ~allow
          /\ Rest(r) /\ UNCHANGED faults
       \/ /\ arch[r].load.coms # Empty /\ allow
          /\ \/ /\ arch' = [arch EXCEPT ![r] =
                            [@ EXCEPT !.pc = "save", !.prior = IF arch[r].short THEN Empty ELSE tree]]
                /\ UNCHANGED faults
             \/ Turn(r, "save") /\ Fault
    /\ UNCHANGED <<upstream, page, kept, req, leader, puts, ops>>

\* Mutant: trees are merged, bodies are not restored.
MergedBare(old, new) ==
    [c \in Comments |-> IF new[c] = "none" THEN old[c] ELSE new[c]]

\* mergeRemovedBodies and MergeCommentTrees: every node of both, the incoming
\* one first; a tombstone gets its body from a prior node that was not removed.
Merged(old, new) ==
    [c \in Comments |->
        IF new[c] = "none" THEN old[c]
        ELSE IF new[c] = "tomb" /\ old[c] = "alive" THEN "kept"
        ELSE new[c]]

\* CommentStore.Save inserts a snapshot; post_url_path must be in posts.
SaveComments(r) ==
    /\ arch[r].pc = "save"
    /\ \/ /\ tree' = IF ~arch[r].short /\ row.there
                     THEN Merged(arch[r].prior, arch[r].load.coms) ELSE tree
          /\ UNCHANGED faults
       \/ Fault /\ UNCHANGED tree
    /\ Rest(r)
    /\ UNCHANGED <<upstream, page, row, allow, req, leader, puts, ops>>

ArchiverStep(r) == ArchivePost(r) \/ ReadPrior(r) \/ SaveComments(r)

-----------------------------------------------------------------------------
\* PutHTML of a rendered page arrives, or is lost.
Put(r) ==
    /\ puts[r].there
    /\ page' \in {puts[r], page}
    /\ puts' = [puts EXCEPT ![r] = NoPage]
    /\ UNCHANGED <<upstream, kept, req, leader, arch, ops, faults>>

\* htmlCacheTTL.
Expire ==
    /\ page.there /\ page' = NoPage
    /\ UNCHANGED <<upstream, kept, req, leader, arch, puts, ops, faults>>

\* A settings save swaps the Archive Control filter.
SetControl ==
    /\ allow' = ~allow
    /\ UNCHANGED <<upstream, row, tree, page, req, leader, arch, puts, ops, faults>>

Next ==
    \/ EditPost \/ Expire \/ SetControl
    \/ \E c \in Comments : Comment(c)
    \/ \E r \in Requests : \/ \E k \in Kinds : Start(r, k)
                           \/ RequestStep(r) \/ ArchiverStep(r) \/ Put(r)

Spec == Init /\ [][Next]_vars

-----------------------------------------------------------------------------
(* Properties                                                               *)

\* A row never holds the payload of a removed post, and only a row that is
\* there is marked (archivePost's guard).
GoodCopy == ~row.blank /\ (row.gone => row.there)

\* upstreamFlight: its leader is the one view that has a fetch under way, and
\* whoever waits has a leader to wait for.
Coalesced ==
    /\ leader # NoOne => req[leader].kind = "view" /\ req[leader].pc \in Fetching
    /\ \A r \in Requests : /\ req[r].kind = "view" /\ req[r].pc \in Fetching => leader = r
                           /\ req[r].pc = "wait" => req[r].kind = "view" /\ leader # NoOne

\* The views of a post share one fetch, and in whatever order they and the other
\* handlers archive what they got, the good copy outlives the removal
\* (singleflight.go Do, archiver archivePost).
OneFetchOneCopy == Coalesced /\ GoodCopy

\* The verdict on a removed post is sticky: no later fetch, save or approval
\* takes it back.
StickyGone == [][row.gone => row'.gone]_vars

\* Archivers that have read the snapshot they will replace; a comment all of
\* them have read, and one whose body all of them have read.
Merges(r)  == arch[r].pc = "save" /\ ~arch[r].short
Settled(c) == tree[c] # "none" /\ \A r \in Requests : Merges(r) => arch[r].prior[c] # "none"
Intact(c)  == tree[c] = "alive" /\ \A r \in Requests : Merges(r) => arch[r].prior[c] = "alive"

\* However many archivers merge one snapshot at once, none taking notice of the
\* others (ArchiveComments), a comment stays for ever from the moment every
\* merge under way has read it, and its body outlives its removal then; only a
\* read that fails undoes it.  What came in between may be lost.
SettledStays ==
    [][faults' = faults =>
         \A c \in Comments : /\ Settled(c) => Settled(c)'
                             /\ Intact(c) => tree'[c] \in {"alive", "kept"}]_vars

(* What a comment of renderPostFallback promises, and the code does not do. *)

\* A view never renders the payload of a removed post that has an archived
\* copy (TLC: violated).
ShowsArchive ==
    [][\A r \in Requests : row.there /\ puts'[r] # puts[r] => ~puts'[r].gone]_vars
=============================================================================
