----------------------------- MODULE Dispatcher -----------------------------
(***************************************************************************)
(* The gateway of natural prefetch (internal/prefetch/scheduler.go,        *)
(* icon.go): goroutines that submit work, a channel that holds one item,   *)
(* and the dispatch loop that takes an item, waits for budget, yields to   *)
(* visitors, runs it and cools down.                                       *)
(*                                                                         *)
(* A worker is a goroutine that submits:                                   *)
(*   L1  a bucket loop that walks the listing of a sub, page after page    *)
(*   L2  the media waves of a post                                         *)
(*   L3  the comment waves of the same post                                *)
(*   L4  an icon batch for a sub                                           *)
(* Its context is the bucket's (a settings save cancels it), the root's    *)
(* (the shutdown does) or none (a batch that an /archive view set off).    *)
(* A worker whose context ends leaves its item behind, in the channel or   *)
(* in the loop's hands: the item is then nobody's, and still runs.         *)
(*                                                                         *)
(* Left out: clock time (a wait ends when it may), the rank of a listing,  *)
(* the ledger (PrefetchWaves), L5, which submits as L2 does.               *)
(***************************************************************************)
EXTENDS Naturals, FiniteSets

CONSTANTS
    Workers,
    Nobody,      \* not a worker
    Kind,        \* Kind[w] \in Kinds
    Scope,       \* Scope[w] \in {"bucket", "root", "none"}
    LastPage,    \* a listing has at most this many pages
    Body,        \* images of the post itself
    Pasted,      \* images its comments may bring
    Cap,         \* calls per rate-limit window
    Reserve,     \* calls that waitForBudget leaves to visitors
    HasIcon,     \* whether Reddit has an icon for the sub
    MaxVisits,   \* bound: upstream requests of visitors
    MaxCancels,  \* bound: settings saves
    MaxStops,    \* bound: restarts
    MaxEvictions \* bound: files the evictor takes

Kinds == {"L1", "L2", "L3", "L4"}
Images == Body \union Pasted
L1s == {w \in Workers : Kind[w] = "L1"}
L2s == {w \in Workers : Kind[w] = "L2"}
Pages == 1 .. LastPage

Listing(p) == <<"page", p>>
Image(i) == <<"image", i>>
Thread == <<"thread">>
About == <<"about">>
IconFile == <<"icon">>
Jobs == {Listing(p) : p \in Pages} \union {Image(i) : i \in Images}
        \union {Thread, About, IconFile}

ASSUME KindAssumption == Kind \in [Workers -> Kinds] /\ Nobody \notin Workers
ASSUME ScopeAssumption ==
    /\ Scope \in [Workers -> {"bucket", "root", "none"}]
    /\ \A w \in L1s : Scope[w] = "bucket"
ASSUME PageAssumption == LastPage \in Nat \ {0}
ASSUME BudgetAssumption ==
    /\ Cap \in Nat /\ Reserve \in Nat /\ Reserve < Cap
    /\ HasIcon \in BOOLEAN
ASSUME BoundAssumption ==
    /\ MaxVisits \in Nat /\ MaxCancels \in Nat
    /\ MaxStops \in Nat /\ MaxEvictions \in Nat

VARIABLES
    root,       \* the root context is live
    cancelled,  \* cancelled[w]: w's context is done
    queue,      \* the channel: at most one item
    phase,      \* where the dispatch loop stands
    item,       \* the item in its hands
    at,         \* where each worker stands
    job,        \* what its last submit asks for
    closed,     \* the done channel of its last item is closed
    got,        \* what fn left in the variables it captures
    page,       \* L1: the cursor, as the number of the next page
    saved,      \* L1: the persisted cursor
    walked,     \* L1: pages fetched since the head of the listing, and of each
                \* whether the archive took it
    wave,       \* L2: the post under way
    cached,     \* images on disk
    fetching,   \* images a visitor is fetching
    known,      \* images of the archived comment tree
    mediaDone,  \* posts.media_done
    icon,       \* the verdict of sub_icons
    token,      \* "none", "usable" or "unusable"
    left,       \* calls left in the rate-limit window
    busy,       \* userRequestedRecently
    n           \* counters of the bounds

ctx     == <<root, cancelled>>
channel == <<queue, phase, item>>
calls   == <<at, job, closed, got>>
walk    == <<page, saved, walked>>
media   == <<cached, fetching, known, mediaDone>>
supply  == <<token, left, busy>>
vars == <<ctx, channel, calls, walk, wave, media, icon, supply, n>>

Stages == {"off", "idle", "sending", "waiting", "answered", "left",
           "saving", "working"}
Phases == {"idle", "budget", "check", "pause", "running", "cooldown", "stopped"}
Results == {"unset", "fail", "more", "last", "ok", "icon", "bare"}
Items == [by : Workers \union {Nobody}, job : Jobs, owned : BOOLEAN]
Empty == [by |-> Nobody, job |-> Thread, owned |-> FALSE]
Waves == [todo : SUBSET Images, frozen : SUBSET Images,
          ok : BOOLEAN, late : BOOLEAN]
NoWave == [todo |-> {}, frozen |-> {}, ok |-> TRUE, late |-> FALSE]
Budgeted(w) == Kind[w] \in {"L1", "L3"}

Init ==
    /\ root = TRUE /\ cancelled = [w \in Workers |-> FALSE]
    /\ queue = Empty /\ phase = "idle" /\ item = Empty
    /\ at = [w \in Workers |-> IF w \in L1s THEN "off" ELSE "idle"]
    /\ job = [w \in Workers |-> Thread]
    /\ closed = [w \in Workers |-> FALSE]
    /\ got = [w \in Workers |-> "unset"]
    /\ page = [w \in L1s |-> 1] /\ saved = page
    /\ walked = [w \in L1s |-> {}]
    /\ wave = [w \in L2s |-> NoWave]
    /\ cached = {} /\ fetching = {} /\ known = {} /\ mediaDone = FALSE
    /\ icon = "unknown"
    /\ token \in {"none", "usable"} /\ left = Cap
    /\ busy = FALSE
    /\ n = [visits |-> 0, cancels |-> 0, stops |-> 0, evictions |-> 0]

-----------------------------------------------------------------------------
(* submit.                                                                 *)

Stands(w, s) == at' = [at EXCEPT ![w] = s]

Submits(w, j) ==
    /\ Stands(w, "sending")
    /\ job' = [job EXCEPT ![w] = j]
    /\ closed' = [closed EXCEPT ![w] = FALSE]
    /\ got' = [got EXCEPT ![w] = "unset"]

\* The send and the wait are selects with ctx.Done: when both are ready
\* either may be taken.
Send(w) ==
    /\ at[w] = "sending" /\ queue = Empty
    /\ queue' = [by |-> w, job |-> job[w], owned |-> TRUE]
    /\ Stands(w, "waiting")
    /\ UNCHANGED <<ctx, phase, item, job, closed, got, walk, wave, media, icon,
                   supply, n>>

Wakes(w) ==
    /\ at[w] = "waiting" /\ closed[w]
    /\ Stands(w, "answered")
    /\ UNCHANGED <<ctx, channel, job, closed, got, walk, wave, media, icon,
                   supply, n>>

Disowned(i, w) == IF i.by = w THEN [i EXCEPT !.owned = FALSE] ELSE i

Leaves(w) ==
    /\ at[w] \in {"sending", "waiting"} /\ cancelled[w]
    /\ Stands(w, "left")
    /\ queue' = Disowned(queue, w) /\ item' = Disowned(item, w)
    /\ UNCHANGED <<ctx, phase, job, closed, got, walk, wave, media, icon,
                   supply, n>>

-----------------------------------------------------------------------------
(* dispatchLoop.                                                           *)

Take ==
    /\ phase = "idle" /\ queue # Empty
    /\ item' = queue /\ queue' = Empty
    /\ phase' = IF Budgeted(queue.by) THEN "budget" ELSE "check"
    /\ UNCHANGED <<ctx, calls, walk, wave, media, icon, supply, n>>

\* WindowInfo reports no capacity before the first token.
BudgetOk ==
    /\ phase = "budget" /\ token # "none" /\ left > Reserve
    /\ phase' = "check"
    /\ UNCHANGED <<ctx, queue, item, calls, walk, wave, media, icon, supply, n>>

Check ==
    /\ phase = "check"
    /\ phase' = IF busy THEN "pause" ELSE "running"
    /\ UNCHANGED <<ctx, queue, item, calls, walk, wave, media, icon, supply, n>>

PauseEnds ==
    /\ phase = "pause" /\ phase' = "running"
    /\ UNCHANGED <<ctx, queue, item, calls, walk, wave, media, icon, supply, n>>

CooldownEnds ==
    /\ phase = "cooldown" /\ phase' = "idle"
    /\ UNCHANGED <<ctx, queue, item, calls, walk, wave, media, icon, supply, n>>

\* Mutant: fn returns without closing done.
ClosesNot(r) == UNCHANGED <<closed, got>> /\ item' = Empty

\* close(item.done), after fn left r in the variables of its submitter.
Closes(r) ==
    LET w == item.by IN
    /\ closed' = [closed EXCEPT ![w] = item.owned \/ @]
    /\ got' = [got EXCEPT ![w] = IF item.owned THEN r ELSE @]
    /\ item' = Empty

\* The root context ends: done is closed on an item that never ran.
LoopStops ==
    /\ ~root /\ phase \in {"idle", "budget", "pause", "cooldown"}
    /\ phase' = "stopped"
    /\ IF item = Empty THEN UNCHANGED <<closed, got, item>> ELSE Closes("unset")
    /\ UNCHANGED <<ctx, queue, at, job, walk, wave, media, icon, supply, n>>

-----------------------------------------------------------------------------
(* The functions the loop runs, to their end.                              *)

Usable == token = "usable" /\ left > 0
Spends == left' = left - 1 /\ UNCHANGED <<token, busy>>

Ends(r) ==
    /\ Closes(r) /\ phase' = "cooldown"
    /\ UNCHANGED <<ctx, queue, at, job, page, saved, wave, fetching, icon, n>>

\* A page comes with the cursor of the next one, or without.  ArchiveListing
\* logs a Save that fails and returns nothing: the answer is the same.
ListingFetched(w, p) ==
    /\ Usable /\ Spends
    /\ \E taken \in BOOLEAN : walked' = [walked EXCEPT ![w] = @ \union {<<p, taken>>}]
    /\ \/ p < LastPage /\ Ends("more")
       \/ Ends("last")
    /\ UNCHANGED <<cached, known, mediaDone>>

\* Without a token the function blocks in WaitForToken, and the loop with it.
ListingFails ==
    /\ token # "none" \/ ~root
    /\ IF Usable THEN Spends ELSE UNCHANGED supply
    /\ Ends("fail")
    /\ UNCHANGED <<walked, cached, known, mediaDone>>

\* requeueForCommentMedia: an image not on disk re-arms the post.
Rearmed(new) == mediaDone' = (mediaDone /\ new \subseteq cached)

ThreadFetched ==
    /\ Usable /\ Spends
    /\ \E new \in SUBSET Pasted :
          /\ known' = known \union new
          /\ Rearmed(new)
    /\ Ends("ok")
    /\ UNCHANGED <<walked, cached>>

ThreadFails ==
    /\ IF Usable THEN Spends ELSE UNCHANGED supply
    /\ Ends("fail")
    /\ UNCHANGED <<walked, cached, known, mediaDone>>

ImageFetched(i) ==
    /\ cached' = cached \union {i}
    /\ Ends("ok")
    /\ UNCHANGED <<walked, known, mediaDone, supply>>

Unfetched ==
    /\ Ends("fail")
    /\ UNCHANGED <<walked, cached, known, mediaDone, supply>>

\* The public endpoint first, then the session's, which spends budget.
AboutFetched ==
    /\ \/ UNCHANGED supply
       \/ Usable /\ Spends
    /\ Ends(IF HasIcon THEN "icon" ELSE "bare")
    /\ UNCHANGED <<walked, cached, known, mediaDone>>

IconFetched ==
    /\ Ends("ok")
    /\ UNCHANGED <<walked, cached, known, mediaDone, supply>>

Runs ==
    /\ phase = "running"
    /\ LET w == item.by  j == item.job IN
       \/ Kind[w] = "L1" /\ (ListingFetched(w, j[2]) \/ ListingFails)
       \/ Kind[w] = "L2" /\ (ImageFetched(j[2]) \/ Unfetched)
       \/ Kind[w] = "L3" /\ (ThreadFetched \/ ThreadFails)
       \/ Kind[w] = "L4" /\ j = About /\ (AboutFetched \/ Unfetched)
       \/ Kind[w] = "L4" /\ j = IconFile /\ (IconFetched \/ Unfetched)

-----------------------------------------------------------------------------
(* L1: runOneSubFetch and the loop around it.                              *)

L1Starts(w) ==
    /\ at[w] = "idle" /\ ~cancelled[w]
    /\ Submits(w, Listing(page[w]))
    /\ UNCHANGED <<ctx, channel, walk, wave, media, icon, supply, n>>

\* The cursor moves on; without one the walk starts again from the head.
Moved(w) == [page EXCEPT ![w] = IF got[w] = "more" THEN job[w][2] + 1 ELSE 1]

\* Mutant: runOneSubFetch does not look at fetchErr.
L1EndsBlind(w) ==
    /\ at[w] \in {"answered", "left"} /\ Stands(w, "saving")
    /\ page' = IF at[w] = "answered" /\ job[w][2] < LastPage
               THEN [page EXCEPT ![w] = job[w][2] + 1] ELSE page
    /\ UNCHANGED <<ctx, channel, job, closed, got, saved, walked, wave, media,
                   icon, supply, n>>

L1Ends(w) ==
    /\ at[w] \in {"answered", "left"} /\ Stands(w, "saving")
    /\ page' = IF at[w] = "answered" /\ got[w] # "fail" THEN Moved(w) ELSE page
    /\ UNCHANGED <<ctx, channel, job, closed, got, saved, walked, wave, media,
                   icon, supply, n>>

L1Saves(w) ==
    /\ at[w] = "saving" /\ Stands(w, "idle")
    /\ saved' = [saved EXCEPT ![w] = page[w]]
    /\ walked' = [walked EXCEPT ![w] = IF page[w] = 1 /\ got[w] # "more"
                                        THEN {} ELSE @]
    /\ UNCHANGED <<ctx, channel, job, closed, got, page, wave, media, icon,
                   supply, n>>

L1Exits(w) ==
    /\ at[w] = "idle" /\ cancelled[w] /\ Stands(w, "off")
    /\ UNCHANGED <<ctx, channel, job, closed, got, walk, wave, media, icon,
                   supply, n>>

\* The coordinator waits for every bucket loop, then launches them anew.
Launch ==
    /\ root /\ L1s # {} /\ \A w \in L1s : at[w] = "off"
    /\ at' = [w \in Workers |-> IF w \in L1s THEN "idle" ELSE at[w]]
    /\ cancelled' = [w \in Workers |-> w \notin L1s /\ cancelled[w]]
    /\ page' = saved
    /\ UNCHANGED <<root, channel, job, closed, got, saved, walked, wave, media,
                   icon, supply, n>>

-----------------------------------------------------------------------------
(* L2: runL2Wave for the post.                                             *)

\* ListNeedingMedia, then the images of the post and of its archived thread.
L2Starts(w) ==
    /\ at[w] = "idle" /\ ~cancelled[w] /\ ~mediaDone
    /\ Stands(w, "working")
    /\ wave' = [wave EXCEPT ![w] = [NoWave EXCEPT !.todo = Body \union known]]
    /\ UNCHANGED <<ctx, channel, job, closed, got, walk, media, icon, supply, n>>

L2Skips(w, i) ==
    /\ at[w] = "working" /\ i \in wave[w].todo /\ i \in cached
    /\ wave' = [wave EXCEPT ![w].todo = @ \ {i}]
    /\ UNCHANGED <<ctx, channel, calls, walk, media, icon, supply, n>>

L2Freezes(w, i) ==
    /\ at[w] = "working" /\ i \in wave[w].todo
    /\ ~wave[w].late /\ i \in fetching \ cached
    /\ wave' = [wave EXCEPT ![w].todo = @ \ {i}, ![w].frozen = @ \union {i}]
    /\ UNCHANGED <<ctx, channel, calls, walk, media, icon, supply, n>>

L2Submits(w, i) ==
    /\ at[w] = "working" /\ i \in wave[w].todo /\ i \notin cached
    /\ wave[w].late \/ i \notin fetching
    /\ Submits(w, Image(i))
    /\ UNCHANGED <<ctx, channel, walk, wave, media, icon, supply, n>>

\* dlErr is nil unless the download set it.
L2Downloaded(w) ==
    /\ at[w] = "answered" /\ Stands(w, "working")
    /\ wave' = [wave EXCEPT ![w].todo = @ \ {job[w][2]},
                            ![w].ok = @ /\ got[w] # "fail"]
    /\ UNCHANGED <<ctx, channel, job, closed, got, walk, media, icon, supply, n>>

L2Rechecks(w) ==
    /\ at[w] = "working" /\ wave[w].todo = {} /\ wave[w].frozen # {}
    /\ wave' = [wave EXCEPT ![w].todo = wave[w].frozen, ![w].frozen = {},
                            ![w].late = TRUE]
    /\ UNCHANGED <<ctx, channel, calls, walk, media, icon, supply, n>>

L2Marks(w) ==
    /\ at[w] = "working" /\ wave[w].todo = {} /\ wave[w].frozen = {}
    /\ mediaDone' = (mediaDone \/ wave[w].ok)
    /\ Stands(w, "idle")
    /\ wave' = [wave EXCEPT ![w] = NoWave]
    /\ UNCHANGED <<ctx, channel, job, closed, got, walk, cached, fetching, known,
                   icon, supply, n>>

\* The driver is gone; the next round's has a context of its own.
L2Unwinds(w) ==
    /\ \/ at[w] = "left"
       \/ at[w] \in {"working", "idle"} /\ cancelled[w]
    /\ root
    /\ Stands(w, "idle")
    /\ wave' = [wave EXCEPT ![w] = NoWave]
    /\ cancelled' = [cancelled EXCEPT ![w] = FALSE]
    /\ UNCHANGED <<root, channel, job, closed, got, walk, media, icon, supply, n>>

-----------------------------------------------------------------------------
(* L3 and L4.                                                              *)

L3Starts(w) ==
    /\ at[w] = "idle" /\ ~cancelled[w]
    /\ Submits(w, Thread)
    /\ UNCHANGED <<ctx, channel, walk, wave, media, icon, supply, n>>

L3Ends(w) ==
    /\ at[w] \in {"answered", "left"} /\ root
    /\ Stands(w, "idle")
    /\ cancelled' = [cancelled EXCEPT ![w] = FALSE]
    /\ UNCHANGED <<root, channel, job, closed, got, walk, wave, media, icon,
                   supply, n>>

\* A row without an icon is never refreshed.
L4Starts(w) ==
    /\ at[w] = "idle" /\ ~cancelled[w] /\ icon # "none"
    /\ Submits(w, About)
    /\ UNCHANGED <<ctx, channel, walk, wave, media, icon, supply, n>>

\* An empty iconURL is saved as "this sub has no icon".
L4Judges(w) ==
    /\ at[w] = "answered" /\ job[w] = About /\ got[w] \in {"bare", "unset"}
    /\ icon' = "none" /\ Stands(w, "idle")
    /\ UNCHANGED <<ctx, channel, job, closed, got, walk, wave, media, supply, n>>

L4Downloads(w) ==
    /\ at[w] = "answered" /\ job[w] = About /\ got[w] = "icon"
    /\ Submits(w, IconFile)
    /\ UNCHANGED <<ctx, channel, walk, wave, media, icon, supply, n>>

\* What became of the download is not looked at.
L4Saves(w) ==
    /\ at[w] \in {"answered", "left"} /\ job[w] = IconFile
    /\ icon' = "has" /\ Stands(w, "idle")
    /\ UNCHANGED <<ctx, channel, job, closed, got, walk, wave, media, supply, n>>

L4GivesUp(w) ==
    /\ job[w] = About
    /\ \/ at[w] = "left"
       \/ at[w] = "answered" /\ got[w] = "fail"
    /\ Stands(w, "idle")
    /\ UNCHANGED <<ctx, channel, job, closed, got, walk, wave, media, icon,
                   supply, n>>

-----------------------------------------------------------------------------
(* Visitors, the token, the window, the evictor.                           *)

\* Only the fetch of a sub's about page calls NotifyUserRequest.
Visit(notifies) ==
    /\ n.visits < MaxVisits /\ left > 0
    /\ n' = [n EXCEPT !.visits = @ + 1]
    /\ left' = left - 1 /\ busy' = (busy \/ notifies)
    /\ UNCHANGED <<ctx, channel, calls, walk, wave, media, icon, token>>

Quiet ==
    /\ busy /\ busy' = FALSE
    /\ UNCHANGED <<ctx, channel, calls, walk, wave, media, icon, token, left, n>>

VisitorFetches(i) ==
    /\ i \notin cached \union fetching /\ fetching' = fetching \union {i}
    /\ UNCHANGED <<ctx, channel, calls, walk, wave, cached, known, mediaDone,
                   icon, supply, n>>

VisitorFetched(i) ==
    /\ i \in fetching /\ fetching' = fetching \ {i}
    /\ cached' \in {cached, cached \union {i}}
    /\ UNCHANGED <<ctx, channel, calls, walk, wave, known, mediaDone, icon,
                   supply, n>>

WindowResets ==
    /\ left < Cap /\ left' = Cap
    /\ UNCHANGED <<ctx, channel, calls, walk, wave, media, icon, token, busy, n>>

TokenArrives ==
    /\ token # "usable" /\ token' = "usable"
    /\ UNCHANGED <<ctx, channel, calls, walk, wave, media, icon, left, busy, n>>

TokenExpires ==
    /\ token = "usable" /\ token' = "unusable"
    /\ UNCHANGED <<ctx, channel, calls, walk, wave, media, icon, left, busy, n>>

Evicts(i) ==
    /\ n.evictions < MaxEvictions /\ i \in cached
    /\ n' = [n EXCEPT !.evictions = @ + 1]
    /\ cached' = cached \ {i}
    /\ UNCHANGED <<ctx, channel, calls, walk, wave, fetching, known, mediaDone,
                   icon, supply>>

-----------------------------------------------------------------------------
(* Settings saves, shutdown, restart.                                      *)

Reload ==
    /\ root /\ n.cancels < MaxCancels
    /\ n' = [n EXCEPT !.cancels = @ + 1]
    /\ cancelled' = [w \in Workers |-> cancelled[w] \/ Scope[w] = "bucket"]
    /\ UNCHANGED <<root, channel, calls, walk, wave, media, icon, supply>>

Shutdown ==
    /\ root /\ n.stops < MaxStops
    /\ root' = FALSE
    /\ cancelled' = [w \in Workers |-> cancelled[w] \/ Scope[w] # "none"]
    /\ UNCHANGED <<channel, calls, walk, wave, media, icon, supply, n>>

\* The process ends, at any point of a shutdown or without one, and a new one
\* starts from what is stored.
Restart ==
    /\ n.stops < MaxStops
    /\ n' = [n EXCEPT !.stops = @ + 1]
    /\ root' = TRUE /\ cancelled' = [w \in Workers |-> FALSE]
    /\ queue' = Empty /\ phase' = "idle" /\ item' = Empty
    /\ at' = [w \in Workers |-> IF w \in L1s THEN "off" ELSE "idle"]
    /\ closed' = [w \in Workers |-> FALSE]
    /\ got' = [w \in Workers |-> "unset"]
    /\ page' = saved
    /\ wave' = [w \in L2s |-> NoWave]
    /\ fetching' = {} /\ token' \in {"none", "usable"}
    /\ busy' = FALSE
    /\ UNCHANGED <<job, saved, walked, cached, known, mediaDone, icon, left>>

-----------------------------------------------------------------------------
L1Step(w) ==
    /\ Kind[w] = "L1"
    /\ L1Starts(w) \/ L1Ends(w) \/ L1Saves(w) \/ L1Exits(w)

L2Step(w) ==
    /\ Kind[w] = "L2"
    /\ \/ L2Starts(w) \/ L2Downloaded(w) \/ L2Rechecks(w)
       \/ L2Marks(w) \/ L2Unwinds(w)
       \/ \E i \in Images : L2Skips(w, i) \/ L2Freezes(w, i) \/ L2Submits(w, i)

L3Step(w) == Kind[w] = "L3" /\ (L3Starts(w) \/ L3Ends(w))

L4Step(w) ==
    /\ Kind[w] = "L4"
    /\ L4Starts(w) \/ L4Judges(w) \/ L4Downloads(w) \/ L4Saves(w) \/ L4GivesUp(w)

WorkerStep(w) ==
    \/ Send(w) \/ Wakes(w) \/ Leaves(w)
    \/ L1Step(w) \/ L2Step(w) \/ L3Step(w) \/ L4Step(w)

LoopStep ==
    Take \/ BudgetOk \/ Check \/ PauseEnds \/ Runs \/ CooldownEnds \/ LoopStops

Environment ==
    \/ \E b \in BOOLEAN : Visit(b)
    \/ Quiet \/ WindowResets \/ TokenArrives \/ TokenExpires
    \/ \E i \in Images : VisitorFetches(i) \/ VisitorFetched(i) \/ Evicts(i)

Next ==
    \/ \E w \in Workers : WorkerStep(w)
    \/ LoopStep \/ Environment \/ Launch \/ Reload \/ Shutdown \/ Restart

Spec == Init /\ [][Next]_vars

\* The goroutines run, the channel serves its senders in turn, a window ends,
\* a token comes and goes but comes (TokenHolder), a visitor's fetch ends.
Fairness ==
    /\ \A w \in Workers :
          /\ SF_vars(Send(w)) /\ WF_vars(Wakes(w)) /\ WF_vars(Leaves(w))
          /\ WF_vars(L1Step(w)) /\ WF_vars(L2Step(w))
          /\ WF_vars(L3Step(w)) /\ WF_vars(L4Step(w))
    /\ WF_vars(LoopStep)
    /\ WF_vars(WindowResets) /\ WF_vars(TokenArrives)
    /\ WF_vars(\E i \in Images : VisitorFetched(i))

FairSpec == Spec /\ Fairness

-----------------------------------------------------------------------------
TypeOK ==
    /\ root \in BOOLEAN /\ cancelled \in [Workers -> BOOLEAN]
    /\ queue \in Items /\ item \in Items
    /\ phase \in Phases
    /\ at \in [Workers -> Stages] /\ job \in [Workers -> Jobs]
    /\ closed \in [Workers -> BOOLEAN] /\ got \in [Workers -> Results]
    /\ page \in [L1s -> Pages] /\ saved \in [L1s -> Pages]
    /\ walked \in [L1s -> SUBSET (Pages \X BOOLEAN)]
    /\ wave \in [L2s -> Waves]
    /\ cached \subseteq Images /\ fetching \subseteq Images
    /\ known \subseteq Pasted /\ mediaDone \in BOOLEAN
    /\ icon \in {"unknown", "has", "none"}
    /\ token \in {"none", "usable", "unusable"} /\ left \in 0 .. Cap
    /\ busy \in BOOLEAN
    /\ n \in [visits : Nat, cancels : Nat, stops : Nat, evictions : Nat]

\* What a worker waits for is in the channel or in the loop's hands, once; an
\* item nobody owns has lost its submitter to a cancelled context.
Holds(i, w) == i.by = w /\ i.owned
OwnersAgree ==
    /\ (item # Empty) = (phase \in {"budget", "check", "pause", "running"})
    /\ \A w \in Workers :
          /\ (at[w] = "waiting" /\ ~closed[w]) = (Holds(queue, w) \/ Holds(item, w))
          /\ ~(Holds(queue, w) /\ Holds(item, w))

\* The cursor, in memory and stored, never passes a page that this walk has not
\* fetched and handed to the archive, through cancelled rounds, items that run
\* without their submitter, shutdowns and restarts.  (It does pass a page whose
\* Save failed: runOneSubFetch does not hear of it.)
Passes(w, p) == \E taken \in BOOLEAN : <<p, taken>> \in walked[w]
CursorBehind ==
    \A w \in L1s : /\ \A p \in 1 .. (page[w] - 1) : Passes(w, p)
                   /\ \A p \in 1 .. (saved[w] - 1) : Passes(w, p)

\* While the process is not stopped, a post that is marked done has its own
\* images on disk, but for those the evictor took, however the wave, the
\* visitors' fetches and a settings save interleave.
Steady == root /\ n.stops = 0 /\ n.evictions = 0
BodyArchived == Steady /\ mediaDone => Body \subseteq cached

\* Nobody waits for an item that is not its own and still to come, no cursor
\* passes a page that was not fetched and handed to the archive, and what is
\* marked done is on disk, through settings saves, shutdowns and restarts
\* (scheduler.go submit, dispatchLoop, bucketLoop, runL2Wave).
WorkAccounted == OwnersAgree /\ CursorBehind /\ BodyArchived

\* Every submit returns: nobody is for ever in one.
Answered == \A w \in Workers : []<>(at[w] \notin {"sending", "waiting"})

-----------------------------------------------------------------------------
(* The inductive invariant of the proofs.                                  *)

Out == {"sending", "waiting", "answered", "left"}

\* A sender has no answer yet; an item asks for what its kind of worker asks
\* for, and an owner's item for what the owner waits for.
Apt(w, j) == /\ w \in L1s => \E p \in Pages : j = Listing(p)
             /\ w \in L2s => \E i \in Images : j = Image(i)
JobsAgree ==
    /\ queue = Empty \/ queue.by \in Workers
    /\ item = Empty \/ item.by \in Workers
    /\ \A w \in Workers : /\ at[w] = "sending" => ~closed[w]
                          /\ at[w] \in Out => Apt(w, job[w])
                          /\ Holds(queue, w) => queue.job = job[w]
                          /\ Holds(item, w) => item.job = job[w]
                          /\ queue.by = w => Apt(w, queue.job)
                          /\ item.by = w => Apt(w, item.job)

Answers(w) == at[w] = "answered" \/ (at[w] = "waiting" /\ closed[w])

\* A page is asked for at the cursor, and an answer with a next page has been
\* handed to the archive.
WalkAgree ==
    \A w \in L1s :
        /\ at[w] \in Out => job[w] = Listing(page[w])
        /\ Answers(w) /\ got[w] = "more" =>
              page[w] < LastPage /\ Passes(w, page[w])

\* While nothing stops the process and nothing is evicted, an image of the
\* post is to be looked at, frozen, on disk, or the wave has failed.
WaveAgree ==
    Steady => \A w \in L2s :
          /\ Answers(w) /\ got[w] # "fail" => job[w][2] \in cached
          /\ wave[w].ok /\ at[w] \in (Out \ {"left"}) \union {"working"} =>
                Body \subseteq wave[w].todo \union wave[w].frozen \union cached

IInv ==
    /\ TypeOK /\ OwnersAgree /\ JobsAgree /\ WalkAgree /\ CursorBehind
    /\ WaveAgree /\ BodyArchived
=============================================================================
