---------------------------- MODULE PrefetchWaves ----------------------------
(***************************************************************************)
(* prefetch/scheduler.go: the L2 and L3 waves of one subreddit in one      *)
(* bucket.  An L1 fetch opens a cycle per layer; a cycle writes a row per  *)
(* wave to prefetch_runs and a goroutine sleeps from wave to wave and      *)
(* fires each.  Newer cycles supersede older rows, settings changes cancel *)
(* or pause drivers, the reconcile loop and a restart revive what is left. *)
(* Sleeping is a step not taken yet.  Cycle ids are unix seconds; two      *)
(* cycles of a layer are taken to start in different seconds.              *)
(***************************************************************************)
EXTENDS Integers

CONSTANTS
    Layers,        \* the layers looked at, of "L2" and "L3"
    MaxCycles,     \* bound: cycles planned; a listing beyond it is empty
    MaxWaves,      \* waves of a cycle (l2WavesPerCycle, planL3Waves)
    MaxRestarts,   \* bound: restarts
    MaxChanges,    \* bound: settings saves
    MaxErrors,     \* bound: failing TryMarkRunning statements
    Others         \* values of the rest of the prefetch settings

ASSUME LayersAssumption == Layers \subseteq {"L2", "L3"} /\ 0 \in Others
ASSUME BoundsAssumption ==
    /\ MaxCycles \in Nat \ {0} /\ MaxWaves \in Nat \ {0}
    /\ MaxRestarts \in Nat /\ MaxChanges \in Nat /\ MaxErrors \in Nat

VARIABLES
    settings,  \* the crawl list, the sub's depth, the rest of configSignature
    loop,      \* coordinator and bucketLoop: place, its context, lastSig
    rows,      \* prefetch_runs: the status of each wave row
    layer,     \* the layer of each cycle
    made,      \* cycles planned so far
    go,        \* goroutines that plan or drive waves
    seen,      \* reconcileLoop: prev, and whether it is seeded
    snap,      \* l2Cycles and l3Cycles: the cycle shown for each layer
    fired,     \* history: how often each wave's fetch was started
    past,      \* history: waves whose driver had looked at the depth for the last
               \* time when the settings were last saved, and which are still to begin
    budget     \* restarts, changes and errors so far

vars == <<settings, loop, rows, layer, made, go, seen, snap, fired, past, budget>>

-----------------------------------------------------------------------------
Cycles == 1..MaxCycles
Rows   == Cycles \X (1..MaxWaves)
NoRow  == <<0, 0>>
Status == {"none", "pending", "running", "ok", "fail", "skipped"}
Slots  == 1..(MaxCycles + 1)
Settings == [listed : BOOLEAN, depth : SUBSET Layers, rest : Others]
Kinds    == {"L2", "L3", ""}
Loops    == [pc : {"out", "wait", "fetch"}, live : BOOLEAN, sig : Settings]
Passes   == [prev : SUBSET Layers, seeded : BOOLEAN]
Budgets  == [restarts : 0..MaxRestarts, changes : 0..MaxChanges, errors : 0..MaxErrors]
Off == [listed |-> FALSE, depth |-> {}, rest |-> 0]

\* Between driverEnter and driverExit: a live cycle plans, sleeps, marks the row,
\* begins the wave and runs it; a revived one takes its next row, is parked until
\* its time, rechecks, begins and runs.
Live    == {"plan", "sleep", "mark", "begin", "run"}
Revived == {"next", "park", "recheck", "beginRevived", "runRevived"}
Before  == {"fan", "mint", "regen", "gate"}

Goroutine == [pc : {"none"} \union Before \union Live \union Revived,
              layer : Kinds, cycle : 0..MaxCycles,
              left : SUBSET Rows, at : Rows \union {NoRow},
              ctx : {"bucket", "root", "done"}, posts : BOOLEAN]

G(p, l, c, left, ctx, posts) ==
    [pc |-> p, layer |-> l, cycle |-> c, left |-> left, at |-> NoRow,
     ctx |-> ctx, posts |-> posts]
Gone == G("none", "", 0, {}, "done", FALSE)

\* The same goroutine, further on.
To(g, p, left, at) == [g EXCEPT !.pc = p, !.left = left, !.at = at]

Free == {i \in Slots : go[i].pc = "none"}
Pending(l) == {r \in Rows : rows[r] = "pending" /\ layer[r[1]] = l}

\* driverActive.
Active(l) == \E i \in Slots : go[i].layer = l /\ go[i].pc \in Live \union Revived
Covers(l) == l \in settings.depth

\* The rows of a plan that come first: sort.Slice by sub_interval.
First(left) == {r \in left : \A s \in left : r[2] <= s[2]}

TypeOK ==
    /\ settings \in Settings
    /\ loop \in Loops
    /\ rows \in [Rows -> Status]
    /\ layer \in [Cycles -> Kinds]
    /\ made \in 0..MaxCycles
    /\ go \in [Slots -> Goroutine]
    /\ seen \in Passes
    /\ snap \in [Layers -> 0..MaxCycles]
    /\ fired \in [Rows -> 0..2] /\ past \in SUBSET Rows
    /\ budget \in Budgets

Init ==
    /\ settings = [listed |-> TRUE, depth |-> Layers, rest |-> 0]
    /\ loop = [pc |-> "out", live |-> FALSE, sig |-> Off]
    /\ rows = [r \in Rows |-> "none"]
    /\ layer = [c \in Cycles |-> ""]
    /\ made = 0
    /\ go = [i \in Slots |-> Gone]
    /\ seen = [prev |-> {}, seeded |-> FALSE]
    /\ snap = [l \in Layers |-> 0]
    /\ fired = [r \in Rows |-> 0] /\ past = {}
    /\ budget = [restarts |-> 0, changes |-> 0, errors |-> 0]

-----------------------------------------------------------------------------
(* Settings, the coordinator and the bucket loop.                          *)

\* The drivers that look at the depth no more before their wave.
Committed(i) == go[i].pc \in {"mark", "begin", "beginRevived"}

\* A settings save; "rest" is any other sub's mode.
Change(s) ==
    /\ s # settings
    /\ budget.changes < MaxChanges
    /\ settings' = s
    /\ budget' = [budget EXCEPT !.changes = @ + 1]
    /\ past' = {go[i].at : i \in {j \in Slots : Committed(j)}}
    /\ UNCHANGED <<loop, rows, layer, made, go, seen, snap, fired>>

\* The coordinator's poll finds another signature, or a blank list: the
\* context of the bucket loops and of the goroutines they spawned is cancelled.
TearDown ==
    /\ loop.live
    /\ ~settings.listed \/ settings # loop.sig
    /\ loop' = [loop EXCEPT !.live = FALSE]
    /\ go' = [i \in Slots |-> IF go[i].ctx = "bucket" THEN [go[i] EXCEPT !.ctx = "done"]
                                                     ELSE go[i]]
    /\ UNCHANGED <<settings, rows, layer, made, seen, snap, fired, budget, past>>

LoopExits ==
    /\ loop.pc = "wait"
    /\ ~loop.live \/ ~settings.listed
    /\ loop' = [loop EXCEPT !.pc = "out"]
    /\ UNCHANGED <<settings, rows, layer, made, go, seen, snap, fired, budget, past>>

Launch ==
    /\ loop.pc = "out" /\ ~loop.live /\ settings.listed
    /\ loop' = [pc |-> "wait", live |-> TRUE, sig |-> settings]
    /\ UNCHANGED <<settings, rows, layer, made, go, seen, snap, fired, budget, past>>

\* A round is due; periods are a minute at least (minCyclePeriod), so the last
\* round's goroutines have planned their waves.
FetchStarts ==
    /\ loop.pc = "wait" /\ loop.live
    /\ \A i \in Slots : go[i].ctx = "root" \/ go[i].pc \notin {"fan", "mint", "plan"}
    /\ loop' = [loop EXCEPT !.pc = "fetch"]
    /\ UNCHANGED <<settings, rows, layer, made, go, seen, snap, fired, budget, past>>

\* SupersedePending: no row of the cycle that is opening is written yet.
Superseded(l) == [r \in Rows |-> IF r \in Pending(l) THEN "skipped" ELSE rows[r]]

Slot(j) == j \in Free /\ \A k \in Free : j <= k

\* Mutant: nothing is superseded.
FetchEndsKeeping(posts) ==
    /\ loop.pc = "fetch"
    /\ \E j \in Slots : Slot(j) /\ go' = [go EXCEPT ![j] =
            G("fan", "", 0, {}, IF loop.live THEN "bucket" ELSE "done", posts)]
    /\ loop' = [loop EXCEPT !.pc = "wait"]
    /\ UNCHANGED <<settings, rows, layer, made, seen, snap, fired, budget, past>>

\* runOneSubFetch has returned, with posts or without: the older L2 rows are
\* superseded and runL2Cycle starts, under a cancelled context too.
FetchEnds(posts) ==
    /\ loop.pc = "fetch"
    /\ rows' = Superseded("L2")
    /\ \E j \in Slots : Slot(j) /\ go' = [go EXCEPT ![j] =
            G("fan", "", 0, {}, IF loop.live THEN "bucket" ELSE "done", posts)]
    /\ loop' = [loop EXCEPT !.pc = "wait"]
    /\ UNCHANGED <<settings, layer, made, seen, snap, fired, budget, past>>

-----------------------------------------------------------------------------
(* A cycle's own goroutine.                                                 *)

Room == made < MaxCycles

\* driverEnter; the waves are planned, the cycle is shown.
Planning(g, l) == G("plan", l, made + 1, {}, g.ctx, TRUE)
Opens(l) ==
    /\ made' = made + 1
    /\ layer' = [layer EXCEPT ![made + 1] = l]
OpensNone == UNCHANGED <<made, layer>>

\* runL2Cycle: L3 gets a goroutine of its own, or its left-over rows are
\* retired; then this one is L2's, if the depth covers L2 and there are posts.
FanOut(i) ==
    LET g    == go[i]
        l2   == Covers("L2") /\ g.posts /\ Room
        mine == IF l2 THEN Planning(g, "L2") ELSE Gone IN
    /\ g.pc = "fan"
    /\ IF l2 THEN Opens("L2") ELSE OpensNone
    /\ \/ /\ Covers("L3")
          /\ \E j \in Slots : Slot(j) /\ go' = [go EXCEPT ![i] = mine,
                  ![j] = G("mint", "L3", 0, {}, g.ctx, g.posts)]
          /\ UNCHANGED rows
       \/ /\ ~Covers("L3")
          /\ go' = [go EXCEPT ![i] = mine]
          /\ rows' = Superseded("L3")
    /\ snap' = [l \in Layers |-> IF l = "L2" /\ l2 THEN made + 1
                                 ELSE IF l = "L3" /\ ~Covers("L3") THEN 0 ELSE snap[l]]
    /\ UNCHANGED <<settings, loop, seen, fired, budget, past>>

\* runL3Cycle: a cycle id, the older L3 rows superseded, the plan.
Mint(i) ==
    LET g == go[i] IN
    /\ g.pc = "mint"
    /\ rows' = Superseded("L3")
    /\ \/ /\ g.posts /\ Room
          /\ Opens("L3")
          /\ go' = [go EXCEPT ![i] = Planning(g, "L3")]
          /\ snap' = [snap EXCEPT !["L3"] = made + 1]
       \/ /\ ~g.posts \/ ~Room
          /\ OpensNone
          /\ go' = [go EXCEPT ![i] = Gone]
          /\ UNCHANGED snap
    /\ UNCHANGED <<settings, loop, seen, fired, budget, past>>

\* reconcile's L2 cycle: driveL2Cycle alone, which supersedes nothing.
Regenerate(i) ==
    LET g == go[i] IN
    /\ g.pc = "regen"
    /\ \/ /\ Covers("L2") /\ Room
          /\ Opens("L2")
          /\ go' = [go EXCEPT ![i] = Planning(g, "L2")]
          /\ snap' = [snap EXCEPT !["L2"] = made + 1]
       \/ /\ ~Covers("L2") \/ ~Room
          /\ OpensNone
          /\ go' = [go EXCEPT ![i] = Gone]
          /\ UNCHANGED snap
    /\ UNCHANGED <<settings, loop, rows, seen, fired, budget, past>>

\* driveWaves writes its rows one by one.
Schedule(i) ==
    LET g == go[i]
        row(w) == <<g.cycle, w>> IN
    /\ g.pc = "plan"
    /\ \E w \in 1..MaxWaves :
          /\ row(w) \notin g.left
          /\ \A v \in 1..(w - 1) : row(v) \in g.left
          /\ rows' = [rows EXCEPT ![row(w)] = "pending"]
          /\ go' = [go EXCEPT ![i] =
                G(IF w = MaxWaves THEN "sleep" ELSE "plan", g.layer, g.cycle,
                  g.left \union {row(w)}, g.ctx, TRUE)]
    /\ UNCHANGED <<settings, loop, layer, made, seen, snap, fired, budget, past>>

Dropped(l, c) == IF l \in Layers /\ snap[l] = c THEN [snap EXCEPT ![l] = 0] ELSE snap

\* A driver ends: cancelled or superseded it drops its snapshot, paused it
\* keeps it.  What is left of its rows stays as it is.
Ends(i) == go' = [go EXCEPT ![i] = Gone]

Cancelled(i) ==
    /\ go[i].pc = "sleep" /\ go[i].ctx = "done"
    /\ Ends(i)
    /\ snap' = Dropped(go[i].layer, go[i].cycle)
    /\ UNCHANGED <<settings, loop, rows, layer, made, seen, fired, budget, past>>

Paused(i) ==
    /\ go[i].pc = "sleep" /\ go[i].ctx # "done" /\ ~Covers(go[i].layer)
    /\ Ends(i)
    /\ UNCHANGED <<settings, loop, rows, layer, made, seen, snap, fired, budget, past>>

\* The wave's time has come: the context and the depth are looked at.
Looks(i) ==
    /\ go[i].pc = "sleep" /\ go[i].ctx # "done" /\ Covers(go[i].layer)
    /\ \E r \in First(go[i].left) : go' = [go EXCEPT ![i] = To(go[i], "mark", go[i].left, r)]
    /\ UNCHANGED <<settings, loop, rows, layer, made, seen, snap, fired, past, budget>>

\* TryMarkRunning finds the row pending.
Takes(i) ==
    LET g == go[i] IN
    /\ g.pc = "mark" /\ rows[g.at] = "pending"
    /\ rows' = [rows EXCEPT ![g.at] = "running"]
    /\ go' = [go EXCEPT ![i] = To(g, "begin", g.left, g.at)]
    /\ UNCHANGED <<settings, loop, layer, made, seen, snap, fired, past, budget>>

\* The row was superseded, or the statement failed: both end the cycle.
Discards(i, errs) ==
    /\ go[i].pc = "mark"
    /\ errs = 0 => rows[go[i].at] # "pending"
    /\ budget.errors + errs <= MaxErrors
    /\ Ends(i)
    /\ snap' = Dropped(go[i].layer, go[i].cycle)
    /\ budget' = [budget EXCEPT !.errors = @ + errs]
    /\ UNCHANGED <<settings, loop, rows, layer, made, seen, fired, past>>

\* The fetch of a wave starts: runL2Wave looks at the depth itself and returns
\* when it is off, runL3Wave does not look.
Begins(i) == go[i].layer = "L2" => Covers("L2")
Runs(i, r, p) ==
    /\ go' = [go EXCEPT ![i] = To(go[i], p, go[i].left, r)]
    /\ fired' = [fired EXCEPT ![r] = IF @ < 2 THEN @ + 1 ELSE 2]
    /\ past' = past \ {r}

Fires(i) ==
    /\ go[i].pc = "begin" /\ Begins(i)
    /\ Runs(i, go[i].at, "run")
    /\ UNCHANGED <<settings, loop, rows, layer, made, seen, snap, budget>>

\* runL2Wave or runL3Wave returns: an error when its context was cancelled,
\* unless the last post's submit swallowed it.  An error ends the cycle.
Finishes(i, res) ==
    LET g == go[i]
        rest == g.left \ {g.at} IN
    /\ \/ g.pc = "run" /\ (res = "fail" => g.ctx = "done")
       \/ g.pc = "begin" /\ ~Begins(i) /\ res = "ok"
    /\ rows' = [rows EXCEPT ![g.at] = res]
    /\ \/ /\ rest # {} /\ res = "ok"
          /\ go' = [go EXCEPT ![i] = To(g, "sleep", rest, NoRow)]
          /\ UNCHANGED snap
       \/ /\ rest = {} \/ res = "fail"
          /\ Ends(i)
          /\ snap' = Dropped(g.layer, g.cycle)
    /\ UNCHANGED <<settings, loop, layer, made, seen, fired, budget, past>>

-----------------------------------------------------------------------------
(* driveReclaimedCycle and resumePendingWave, under the root context.      *)

\* The layer is off: every row it was given is retired.
Retires(i) ==
    LET g == go[i] IN
    /\ g.pc = "gate" /\ ~Covers(g.layer)
    /\ rows' = [r \in Rows |-> IF r \in g.left THEN "skipped" ELSE rows[r]]
    /\ Ends(i)
    /\ UNCHANGED <<settings, loop, layer, made, seen, snap, fired, budget, past>>

\* The top of the loop; the depth is read again before every wave.
NextWave(i) ==
    LET g == go[i] IN
    /\ g.pc \in {"gate", "next"} /\ g.left # {} /\ Covers(g.layer)
    /\ \E r \in First(g.left) :
          go' = [go EXCEPT ![i] = [To(g, "park", g.left, r) EXCEPT !.cycle = r[1]]]
    /\ UNCHANGED <<settings, loop, rows, layer, made, seen, snap, fired, budget, past>>

PausedRevived(i) ==
    /\ go[i].pc = "next" /\ go[i].left # {} /\ ~Covers(go[i].layer)
    /\ Ends(i)
    /\ UNCHANGED <<settings, loop, rows, layer, made, seen, snap, fired, budget, past>>

AllDriven(i) ==
    /\ go[i].pc = "next" /\ go[i].left = {}
    /\ Ends(i)
    /\ snap' = IF go[i].layer = "L3" THEN Dropped("L3", go[i].cycle) ELSE snap
    /\ UNCHANGED <<settings, loop, rows, layer, made, seen, fired, budget, past>>

\* L2's snapshot goes with its last wave (maybeDropL2Cycle), L3's at once.
DroppedAfter(l, r) == IF l = "L3" \/ r[2] = MaxWaves THEN Dropped(l, r[1]) ELSE snap

\* TryMarkRunning; when the statement itself fails the wave goes on.
Marks(i, errs) ==
    LET g == go[i] IN
    /\ g.pc = "park"
    /\ errs = 0 => rows[g.at] = "pending"
    /\ budget.errors + errs <= MaxErrors
    /\ rows' = IF errs = 0 THEN [rows EXCEPT ![g.at] = "running"] ELSE rows
    /\ go' = [go EXCEPT ![i] = To(g, "recheck", g.left, g.at)]
    /\ budget' = [budget EXCEPT !.errors = @ + errs]
    /\ UNCHANGED <<settings, loop, layer, made, seen, snap, fired, past>>

DiscardsRevived(i) ==
    LET g == go[i] IN
    /\ g.pc = "park" /\ rows[g.at] # "pending"
    /\ Ends(i)
    /\ snap' = DroppedAfter(g.layer, g.at)
    /\ UNCHANGED <<settings, loop, rows, layer, made, seen, fired, budget, past>>

Advanced(i) ==
    go' = [go EXCEPT ![i] = To(go[i], "next", go[i].left \ {go[i].at}, NoRow)]
DroppedL2(i) == IF go[i].layer = "L2" THEN DroppedAfter("L2", go[i].at) ELSE snap

\* Mutant: the depth is not read again after the sleep.
RechecksBlind(i) ==
    /\ go[i].pc = "recheck"
    /\ go' = [go EXCEPT ![i] = To(go[i], "beginRevived", go[i].left, go[i].at)]
    /\ UNCHANGED <<settings, loop, rows, layer, made, seen, snap, fired, past, budget>>

Rechecks(i) ==
    /\ go[i].pc = "recheck" /\ Covers(go[i].layer)
    /\ go' = [go EXCEPT ![i] = To(go[i], "beginRevived", go[i].left, go[i].at)]
    /\ UNCHANGED <<settings, loop, rows, layer, made, seen, snap, fired, past, budget>>

FiresRevived(i) ==
    /\ go[i].pc = "beginRevived" /\ Begins(i)
    /\ Runs(i, go[i].at, "runRevived")
    /\ UNCHANGED <<settings, loop, rows, layer, made, seen, snap, budget>>

SkipsRevived(i) ==
    /\ go[i].pc = "recheck" /\ ~Covers(go[i].layer)
    /\ rows' = [rows EXCEPT ![go[i].at] = "skipped"]
    /\ Advanced(i)
    /\ snap' = DroppedL2(i)
    /\ UNCHANGED <<settings, loop, layer, made, seen, fired, budget, past>>

FinishesRevived(i) ==
    /\ go[i].pc = "runRevived" \/ (go[i].pc = "beginRevived" /\ ~Begins(i))
    /\ rows' = [rows EXCEPT ![go[i].at] = "ok"]
    /\ Advanced(i)
    /\ snap' = DroppedL2(i)
    /\ UNCHANGED <<settings, loop, layer, made, seen, fired, budget, past>>

-----------------------------------------------------------------------------
(* reconcileLoop.                                                           *)

Revive(l, left) == G("gate", l, 0, left, "root", TRUE)

\* resumeOrRegenerate: what is pending is resumed; otherwise a new cycle is
\* rolled, unless no post of the sub is archived.
Resumed(l, archived) ==
    IF Pending(l) # {} THEN Revive(l, Pending(l))
    ELSE IF ~archived THEN Gone
    ELSE G(IF l = "L2" THEN "regen" ELSE "mint", l, 0, {}, "root", TRUE)

\* Every 15 s, by when the goroutines of the last pass have begun.
ReconcilePass(archived) ==
    LET turned == {l \in settings.depth \ seen.prev : seen.seeded /\ ~Active(l)} IN
    /\ settings.listed
    /\ \A i \in Slots : go[i].pc \notin {"gate", "regen"}
    /\ \E slot \in [turned -> Free] :
          /\ \A l, k \in turned : l # k => slot[l] # slot[k]
          /\ go' = [i \in Slots |-> IF \E l \in turned : slot[l] = i
                                     THEN Resumed(CHOOSE l \in turned : slot[l] = i, archived)
                                     ELSE go[i]]
    /\ seen' = [prev |-> settings.depth, seeded |-> TRUE]
    /\ UNCHANGED <<settings, loop, rows, layer, made, snap, fired, budget, past>>

ReconcileOff ==
    /\ ~settings.listed
    /\ seen' = [prev |-> {}, seeded |-> FALSE]
    /\ UNCHANGED <<settings, loop, rows, layer, made, go, snap, fired, budget, past>>

-----------------------------------------------------------------------------
(* The process dies and reclaimPendingRuns runs before anything else.      *)

PendingOf(c) == {r \in Rows : r[1] = c /\ rows[r] = "pending"}

\* Mutant: rows stay running.
AfterCrashStale(r, discarded) ==
    IF r[1] \in discarded /\ rows[r] = "pending" THEN "skipped" ELSE rows[r]

\* FailStaleRunning, and the rows of the cycles that are not revived.
AfterCrash(r, discarded) ==
    IF rows[r] = "running" THEN "fail"
    ELSE IF r[1] \in discarded /\ rows[r] = "pending" THEN "skipped" ELSE rows[r]

\* "hangover" are the L3 cycles whose plan does not fit the last listing.
Restart(hangover) ==
    LET active  == {c \in Cycles : PendingOf(c) # {}}
        dropped == {c \in active : ~Covers(layer[c]) \/ c \in hangover}
        kept    == active \ dropped IN
    /\ budget.restarts < MaxRestarts
    /\ \A c \in hangover : layer[c] = "L3"
    /\ rows' = [r \in Rows |-> AfterCrash(r, dropped)]
    /\ go' = [i \in Slots |-> IF i \in kept THEN Revive(layer[i], PendingOf(i)) ELSE Gone]
    /\ snap' \in [Layers -> 0..MaxCycles]
    /\ \A l \in Layers : LET shown == {c \in kept : layer[c] = l} IN
          /\ IF shown = {} THEN snap'[l] = 0 ELSE snap'[l] \in shown
          /\ \A c \in shown : c <= snap'[l]
    /\ loop' = [pc |-> "out", live |-> FALSE, sig |-> Off]
    /\ seen' = [prev |-> {}, seeded |-> FALSE]
    /\ budget' = [budget EXCEPT !.restarts = @ + 1]
    /\ past' = {}
    /\ UNCHANGED <<settings, layer, made, fired>>

-----------------------------------------------------------------------------
LoopSteps ==
    \/ TearDown \/ LoopExits \/ Launch \/ FetchStarts
    \/ \E posts \in BOOLEAN : FetchEnds(posts)

DriverSteps(i) ==
    \/ FanOut(i) \/ Mint(i) \/ Regenerate(i) \/ Schedule(i)
    \/ Cancelled(i) \/ Paused(i) \/ Looks(i) \/ Takes(i) \/ Fires(i)
    \/ \E errs \in 0..1 : Discards(i, errs) \/ Marks(i, errs)
    \/ \E res \in {"ok", "fail"} : Finishes(i, res)
    \/ Retires(i) \/ NextWave(i) \/ PausedRevived(i) \/ AllDriven(i)
    \/ DiscardsRevived(i) \/ Rechecks(i) \/ SkipsRevived(i)
    \/ FiresRevived(i) \/ FinishesRevived(i)

Next ==
    \/ LoopSteps
    \/ \E i \in Slots : DriverSteps(i)
    \/ \E archived \in BOOLEAN : ReconcilePass(archived)
    \/ ReconcileOff
    \/ \E s \in Settings : Change(s)
    \/ \E hangover \in SUBSET Cycles : Restart(hangover)

Spec == Init /\ [][Next]_vars

\* Goroutines run, timers end, polls and rounds recur.
FairSpec ==
    /\ Spec
    /\ WF_vars(LoopSteps)
    /\ \A i \in Slots : WF_vars(DriverSteps(i))
    /\ WF_vars(\E archived \in BOOLEAN : ReconcilePass(archived))

-----------------------------------------------------------------------------
Running(i) == go[i].pc \in {"begin", "run", "recheck", "beginRevived", "runRevived"}

\* A row is running exactly while one driver runs it: the ledger does not lie,
\* and two drivers never fetch one wave.
RunnersAgree ==
    /\ \A r \in Rows : rows[r] = "running" <=> \E i \in Slots : Running(i) /\ go[i].at = r
    /\ \A i, j \in Slots : Running(i) /\ Running(j) /\ go[i].at = go[j].at => i = j

\* A wave is fetched once, whatever crashes, revivals and takeovers come.
FiresOnce == \A r \in Rows : fired[r] <= 1

\* What FiresOnce and RunnersAgree rest on.  A driver's rows exist and are of
\* its layer; it runs one of them.
RowsOwned ==
    \A i \in Slots :
        /\ \A r \in go[i].left : rows[r] # "none" /\ layer[r[1]] = go[i].layer
        /\ go[i].left # {} => go[i].pc \in Live \union Revived \union {"gate"}
        /\ go[i].pc = "park" \/ Committed(i) \/ Running(i) => go[i].at \in go[i].left

\* No cycle has two drivers.
RowsApart ==
    \A i, j \in Slots : i # j =>
        \A r \in go[i].left, q \in go[j].left : r[1] # q[1]

\* A cycle's rows are written once, by the goroutine that planned it.
RowsPlanned ==
    /\ \A r \in Rows : rows[r] # "none" => r[1] <= made
    /\ \A i \in Slots : go[i].pc = "plan" =>
        /\ go[i].cycle \in 1..made /\ layer[go[i].cycle] = go[i].layer
        /\ \A r \in Rows : r[1] = go[i].cycle /\ rows[r] # "none" => r \in go[i].left
    /\ \A i, j \in Slots : i # j /\ go[i].pc = "plan" /\ go[j].pc = "plan"
        => go[i].cycle # go[j].cycle

\* A row that was fired is not pending any more, nor about to begin.
ToBegin(i) == go[i].pc \in {"recheck", "begin", "beginRevived"}
FiredLeft ==
    /\ \A r \in Rows : rows[r] \in {"none", "pending"} => fired[r] = 0
    /\ \A i \in Slots : ToBegin(i) => fired[go[i].at] = 0
    /\ FiresOnce

\* The inductive invariants: who drives and plans which row, whatever fails; and
\* with that who runs and has fired it, while no statement fails.
DrivesInv == TypeOK /\ RowsOwned /\ RowsApart /\ RowsPlanned
IInv == DrivesInv /\ RunnersAgree /\ FiredLeft

\* The waves of one cycle are fired one at a time, also after a revival.
SerialWaves ==
    \A i, j \in Slots : Running(i) /\ Running(j) /\ go[i].at[1] = go[j].at[1] => i = j

\* A wave is one driver's, is fetched at most once, and not beside another wave
\* of its cycle, through crashes, revivals, takeovers and settings saves
\* (scheduler.go driveWaves, reviveOrphans, reconcileLayer; prefetch_runs.go).
OneDriverPerWave == RunnersAgree /\ FiresOnce /\ SerialWaves

\* What the checks of the depth promise: a wave begins while its layer is off
\* only if its driver had looked for the last time when the layer was switched
\* off, which is one wave of that driver and never one of L2.  Waves that sleep,
\* are parked or wait for a recheck by then begin no more until it is on again.
\* (driveWaves, resumePendingWave, runL2Wave; "stops further requests at once")
OffIsQuiet ==
    [][\A r \in Rows : fired'[r] # fired[r] /\ ~Covers(layer[r[1]])
          => layer[r[1]] # "L2" /\ r \in past]_vars

\* Why: who looks no more and finds its layer off was counted at the last save.
PastLooked ==
    \A i \in Slots : Committed(i) => Covers(go[i].layer) \/ go[i].at \in past

\* While the settings are left alone a layer never has two plans pending: a
\* round supersedes the last one's rows before it writes its own, also when its
\* goroutines overlap those of the round before or a revived cycle.
OnePlan ==
    budget.changes = 0 =>
        \A r, q \in Rows : rows[r] = "pending" /\ rows[q] = "pending"
            /\ layer[r[1]] = layer[q[1]] => r[1] = q[1]

\* Why.  With the settings of the start nobody tears a round down and the
\* reconcile loop finds nothing to resume.
StartSettings ==
    budget.changes = 0 =>
        /\ settings.listed /\ settings.depth = Layers
        /\ loop.live => loop.sig = settings
        /\ loop.pc # "out" => loop.live
        /\ seen.seeded => seen.prev = Layers
        /\ \A i \in Slots : go[i].pc # "regen"

\* So a round's goroutines plan before the next round is due, one per layer, and
\* whoever is about to plan a layer finds no row of an older plan pending.
Planners == {"fan", "mint", "plan"}
RoundPlans ==
    budget.changes = 0 =>
        /\ \A i \in Slots : go[i].pc \in Planners => go[i].ctx = "bucket" /\ loop.pc = "wait"
        /\ \A i \in Slots : go[i].pc = "mint" => go[i].layer = "L3"
        /\ \A i, j \in Slots : i # j /\ go[i].pc \in Planners /\ go[j].pc \in Planners
            => go[i].pc # "fan" /\ go[i].layer # go[j].layer
        /\ \A i \in Slots : go[i].pc = "fan" => Pending("L2") = {}
        /\ \A i \in Slots : go[i].pc = "plan" =>
            \A r \in Pending(go[i].layer) : r[1] = go[i].cycle

\* The inductive invariant of the plans.
PlansInv == DrivesInv /\ StartSettings /\ RoundPlans /\ OnePlan

\* While the sub stays on the list every wave is fired or discarded in the end.
WavesSettle ==
    <>[](settings.listed) => \A r \in Rows : []<>(rows[r] # "pending")
=============================================================================
