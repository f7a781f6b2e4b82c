------------------------ MODULE PrefetchWavesProofs ------------------------
(***************************************************************************)
(* One driver per cycle and one fetch per wave, for every number of        *)
(* cycles, waves, restarts and settings saves, while TryMarkRunning does   *)
(* not fail.                                                               *)
(***************************************************************************)
EXTENDS PrefetchWaves, TLAPS

Pcs == {"none"} \union Before \union Live \union Revived

\* The fields of a goroutine.
LEMMA Fields ==
    ASSUME NEW g \in Goroutine
    PROVE  /\ g.pc \in Pcs /\ g.layer \in Kinds
           /\ g.cycle \in 0..MaxCycles /\ g.left \in SUBSET Rows
           /\ g.at \in Rows \union {NoRow} /\ g.ctx \in {"bucket", "root", "done"}
           /\ g.posts \in BOOLEAN
BY DEF Goroutine, Pcs

LEMMA GType ==
    ASSUME NEW p \in Pcs, NEW l \in Kinds, NEW c \in 0..MaxCycles,
           NEW left \in SUBSET Rows, NEW ctx \in {"bucket", "root", "done"},
           NEW posts \in BOOLEAN
    PROVE  G(p, l, c, left, ctx, posts) \in Goroutine
BY DEF G, Goroutine, Pcs

LEMMA GoneType ==
    /\ Gone \in Goroutine /\ Gone.pc = "none" /\ Gone.left = {} /\ Gone.layer = ""
    /\ Gone.cycle = 0
<1>1. "none" \in Pcs /\ "" \in Kinds /\ 0 \in 0..MaxCycles
      /\ {} \in SUBSET Rows /\ "done" \in {"bucket", "root", "done"} /\ FALSE \in BOOLEAN
  BY BoundsAssumption DEF Pcs, Kinds
<1>2. Gone \in Goroutine
  BY <1>1, GType DEF Gone
<1>3. QED
  BY <1>2 DEF Gone, G

LEMMA ToType ==
    ASSUME NEW g \in Goroutine, NEW p \in Pcs, NEW left \in SUBSET Rows,
           NEW a \in Rows \union {NoRow}
    PROVE  /\ To(g, p, left, a) \in Goroutine
           /\ To(g, p, left, a).pc = p /\ To(g, p, left, a).left = left
           /\ To(g, p, left, a).at = a /\ To(g, p, left, a).layer = g.layer
           /\ To(g, p, left, a).cycle = g.cycle /\ To(g, p, left, a).ctx = g.ctx
BY DEF To, Goroutine, Pcs
\* Replacing one goroutine keeps the type of all.
LEMMA GoType ==
    ASSUME go \in [Slots -> Goroutine], NEW i \in Slots, NEW g \in Goroutine,
           go' = [go EXCEPT ![i] = g]
    PROVE  go' \in [Slots -> Goroutine]
OBVIOUS

\* What the drivers do to rows and snapshots keeps their types.
LEMMA RowsType ==
    ASSUME rows \in [Rows -> Status]
    PROVE  /\ \A l : Superseded(l) \in [Rows -> Status]
           /\ \A r \in Rows, st \in Status : [rows EXCEPT ![r] = st] \in [Rows -> Status]
BY DEF Superseded, Status

LEMMA SnapType ==
    ASSUME snap \in [Layers -> 0..MaxCycles]
    PROVE  \A l, c : Dropped(l, c) \in [Layers -> 0..MaxCycles]
BY BoundsAssumption DEF Dropped

\* The counters stay within their bounds.
LEMMA BudgetType ==
    ASSUME TypeOK
    PROVE  /\ budget.changes < MaxChanges => [budget EXCEPT !.changes = @ + 1] \in Budgets
           /\ budget.restarts < MaxRestarts => [budget EXCEPT !.restarts = @ + 1] \in Budgets
           /\ \A errs \in 0..1 : budget.errors + errs <= MaxErrors
                => [budget EXCEPT !.errors = @ + errs] \in Budgets
<1>1. budget \in Budgets
  BY DEF TypeOK
<1>2. QED
  BY <1>1, BoundsAssumption DEF Budgets

\* A cycle that opens has a number.
LEMMA RoomType ==
    ASSUME TypeOK, Room
    PROVE  made + 1 \in 0..MaxCycles /\ made + 1 \in Cycles
<1>1. made \in 0..MaxCycles
  BY DEF TypeOK
<1>2. QED
  BY <1>1, BoundsAssumption DEF Room, Cycles

\* Every step keeps every variable's type.
LEMMA TypeStep ==
    ASSUME TypeOK, RowsOwned, RowsPlanned, [Next]_vars
    PROVE  TypeOK'
<1> DEFINE Goes == go' \in [Slots -> Goroutine]
           Ctx  == {"bucket", "root", "done"}
<1>g. /\ go \in [Slots -> Goroutine]
      /\ \A i \in Slots : go[i] \in Goroutine
  BY DEF TypeOK
<1>0. \A i \in Slots : /\ go[i].left \in SUBSET Rows /\ go[i].at \in Rows \union {NoRow}
                       /\ go[i].layer \in Kinds /\ go[i].posts \in BOOLEAN
                       /\ go[i].ctx \in Ctx /\ go[i].cycle \in 0..MaxCycles
  BY <1>g, Fields
<1>e. \A i \in Slots, g \in Goroutine : go' = [go EXCEPT ![i] = g] => Goes
  BY <1>g
<1>w. rows \in [Rows -> Status]
  BY DEF TypeOK
<1>f. fired \in [Rows -> 0..2]
  BY DEF TypeOK
<1>s. snap \in [Layers -> 0..MaxCycles]
  BY DEF TypeOK
<1>y. layer \in [Cycles -> Kinds]
  BY DEF TypeOK
<1>d. settings \in Settings /\ settings.depth \in SUBSET Layers
  BY DEF TypeOK, Settings
<1>c. "" \in Kinds /\ "L2" \in Kinds /\ "L3" \in Kinds /\ Layers \subseteq Kinds
  BY LayersAssumption DEF Kinds
<1>l. loop \in Loops
  BY DEF TypeOK
<1>z. 0 \in 0..MaxCycles /\ {} \in SUBSET Rows
  BY BoundsAssumption
<1>p. {"none", "fan", "mint", "plan", "sleep", "mark", "begin", "run", "gate", "regen", "next",
       "park", "recheck", "beginRevived", "runRevived"} \subseteq Pcs
  BY DEF Pcs, Before, Live, Revived
<1>x. past \in SUBSET Rows
  BY DEF TypeOK
<1>a. \A i \in Slots : Committed(i) \/ Running(i) => go[i].at \in Rows
  BY <1>0 DEF RowsOwned
<1>i. \A n \in 0..2 : (IF n < 2 THEN n + 1 ELSE 2) \in 0..2
  OBVIOUS
<1>v. \A st \in {"none", "pending", "running", "ok", "fail", "skipped"} : st \in Status
  BY DEF Status
<1>1. ASSUME NEW s \in Settings, Change(s) PROVE TypeOK'
  <2>1. past' \in SUBSET Rows
    BY <1>1, <1>a DEF Change
  <2>2. QED
    BY <1>1, <2>1, BudgetType DEF Change, TypeOK
<1>2. CASE TearDown
  <2>1. \A g \in Goroutine : [g EXCEPT !.ctx = "done"] \in Goroutine
    BY DEF Goroutine
  <2>2. Goes
    BY <1>2, <1>g, <2>1 DEF TearDown
  <2>3. loop' \in Loops
    BY <1>2, <1>l DEF TearDown, Loops
  <2>4. QED
    BY <1>2, <2>2, <2>3 DEF TearDown, TypeOK
<1>3. CASE LoopExits
  <2>1. loop' \in Loops
    BY <1>3, <1>l DEF LoopExits, Loops
  <2>2. QED
    BY <1>3, <2>1 DEF LoopExits, TypeOK
<1>4. CASE Launch
  <2>1. loop' \in Loops
    BY <1>4, <1>d DEF Launch, Loops
  <2>2. QED
    BY <1>4, <2>1 DEF Launch, TypeOK
<1>5. CASE FetchStarts
  <2>1. loop' \in Loops
    BY <1>5, <1>l DEF FetchStarts, Loops
  <2>2. QED
    BY <1>5, <2>1 DEF FetchStarts, TypeOK
<1>6. ASSUME NEW posts \in BOOLEAN, FetchEnds(posts) PROVE TypeOK'
  <2>1. \A x \in Ctx : G("fan", "", 0, {}, x, posts) \in Goroutine
    BY <1>c, <1>z, <1>p, GType
  <2>2. Goes
    BY <1>6, <1>e, <2>1 DEF FetchEnds, Slot, Free
  <2>3. loop' \in Loops
    BY <1>6, <1>l DEF FetchEnds, Loops
  <2>4. rows' \in [Rows -> Status]
    BY <1>6, <1>w, RowsType DEF FetchEnds
  <2>5. QED
    BY <1>6, <2>2, <2>3, <2>4 DEF FetchEnds, TypeOK
<1>7. ASSUME NEW i \in Slots, FanOut(i) PROVE TypeOK'
  <2> DEFINE g == go[i]
             l2 == Covers("L2") /\ g.posts /\ Room
             mine == IF l2 THEN Planning(g, "L2") ELSE Gone
             child == G("mint", "L3", 0, {}, g.ctx, g.posts)
  <2>1. l2 => made + 1 \in 0..MaxCycles /\ made + 1 \in Cycles
    BY RoomType
  <2>2. l2 => Planning(g, "L2") \in Goroutine
    BY <1>0, <1>z, <1>c, <1>p, <2>1, GType DEF Planning
  <2>3. mine \in Goroutine
    BY <2>2, GoneType
  <2>4. Covers("L3") => child \in Goroutine
    BY <1>0, <1>z, <1>c, <1>p, GType
  <2> HIDE DEF mine, child
  <2>5. Goes
    BY <1>7, <1>g, <2>3, <2>4 DEF FanOut, mine, child, Slot, Free
  <2>6. rows' \in [Rows -> Status]
    BY <1>7, <1>w, RowsType DEF FanOut
  <2>7. made' \in 0..MaxCycles /\ layer' \in [Cycles -> Kinds]
    <3>1. made \in 0..MaxCycles
      BY DEF TypeOK
    <3>2. CASE l2
      <4>1. Opens("L2")
        BY <1>7, <3>2 DEF FanOut
      <4>2. QED
        BY <1>c, <1>y, <2>1, <3>2, <4>1 DEF Opens
    <3>3. CASE ~l2
      <4>1. OpensNone
        BY <1>7, <3>3 DEF FanOut
      <4>2. QED
        BY <1>y, <3>1, <4>1 DEF OpensNone
    <3>4. QED
      BY <3>2, <3>3
  <2>8. snap' \in [Layers -> 0..MaxCycles]
    BY <1>7, <1>s, <1>z, <2>1 DEF FanOut
  <2>9. QED
    BY <1>7, <2>5, <2>6, <2>7, <2>8 DEF FanOut, TypeOK
<1>8. ASSUME NEW i \in Slots, Mint(i) PROVE TypeOK'
  <2>1. rows' \in [Rows -> Status]
    BY <1>8, <1>w, RowsType DEF Mint
  <2>2. CASE go[i].posts /\ Room /\ Opens("L3") /\ go' = [go EXCEPT ![i] = Planning(go[i], "L3")]
              /\ snap' = [snap EXCEPT !["L3"] = made + 1]
    <3>1. made + 1 \in 0..MaxCycles /\ made + 1 \in Cycles
      BY <2>2, RoomType
    <3>2. Planning(go[i], "L3") \in Goroutine
      BY <1>0, <1>c, <1>z, <1>p, <3>1, GType DEF Planning
    <3>3. snap' \in [Layers -> 0..MaxCycles] /\ layer' \in [Cycles -> Kinds]
      BY <1>c, <1>s, <1>y, <2>2, <3>1 DEF Opens
    <3>4. QED
      BY <1>8, <1>e, <2>1, <2>2, <3>1, <3>2, <3>3 DEF Mint, Opens, TypeOK
  <2>3. CASE OpensNone /\ go' = [go EXCEPT ![i] = Gone] /\ UNCHANGED snap
    BY <1>8, <1>e, <2>1, <2>3, GoneType DEF Mint, OpensNone, TypeOK
  <2>4. QED
    BY <1>8, <2>2, <2>3 DEF Mint
<1>9. ASSUME NEW i \in Slots, Regenerate(i) PROVE TypeOK'
  <2>2. CASE Room /\ Opens("L2") /\ go' = [go EXCEPT ![i] = Planning(go[i], "L2")]
              /\ snap' = [snap EXCEPT !["L2"] = made + 1]
    <3>1. made + 1 \in 0..MaxCycles /\ made + 1 \in Cycles
      BY <2>2, RoomType
    <3>2. Planning(go[i], "L2") \in Goroutine
      BY <1>0, <1>c, <1>z, <1>p, <3>1, GType DEF Planning
    <3>3. snap' \in [Layers -> 0..MaxCycles] /\ layer' \in [Cycles -> Kinds]
      BY <1>c, <1>s, <1>y, <2>2, <3>1 DEF Opens
    <3>4. QED
      BY <1>9, <1>e, <2>2, <3>1, <3>2, <3>3 DEF Regenerate, Opens, TypeOK
  <2>3. CASE OpensNone /\ go' = [go EXCEPT ![i] = Gone] /\ UNCHANGED snap
    BY <1>9, <1>e, <2>3, GoneType DEF Regenerate, OpensNone, TypeOK
  <2>4. QED
    BY <1>9, <2>2, <2>3 DEF Regenerate
<1>10. ASSUME NEW i \in Slots, Schedule(i) PROVE TypeOK'
  <2>1. PICK w \in 1..MaxWaves :
          /\ rows' = [rows EXCEPT ![<<go[i].cycle, w>>] = "pending"]
          /\ go' = [go EXCEPT ![i] =
                G(IF w = MaxWaves THEN "sleep" ELSE "plan", go[i].layer, go[i].cycle,
                  go[i].left \union {<<go[i].cycle, w>>}, go[i].ctx, TRUE)]
    BY <1>10 DEF Schedule
  <2>2. go[i].cycle \in Cycles /\ go[i].cycle \in 0..MaxCycles
    <3>1. made \in 0..MaxCycles /\ go[i].cycle \in 1..made
      BY <1>10 DEF Schedule, RowsPlanned, TypeOK
    <3>2. QED
      BY <3>1, BoundsAssumption DEF Cycles
  <2>3. <<go[i].cycle, w>> \in Rows
    BY <2>2 DEF Rows
  <2>4. go[i].left \union {<<go[i].cycle, w>>} \in SUBSET Rows
    BY <1>0, <2>3
  <2>5. G(IF w = MaxWaves THEN "sleep" ELSE "plan", go[i].layer, go[i].cycle,
          go[i].left \union {<<go[i].cycle, w>>}, go[i].ctx, TRUE) \in Goroutine
    BY <1>0, <1>p, <2>2, <2>4, GType
  <2>6. rows' \in [Rows -> Status]
    BY <1>v, <1>w, <2>1, <2>3, RowsType
  <2>7. QED
    BY <1>10, <1>e, <2>1, <2>5, <2>6 DEF Schedule, TypeOK
<1>11. ASSUME NEW i \in Slots, Cancelled(i) PROVE TypeOK'
  BY <1>11, <1>e, <1>s, GoneType, SnapType DEF Cancelled, Ends, TypeOK
<1>12. ASSUME NEW i \in Slots, Paused(i) PROVE TypeOK'
  BY <1>12, <1>e, GoneType DEF Paused, Ends, TypeOK
<1>13. ASSUME NEW i \in Slots, Looks(i) PROVE TypeOK'
  <2>1. PICK r \in First(go[i].left) : go' = [go EXCEPT ![i] = To(go[i], "mark", go[i].left, r)]
    BY <1>13 DEF Looks
  <2>2. r \in Rows
    BY <1>0 DEF First
  <2>3. Goes
    BY <1>0, <1>g, <1>e, <1>p, <2>1, <2>2, ToType
  <2>4. QED
    BY <1>13, <2>3 DEF Looks, TypeOK
<1>13a. ASSUME NEW i \in Slots, Takes(i) PROVE TypeOK'
  <2>1. Goes
    BY <1>0, <1>g, <1>e, <1>p, <1>13a, ToType DEF Takes
  <2>2. rows' \in [Rows -> Status]
    BY <1>13a, <1>w, <1>v DEF Takes
  <2>3. QED
    BY <1>13a, <2>1, <2>2 DEF Takes, TypeOK
<1>13b. ASSUME NEW i \in Slots, Fires(i) PROVE TypeOK'
  <2>1. Goes
    BY <1>0, <1>g, <1>e, <1>p, <1>13b, ToType DEF Fires, Runs
  <2>2. fired' = [fired EXCEPT ![go[i].at] = IF @ < 2 THEN @ + 1 ELSE 2] /\ past' = past \ {go[i].at}
    BY <1>13b DEF Fires, Runs
  <2>3. fired' \in [Rows -> 0..2] /\ past' \in SUBSET Rows
    BY <1>f, <1>i, <1>x, <2>2
  <2>4. QED
    BY <1>13b, <2>1, <2>3 DEF Fires, TypeOK
<1>14. ASSUME NEW i \in Slots, NEW errs \in 0..1, Discards(i, errs) PROVE TypeOK'
  <2>1. budget' \in Budgets
    BY <1>14, BudgetType DEF Discards
  <2>2. QED
    BY <1>14, <1>e, <1>s, <2>1, GoneType, SnapType DEF Discards, Ends, TypeOK
<1>15. ASSUME NEW i \in Slots, NEW res \in {"ok", "fail"}, Finishes(i, res) PROVE TypeOK'
  <2>1. To(go[i], "sleep", go[i].left \ {go[i].at}, NoRow) \in Goroutine
    BY <1>0, <1>g, <1>p, ToType
  <2>2. Goes
    BY <1>15, <1>e, <2>1, GoneType DEF Finishes, Ends
  <2>3. rows' \in [Rows -> Status]
    BY <1>15, <1>w, <1>v DEF Finishes
  <2>4. snap' \in [Layers -> 0..MaxCycles]
    BY <1>15, <1>s, SnapType DEF Finishes
  <2>5. QED
    BY <1>15, <2>2, <2>3, <2>4 DEF Finishes, TypeOK
<1>16. ASSUME NEW i \in Slots, Retires(i) PROVE TypeOK'
  <2>1. rows' \in [Rows -> Status]
    BY <1>16, <1>w, <1>v DEF Retires
  <2>2. QED
    BY <1>16, <1>e, <2>1, GoneType DEF Retires, Ends, TypeOK
<1>17. ASSUME NEW i \in Slots, NextWave(i) PROVE TypeOK'
  <2>1. PICK r \in First(go[i].left) :
          go' = [go EXCEPT ![i] = [To(go[i], "park", go[i].left, r) EXCEPT !.cycle = r[1]]]
    BY <1>17 DEF NextWave
  <2>2. r \in Rows
    BY <1>0 DEF First
  <2>3. r[1] \in 0..MaxCycles
    BY <2>2, BoundsAssumption DEF Rows, Cycles
  <2>4. To(go[i], "park", go[i].left, r) \in Goroutine
    BY <1>0, <1>g, <1>p, <2>2, ToType
  <2>5. \A g \in Goroutine, c \in 0..MaxCycles : [g EXCEPT !.cycle = c] \in Goroutine
    BY DEF Goroutine
  <2>6. Goes
    BY <1>e, <2>1, <2>3, <2>4, <2>5
  <2>7. QED
    BY <1>17, <2>6 DEF NextWave, TypeOK
<1>18. ASSUME NEW i \in Slots, PausedRevived(i) PROVE TypeOK'
  BY <1>18, <1>e, GoneType DEF PausedRevived, Ends, TypeOK
<1>19. ASSUME NEW i \in Slots, AllDriven(i) PROVE TypeOK'
  BY <1>19, <1>e, <1>s, GoneType, SnapType DEF AllDriven, Ends, TypeOK
<1>20. ASSUME NEW i \in Slots, NEW errs \in 0..1, Marks(i, errs) PROVE TypeOK'
  <2>1. Goes
    BY <1>0, <1>g, <1>e, <1>p, <1>20, ToType DEF Marks
  <2>2. rows' \in [Rows -> Status]
    BY <1>20, <1>w, <1>v DEF Marks
  <2>3. budget' \in Budgets
    BY <1>20, BudgetType DEF Marks
  <2>4. QED
    BY <1>20, <2>1, <2>2, <2>3 DEF Marks, TypeOK
<1>21. ASSUME NEW i \in Slots, DiscardsRevived(i) PROVE TypeOK'
  BY <1>21, <1>e, <1>s, GoneType, SnapType DEF DiscardsRevived, Ends, DroppedAfter, TypeOK
<1>22. ASSUME NEW i \in Slots, Rechecks(i) PROVE TypeOK'
  <2>1. Goes
    BY <1>0, <1>g, <1>e, <1>p, <1>22, ToType DEF Rechecks
  <2>2. QED
    BY <1>22, <2>1 DEF Rechecks, TypeOK
<1>22a. ASSUME NEW i \in Slots, FiresRevived(i) PROVE TypeOK'
  <2>1. Goes
    BY <1>0, <1>g, <1>e, <1>p, <1>22a, ToType DEF FiresRevived, Runs
  <2>2. fired' = [fired EXCEPT ![go[i].at] = IF @ < 2 THEN @ + 1 ELSE 2] /\ past' = past \ {go[i].at}
    BY <1>22a DEF FiresRevived, Runs
  <2>3. fired' \in [Rows -> 0..2] /\ past' \in SUBSET Rows
    BY <1>f, <1>i, <1>x, <2>2
  <2>4. QED
    BY <1>22a, <2>1, <2>3 DEF FiresRevived, TypeOK
<1>r. ASSUME NEW i \in Slots, Advanced(i) PROVE Goes
  BY <1>0, <1>g, <1>e, <1>p, <1>r, ToType DEF Advanced
<1>23. ASSUME NEW i \in Slots, SkipsRevived(i) PROVE TypeOK'
  <2>1. rows' \in [Rows -> Status]
    BY <1>23, <1>w, <1>v DEF SkipsRevived
  <2>2. QED
    BY <1>23, <1>r, <1>s, <2>1, SnapType DEF SkipsRevived, DroppedL2, DroppedAfter, TypeOK
<1>24. ASSUME NEW i \in Slots, FinishesRevived(i) PROVE TypeOK'
  <2>1. rows' \in [Rows -> Status]
    BY <1>24, <1>w, <1>v DEF FinishesRevived
  <2>2. QED
    BY <1>24, <1>r, <1>s, <2>1, SnapType DEF FinishesRevived, DroppedL2, DroppedAfter, TypeOK
<1>25. ASSUME NEW archived \in BOOLEAN, ReconcilePass(archived) PROVE TypeOK'
  <2> DEFINE turned == {l \in settings.depth \ seen.prev : seen.seeded /\ ~Active(l)}
  <2>1. \A l : Pending(l) \in SUBSET Rows
    BY DEF Pending
  <2>2. \A l \in Kinds : Resumed(l, archived) \in Goroutine
    BY <1>z, <1>p, <2>1, GType, GoneType DEF Resumed, Revive
  <2>3. turned \subseteq Kinds
    BY <1>c, <1>d
  <2> HIDE DEF turned
  <2>4. Goes
    <3>1. PICK slot \in [turned -> Free] :
             go' = [i \in Slots |-> IF \E l \in turned : slot[l] = i
                       THEN Resumed(CHOOSE l \in turned : slot[l] = i, archived) ELSE go[i]]
      BY <1>25 DEF ReconcilePass, turned
    <3>2. \A i \in Slots : (\E l \in turned : slot[l] = i) =>
             (CHOOSE l \in turned : slot[l] = i) \in Kinds
      BY <2>3
    <3>3. QED
      BY <1>g, <2>2, <3>1, <3>2
  <2>5. seen' \in Passes
    BY <1>25, <1>d DEF ReconcilePass, Passes
  <2>6. QED
    BY <1>25, <2>4, <2>5 DEF ReconcilePass, TypeOK
<1>26. CASE ReconcileOff
  <2>1. seen' \in Passes
    BY <1>26 DEF ReconcileOff, Passes
  <2>2. QED
    BY <1>26, <2>1 DEF ReconcileOff, TypeOK
<1>27. ASSUME NEW hangover \in SUBSET Cycles, Restart(hangover) PROVE TypeOK'
  <2>1. \A c : PendingOf(c) \in SUBSET Rows
    BY DEF PendingOf
  <2>2. \A c \in Cycles : Revive(layer[c], PendingOf(c)) \in Goroutine
    BY <1>y, <1>z, <1>p, <2>1, GType DEF Revive
  <2>3. Goes
    BY <1>27, <2>2, GoneType DEF Restart
  <2>4. rows' \in [Rows -> Status]
    BY <1>27, <1>w, <1>v DEF Restart, AfterCrash
  <2>5. loop' \in Loops /\ seen' \in Passes
    BY <1>27, LayersAssumption DEF Restart, Off, Settings, Loops, Passes
  <2>6. budget' \in Budgets /\ snap' \in [Layers -> 0..MaxCycles]
    BY <1>27, BudgetType DEF Restart
  <2>7. QED
    BY <1>27, <2>3, <2>4, <2>5, <2>6 DEF Restart, TypeOK
<1>28. CASE UNCHANGED vars
  BY <1>28 DEF vars, TypeOK
<1>q. QED
  BY <1>1, <1>2, <1>3, <1>4, <1>5, <1>6, <1>7, <1>8, <1>9, <1>10, <1>11, <1>12, <1>13, <1>13a,
     <1>13b, <1>14, <1>15, <1>16, <1>17, <1>18, <1>19, <1>20, <1>21, <1>22, <1>22a, <1>23, <1>24,
     <1>25, <1>26, <1>27, <1>28
     DEF Next, LoopSteps, DriverSteps

-----------------------------------------------------------------------------
(* What the steps do, with the records out of the way.                      *)

Rest(i) == \A j \in Slots \ {i} : go'[j] = go[j]

Planner(g, l) ==
    /\ g.pc = "plan" /\ g.left = {} /\ g.layer = l /\ g.cycle = made + 1

Moved(i, p, left, a) ==
    /\ go'[i].pc = p /\ go'[i].left = left /\ go'[i].at = a
    /\ go'[i].layer = go[i].layer
    /\ Rest(i)

LEMMA EndsEffect ==
    ASSUME TypeOK, NEW i \in Slots, Ends(i)
    PROVE  go'[i].pc = "none" /\ go'[i].left = {} /\ Rest(i)
<1>1. go \in [Slots -> Goroutine]
  BY DEF TypeOK
<1>2. QED
  BY <1>1, GoneType DEF Ends, Rest

LEMMA ToEffect ==
    ASSUME TypeOK, NEW i \in Slots, NEW p \in Pcs, NEW left \in SUBSET Rows,
           NEW a \in Rows \union {NoRow},
           go' = [go EXCEPT ![i] = To(go[i], p, left, a)]
    PROVE  Moved(i, p, left, a)
<1>1. go \in [Slots -> Goroutine]
  BY DEF TypeOK
<1>2. QED
  BY <1>1, ToType DEF Moved, Rest

LEMMA RunsEffect ==
    ASSUME TypeOK, NEW i \in Slots, NEW p \in Pcs, NEW r \in Rows, Runs(i, r, p)
    PROVE  /\ Moved(i, p, go[i].left, r)
           /\ fired' = [fired EXCEPT ![r] = IF fired[r] < 2 THEN fired[r] + 1 ELSE 2]
<1>1. go[i] \in Goroutine
  BY DEF TypeOK
<1>2. go[i].left \in SUBSET Rows
  BY <1>1, Fields
<1>3. QED
  BY <1>2, ToEffect DEF Runs

\* The row a driver is at is one of its own.
LEMMA AtOwned ==
    ASSUME TypeOK, RowsOwned, NEW i \in Slots, Committed(i) \/ Running(i)
    PROVE  go[i].at \in go[i].left /\ go[i].at \in Rows /\ go[i].left \in SUBSET Rows
           /\ rows[go[i].at] # "none" /\ layer[go[i].at[1]] = go[i].layer
<1>1. go[i].left \in SUBSET Rows
  BY Fields DEF TypeOK
<1>2. go[i].at \in go[i].left
  BY DEF RowsOwned
<1>3. QED
  BY <1>1, <1>2 DEF RowsOwned

\* A driver takes a step towards its wave: it looks, marks, rechecks, begins.
LEMMA LooksEffect ==
    ASSUME TypeOK, NEW i \in Slots, Looks(i)
    PROVE  \E r \in go[i].left : Moved(i, "mark", go[i].left, r)
<1>1. PICK r \in First(go[i].left) : go' = [go EXCEPT ![i] = To(go[i], "mark", go[i].left, r)]
  BY DEF Looks
<1>2. go[i].left \in SUBSET Rows /\ r \in go[i].left /\ "mark" \in Pcs
  BY Fields DEF TypeOK, First, Pcs, Live
<1>3. r \in Rows \union {NoRow}
  BY <1>2
<1>4. Moved(i, "mark", go[i].left, r)
  BY <1>1, <1>2, <1>3, ToEffect
<1>5. QED
  BY <1>2, <1>4

LEMMA TakesEffect ==
    ASSUME TypeOK, RowsOwned, NEW i \in Slots, Takes(i)
    PROVE  Moved(i, "begin", go[i].left, go[i].at)
<1>1. Committed(i) /\ go' = [go EXCEPT ![i] = To(go[i], "begin", go[i].left, go[i].at)]
  BY DEF Takes, Committed
<1>2. go[i].left \in SUBSET Rows /\ go[i].at \in Rows \union {NoRow} /\ "begin" \in Pcs
  BY <1>1, AtOwned DEF Pcs, Live
<1>3. QED
  BY <1>1, <1>2, ToEffect

LEMMA RechecksEffect ==
    ASSUME TypeOK, RowsOwned, NEW i \in Slots, Rechecks(i)
    PROVE  Moved(i, "beginRevived", go[i].left, go[i].at)
<1>1. Running(i) /\ go' = [go EXCEPT ![i] = To(go[i], "beginRevived", go[i].left, go[i].at)]
  BY DEF Rechecks, Running
<1>2. go[i].left \in SUBSET Rows /\ go[i].at \in Rows \union {NoRow} /\ "beginRevived" \in Pcs
  BY <1>1, AtOwned DEF Pcs, Revived
<1>3. QED
  BY <1>1, <1>2, ToEffect

LEMMA FiresEffect ==
    ASSUME TypeOK, RowsOwned, NEW i \in Slots, Fires(i) \/ FiresRevived(i)
    PROVE  /\ \/ Moved(i, "run", go[i].left, go[i].at)
              \/ Moved(i, "runRevived", go[i].left, go[i].at)
           /\ fired' = [fired EXCEPT ![go[i].at] = IF fired[go[i].at] < 2 THEN fired[go[i].at] + 1
                                                  ELSE 2]
           /\ go[i].at \in go[i].left /\ go[i].at \in Rows
           /\ rows' = rows /\ layer' = layer /\ made' = made
<1>1. PICK p \in {"run", "runRevived"} : Running(i) /\ Runs(i, go[i].at, p)
  BY DEF Fires, FiresRevived, Running
<1>2. p \in Pcs /\ go[i].at \in go[i].left /\ go[i].at \in Rows
  BY <1>1, AtOwned DEF Pcs, Live, Revived
<1>3. rows' = rows /\ layer' = layer /\ made' = made
  BY DEF Fires, FiresRevived
<1>4. QED
  BY <1>1, <1>2, <1>3, RunsEffect

LEMMA AdvancedEffect ==
    ASSUME TypeOK, NEW i \in Slots, Advanced(i)
    PROVE  Moved(i, "next", go[i].left \ {go[i].at}, NoRow)
<1>1. go[i] \in Goroutine
  BY DEF TypeOK
<1>2. go[i].left \in SUBSET Rows /\ "next" \in Pcs
  BY <1>1, Fields DEF Pcs, Revived
<1>3. go[i].left \ {go[i].at} \in SUBSET Rows
  BY <1>2
<1>4. QED
  BY <1>2, <1>3, ToEffect DEF Advanced

LEMMA FinishesEffect ==
    ASSUME TypeOK, NEW i \in Slots, NEW res, Finishes(i, res)
    PROVE  \/ Moved(i, "sleep", go[i].left \ {go[i].at}, NoRow)
           \/ go'[i].pc = "none" /\ go'[i].left = {} /\ Rest(i)
<1>1. go[i] \in Goroutine
  BY DEF TypeOK
<1>2. go[i].left \ {go[i].at} \in SUBSET Rows /\ "sleep" \in Pcs
  BY <1>1, Fields DEF Pcs, Live
<1>3. QED
  BY <1>2, ToEffect, EndsEffect DEF Finishes

LEMMA MarksEffect ==
    ASSUME TypeOK, NEW i \in Slots, NEW errs, Marks(i, errs)
    PROVE  Moved(i, "recheck", go[i].left, go[i].at)
<1>1. go[i] \in Goroutine
  BY DEF TypeOK
<1>2. go[i].left \in SUBSET Rows /\ go[i].at \in Rows \union {NoRow} /\ "recheck" \in Pcs
  BY <1>1, Fields DEF Pcs, Revived
<1>3. QED
  BY <1>2, ToEffect DEF Marks

LEMMA NextWaveEffect ==
    ASSUME TypeOK, NEW i \in Slots, NextWave(i)
    PROVE  \E r \in go[i].left : Moved(i, "park", go[i].left, r)
<1>1. go \in [Slots -> Goroutine] /\ go[i] \in Goroutine
  BY DEF TypeOK
<1>2. PICK r \in First(go[i].left) :
         go' = [go EXCEPT ![i] = [To(go[i], "park", go[i].left, r) EXCEPT !.cycle = r[1]]]
  BY DEF NextWave
<1>3. go[i].left \in SUBSET Rows /\ r \in go[i].left /\ "park" \in Pcs
  BY <1>1, Fields DEF First, Pcs, Revived
<1>4. \A g \in Goroutine : \A c : LET h == [g EXCEPT !.cycle = c] IN
         h.pc = g.pc /\ h.left = g.left /\ h.at = g.at /\ h.layer = g.layer
  BY DEF Goroutine
<1>5. To(go[i], "park", go[i].left, r) \in Goroutine
  BY <1>1, <1>3, ToType
<1>6. QED
  BY <1>1, <1>2, <1>3, <1>4, <1>5, ToType DEF Moved, Rest

LEMMA TearDownEffect ==
    ASSUME TypeOK, TearDown
    PROVE  \A i \in Slots : /\ go'[i].pc = go[i].pc /\ go'[i].left = go[i].left
                            /\ go'[i].at = go[i].at /\ go'[i].layer = go[i].layer
                            /\ go'[i].cycle = go[i].cycle
<1>1. \A i \in Slots : go[i] \in Goroutine
  BY DEF TypeOK
<1>2. \A g \in Goroutine : LET h == [g EXCEPT !.ctx = "done"] IN
         h.pc = g.pc /\ h.left = g.left /\ h.at = g.at /\ h.layer = g.layer /\ h.cycle = g.cycle
  BY DEF Goroutine
<1>3. QED
  BY <1>1, <1>2 DEF TearDown

LEMMA FetchEndsEffect ==
    ASSUME TypeOK, NEW posts \in BOOLEAN, FetchEnds(posts)
    PROVE  \E j \in Slots : go'[j].pc = "fan" /\ go'[j].left = {} /\ Rest(j)
<1>1. go \in [Slots -> Goroutine]
  BY DEF TypeOK
<1>2. QED
  <2>1. PICK j \in Slots : go' = [go EXCEPT ![j] =
            G("fan", "", 0, {}, IF loop.live THEN "bucket" ELSE "done", posts)]
    BY DEF FetchEnds, Slot, Free
  <2>2. go'[j] = G("fan", "", 0, {}, IF loop.live THEN "bucket" ELSE "done", posts) /\ Rest(j)
    BY <1>1, <2>1 DEF Rest
  <2>3. go'[j].pc = "fan" /\ go'[j].left = {}
    <3>1. \A x : /\ G("fan", "", 0, {}, x, posts).pc = "fan"
                /\ G("fan", "", 0, {}, x, posts).left = {}
      BY DEF G
    <3>2. QED
      BY <2>2, <3>1
  <2>4. QED
    BY <2>2, <2>3

LEMMA FanOutEffect ==
    ASSUME TypeOK, NEW i \in Slots, FanOut(i)
    PROVE  /\ \/ go'[i].pc = "none" /\ go'[i].left = {} /\ OpensNone
              \/ Planner(go'[i], "L2") /\ Opens("L2") /\ Room
           /\ \A j \in Slots \ {i} : \/ go'[j] = go[j]
                                     \/ go'[j].pc = "mint" /\ go'[j].left = {}
           /\ rows' = rows \/ rows' = Superseded("L3")
<1> DEFINE l2   == Covers("L2") /\ go[i].posts /\ Room
           mine == IF l2 THEN Planning(go[i], "L2") ELSE Gone
           child == G("mint", "L3", 0, {}, go[i].ctx, go[i].posts)
<1>1. go \in [Slots -> Goroutine]
  BY DEF TypeOK
<1>2. go[i].pc = "fan" /\ IF l2 THEN Opens("L2") ELSE OpensNone
  BY DEF FanOut
<1>3. \/ go' = [go EXCEPT ![i] = mine]
      \/ \E j \in Slots : j # i /\ go' = [go EXCEPT ![i] = mine, ![j] = child]
  BY <1>2 DEF FanOut, Slot, Free
<1>4. child.pc = "mint" /\ child.left = {}
  BY DEF G
<1>5. IF l2 THEN Planner(mine, "L2") ELSE mine.pc = "none" /\ mine.left = {}
  BY GoneType DEF G, Planner, Planning
<1> HIDE DEF mine, child
<1>6. /\ go'[i] = mine
      /\ \A j \in Slots \ {i} : go'[j] = go[j] \/ go'[j] = child
  BY <1>1, <1>3
<1>7. rows' = rows \/ rows' = Superseded("L3")
  BY DEF FanOut
<1>8. QED
  BY <1>2, <1>4, <1>5, <1>6, <1>7

LEMMA MintEffect ==
    ASSUME TypeOK, NEW i \in Slots, Mint(i)
    PROVE  /\ \/ go'[i].pc = "none" /\ go'[i].left = {} /\ OpensNone
              \/ Planner(go'[i], "L3") /\ Opens("L3") /\ Room
           /\ Rest(i)
<1>1. go \in [Slots -> Goroutine]
  BY DEF TypeOK
<1>2. \/ Opens("L3") /\ Room /\ go' = [go EXCEPT ![i] = Planning(go[i], "L3")]
      \/ OpensNone /\ go' = [go EXCEPT ![i] = Gone]
  BY DEF Mint
<1>3. Planner(Planning(go[i], "L3"), "L3")
  BY DEF G, Planner, Planning
<1>4. QED
  BY <1>1, <1>2, <1>3, GoneType DEF Rest

LEMMA RegenerateEffect ==
    ASSUME TypeOK, NEW i \in Slots, Regenerate(i)
    PROVE  /\ \/ go'[i].pc = "none" /\ go'[i].left = {} /\ OpensNone
              \/ Planner(go'[i], "L2") /\ Opens("L2") /\ Room
           /\ Rest(i)
<1>1. go \in [Slots -> Goroutine]
  BY DEF TypeOK
<1>2. \/ Opens("L2") /\ Room /\ go' = [go EXCEPT ![i] = Planning(go[i], "L2")]
      \/ OpensNone /\ go' = [go EXCEPT ![i] = Gone]
  BY DEF Regenerate
<1>3. Planner(Planning(go[i], "L2"), "L2")
  BY DEF G, Planner, Planning
<1>4. QED
  BY <1>1, <1>2, <1>3, GoneType DEF Rest

LEMMA ScheduleEffect ==
    ASSUME TypeOK, RowsPlanned, NEW i \in Slots, Schedule(i)
    PROVE  \E r \in Rows :
              /\ r[1] = go[i].cycle /\ r \notin go[i].left
              /\ rows' = [rows EXCEPT ![r] = "pending"]
              /\ go'[i].pc \in {"plan", "sleep"} /\ go'[i].left = go[i].left \union {r}
              /\ go'[i].layer = go[i].layer /\ go'[i].cycle = go[i].cycle
              /\ go'[i].ctx = go[i].ctx
              /\ Rest(i)
<1>1. go \in [Slots -> Goroutine] /\ made \in 0..MaxCycles
  BY DEF TypeOK
<1>2. go[i].cycle \in 1..made
  BY DEF Schedule, RowsPlanned
<1>3. go[i].cycle \in Cycles
  BY <1>1, <1>2, BoundsAssumption DEF Cycles
<1>4. PICK w \in 1..MaxWaves :
          /\ <<go[i].cycle, w>> \notin go[i].left
          /\ rows' = [rows EXCEPT ![<<go[i].cycle, w>>] = "pending"]
          /\ go' = [go EXCEPT ![i] =
                G(IF w = MaxWaves THEN "sleep" ELSE "plan", go[i].layer, go[i].cycle,
                  go[i].left \union {<<go[i].cycle, w>>}, go[i].ctx, TRUE)]
  BY DEF Schedule
<1>5. <<go[i].cycle, w>> \in Rows
  BY <1>3 DEF Rows
<1>6. go'[i] = G(IF w = MaxWaves THEN "sleep" ELSE "plan", go[i].layer, go[i].cycle,
                 go[i].left \union {<<go[i].cycle, w>>}, go[i].ctx, TRUE) /\ Rest(i)
  BY <1>1, <1>4 DEF Rest
<1>7. /\ go'[i].pc \in {"plan", "sleep"} /\ go'[i].layer = go[i].layer
      /\ go'[i].left = go[i].left \union {<<go[i].cycle, w>>} /\ go'[i].cycle = go[i].cycle
      /\ go'[i].ctx = go[i].ctx
  BY <1>6 DEF G
<1>8. <<go[i].cycle, w>>[1] = go[i].cycle
  OBVIOUS
<1>9. QED
  BY <1>4, <1>5, <1>6, <1>7, <1>8

\* A revived layer gets all its pending rows, or none.
LEMMA ReconcileEffect ==
    ASSUME TypeOK, NEW archived, ReconcilePass(archived)
    PROVE  \A i \in Slots :
              \/ go'[i] = go[i]
              \/ go'[i].pc \in {"none", "regen", "mint"} /\ go'[i].left = {}
              \/ \E l \in Layers :
                    /\ go'[i].pc = "gate" /\ go'[i].layer = l
                    /\ go'[i].left = Pending(l) /\ ~Active(l)
                    /\ \A j \in Slots \ {i} : go'[j] = go[j] \/ go'[j].layer # l \/ go'[j].left = {}
<1> DEFINE turned == {l \in settings.depth \ seen.prev : seen.seeded /\ ~Active(l)}
<1>1. PICK slot \in [turned -> Free] :
         /\ \A l, k \in turned : l # k => slot[l] # slot[k]
         /\ go' = [i \in Slots |-> IF \E l \in turned : slot[l] = i
                       THEN Resumed(CHOOSE l \in turned : slot[l] = i, archived) ELSE go[i]]
  BY DEF ReconcilePass
<1>2. turned \subseteq Layers /\ \A l \in turned : ~Active(l)
  BY DEF TypeOK, Settings
<1>3. \A l : LET g == Resumed(l, archived) IN
         \/ g.pc \in {"none", "regen", "mint"} /\ g.left = {}
         \/ g.pc = "gate" /\ g.layer = l /\ g.left = Pending(l)
  BY GoneType DEF G, Resumed, Revive
<1> HIDE DEF turned
<1>4. \A i \in Slots : \/ go'[i] = go[i] /\ \A l \in turned : slot[l] # i
                       \/ \E l \in turned : slot[l] = i /\ go'[i] = Resumed(l, archived)
  BY <1>1
<1>5. QED
  BY <1>1, <1>2, <1>3, <1>4

LEMMA RestartEffect ==
    ASSUME TypeOK, NEW hangover \in SUBSET Cycles, Restart(hangover)
    PROVE  \A i \in Slots :
              \/ go'[i].pc = "none" /\ go'[i].left = {}
              \/ /\ i \in Cycles /\ go'[i].pc = "gate" /\ go'[i].layer = layer[i]
                 /\ go'[i].left = PendingOf(i)
<1>1. \A i \in Slots : \/ go'[i] = Gone
                       \/ i \in Cycles /\ go'[i] = Revive(layer[i], PendingOf(i))
  BY DEF Restart
<1>2. ASSUME NEW i \in Slots, go'[i] = Revive(layer[i], PendingOf(i))
      PROVE  go'[i].pc = "gate" /\ go'[i].layer = layer[i] /\ go'[i].left = PendingOf(i)
  BY <1>2 DEF Revive, G
<1>3. QED
  BY <1>1, <1>2, GoneType

-----------------------------------------------------------------------------
(* A row that is written stays written, and its cycle keeps its layer.      *)

Kept == \A r \in Rows : rows[r] # "none" => rows'[r] # "none" /\ layer'[r[1]] = layer[r[1]]

LEMMA SupersededEffect ==
    ASSUME TypeOK, NEW l, rows' = Superseded(l)
    PROVE  \A r \in Rows : rows'[r] = IF rows[r] = "pending" /\ layer[r[1]] = l THEN "skipped"
                                       ELSE rows[r]
<1>1. rows \in [Rows -> Status]
  BY DEF TypeOK
<1>2. QED
  BY <1>1 DEF Superseded, Pending

LEMMA OpensEffect ==
    ASSUME TypeOK, RowsPlanned, Room, NEW l, Opens(l)
    PROVE  /\ made' = made + 1 /\ made \in Nat /\ layer'[made + 1] = l
           /\ \A c \in Cycles : c <= made => layer'[c] = layer[c]
           /\ \A r \in Rows : rows[r] # "none" =>
                  r[1] <= made /\ r[1] # made + 1 /\ layer'[r[1]] = layer[r[1]]
<1>1. layer \in [Cycles -> Kinds] /\ made \in 0..MaxCycles /\ made + 1 \in Cycles
  BY RoomType DEF TypeOK
<1>2. \A r \in Rows : r[1] \in Cycles
  BY DEF Rows
<1>3. \A c \in Cycles : c <= made => layer'[c] = layer[c]
  BY <1>1, BoundsAssumption DEF Opens, Cycles
<1>4. made' = made + 1 /\ made \in Nat /\ layer'[made + 1] = l
  BY <1>1, BoundsAssumption DEF Opens
<1>5. \A r \in Rows : rows[r] # "none" => r[1] <= made
  BY DEF RowsPlanned
<1>6. QED
  BY <1>1, <1>2, <1>3, <1>4, <1>5, BoundsAssumption DEF Cycles

\* No step unwrites a row.
LEMMA KeptStep ==
    ASSUME TypeOK, RowsPlanned, [Next]_vars
    PROVE  Kept
<1>1. ASSUME NEW s \in Settings, Change(s) PROVE Kept
  BY <1>1 DEF Change, Kept
<1>2. CASE TearDown
  BY <1>2 DEF TearDown, Kept
<1>3. CASE LoopExits
  BY <1>3 DEF LoopExits, Kept
<1>4. CASE Launch
  BY <1>4 DEF Launch, Kept
<1>5. CASE FetchStarts
  BY <1>5 DEF FetchStarts, Kept
<1>6. ASSUME NEW posts \in BOOLEAN, FetchEnds(posts) PROVE Kept
  BY <1>6, SupersededEffect DEF FetchEnds, Kept
<1>7. ASSUME NEW i \in Slots, FanOut(i) PROVE Kept
  BY <1>7, FanOutEffect, SupersededEffect, OpensEffect DEF OpensNone, Kept
<1>8. ASSUME NEW i \in Slots, Mint(i) PROVE Kept
  BY <1>8, MintEffect, SupersededEffect, OpensEffect DEF Mint, OpensNone, Kept
<1>9. ASSUME NEW i \in Slots, Regenerate(i) PROVE Kept
  BY <1>9, RegenerateEffect, OpensEffect DEF Regenerate, OpensNone, Kept
<1>10. ASSUME NEW i \in Slots, Schedule(i) PROVE Kept
  <2>1. rows \in [Rows -> Status]
    BY DEF TypeOK
  <2>2. QED
    BY <1>10, <2>1, ScheduleEffect DEF Schedule, Kept
<1>11. ASSUME NEW i \in Slots, Cancelled(i) PROVE Kept
  BY <1>11 DEF Cancelled, Kept
<1>12. ASSUME NEW i \in Slots, Paused(i) PROVE Kept
  BY <1>12 DEF Paused, Kept
<1>13. ASSUME NEW i \in Slots, Looks(i) PROVE Kept
  BY <1>13 DEF Looks, Kept
<1>13a. ASSUME NEW i \in Slots, Takes(i) PROVE Kept
  <2>1. rows \in [Rows -> Status]
    BY DEF TypeOK
  <2>2. QED
    BY <1>13a, <2>1 DEF Takes, Kept
<1>13b. ASSUME NEW i \in Slots, Fires(i) PROVE Kept
  BY <1>13b DEF Fires, Kept
<1>14. ASSUME NEW i \in Slots, NEW errs \in 0..1, Discards(i, errs) PROVE Kept
  BY <1>14 DEF Discards, Kept
<1>15. ASSUME NEW i \in Slots, NEW res \in {"ok", "fail"}, Finishes(i, res) PROVE Kept
  <2>1. rows \in [Rows -> Status]
    BY DEF TypeOK
  <2>2. QED
    BY <1>15, <2>1 DEF Finishes, Kept
<1>16. ASSUME NEW i \in Slots, Retires(i) PROVE Kept
  <2>1. rows \in [Rows -> Status]
    BY DEF TypeOK
  <2>2. QED
    BY <1>16, <2>1 DEF Retires, Kept
<1>17. ASSUME NEW i \in Slots, NextWave(i) PROVE Kept
  BY <1>17 DEF NextWave, Kept
<1>18. ASSUME NEW i \in Slots, PausedRevived(i) PROVE Kept
  BY <1>18 DEF PausedRevived, Kept
<1>19. ASSUME NEW i \in Slots, AllDriven(i) PROVE Kept
  BY <1>19 DEF AllDriven, Kept
<1>20. ASSUME NEW i \in Slots, NEW errs \in 0..1, Marks(i, errs) PROVE Kept
  <2>1. rows \in [Rows -> Status]
    BY DEF TypeOK
  <2>2. QED
    BY <1>20, <2>1 DEF Marks, Kept
<1>21. ASSUME NEW i \in Slots, DiscardsRevived(i) PROVE Kept
  BY <1>21 DEF DiscardsRevived, Kept
<1>22. ASSUME NEW i \in Slots, Rechecks(i) PROVE Kept
  BY <1>22 DEF Rechecks, Kept
<1>22a. ASSUME NEW i \in Slots, FiresRevived(i) PROVE Kept
  BY <1>22a DEF FiresRevived, Kept
<1>23. ASSUME NEW i \in Slots, SkipsRevived(i) PROVE Kept
  <2>1. rows \in [Rows -> Status]
    BY DEF TypeOK
  <2>2. QED
    BY <1>23, <2>1 DEF SkipsRevived, Kept
<1>24. ASSUME NEW i \in Slots, FinishesRevived(i) PROVE Kept
  <2>1. rows \in [Rows -> Status]
    BY DEF TypeOK
  <2>2. QED
    BY <1>24, <2>1 DEF FinishesRevived, Kept
<1>25. ASSUME NEW archived \in BOOLEAN, ReconcilePass(archived) PROVE Kept
  BY <1>25 DEF ReconcilePass, Kept
<1>26. CASE ReconcileOff
  BY <1>26 DEF ReconcileOff, Kept
<1>27. ASSUME NEW hangover \in SUBSET Cycles, Restart(hangover) PROVE Kept
  <2>1. rows \in [Rows -> Status]
    BY DEF TypeOK
  <2>2. QED
    BY <1>27, <2>1 DEF Restart, Kept, AfterCrash
<1>28. CASE UNCHANGED vars
  BY <1>28 DEF vars, Kept
<1>q. QED
  BY <1>1, <1>2, <1>3, <1>4, <1>5, <1>6, <1>7, <1>8, <1>9, <1>10, <1>11, <1>12, <1>13, <1>13a,
     <1>13b, <1>14, <1>15, <1>16, <1>17, <1>18, <1>19, <1>20, <1>21, <1>22, <1>22a, <1>23, <1>24,
     <1>25, <1>26, <1>27, <1>28
     DEF Next, LoopSteps, DriverSteps

\* A driver's rows stay written and of its layer.
LEMMA OwnedStep ==
    ASSUME DrivesInv, [Next]_vars
    PROVE  RowsOwned'
<1> USE DEF Live, Revived, Before, Committed, Running
<1>t. TypeOK /\ RowsPlanned
  BY DEF DrivesInv
<1>o. RowsOwned /\ RowsApart
  BY DEF DrivesInv
<1>k. Kept
  BY <1>t, KeptStep
<1>g. \A i \in Slots : go[i].left \in SUBSET Rows
  BY <1>t, Fields DEF TypeOK
<1>1. ASSUME NEW s \in Settings, Change(s) PROVE RowsOwned'
  BY <1>1, <1>o, <1>k, <1>g DEF Change, RowsOwned, Kept
<1>2. CASE TearDown
  BY <1>2, <1>t, <1>o, <1>k, <1>g, TearDownEffect DEF RowsOwned, Kept
<1>3. CASE LoopExits
  BY <1>3, <1>o, <1>k, <1>g DEF LoopExits, RowsOwned, Kept
<1>4. CASE Launch
  BY <1>4, <1>o, <1>k, <1>g DEF Launch, RowsOwned, Kept
<1>5. CASE FetchStarts
  BY <1>5, <1>o, <1>k, <1>g DEF FetchStarts, RowsOwned, Kept
<1>6. ASSUME NEW posts \in BOOLEAN, FetchEnds(posts) PROVE RowsOwned'
  BY <1>6, <1>t, <1>o, <1>k, <1>g, FetchEndsEffect DEF Rest, RowsOwned, Kept
<1>7. ASSUME NEW i \in Slots, FanOut(i) PROVE RowsOwned'
  BY <1>7, <1>t, <1>o, <1>k, <1>g, FanOutEffect DEF Planner, RowsOwned, Kept
<1>8. ASSUME NEW i \in Slots, Mint(i) PROVE RowsOwned'
  BY <1>8, <1>t, <1>o, <1>k, <1>g, MintEffect DEF Planner, Rest, RowsOwned, Kept
<1>9. ASSUME NEW i \in Slots, Regenerate(i) PROVE RowsOwned'
  BY <1>9, <1>t, <1>o, <1>k, <1>g, RegenerateEffect DEF Planner, Rest, RowsOwned, Kept
<1>10. ASSUME NEW i \in Slots, Schedule(i) PROVE RowsOwned'
  <2>1. PICK r \in Rows :
           /\ r[1] = go[i].cycle /\ r \notin go[i].left
           /\ rows' = [rows EXCEPT ![r] = "pending"]
           /\ go'[i].pc \in {"plan", "sleep"} /\ go'[i].left = go[i].left \union {r}
           /\ go'[i].layer = go[i].layer /\ go'[i].cycle = go[i].cycle
           /\ Rest(i)
    BY <1>10, <1>t, ScheduleEffect
  <2>2. layer' = layer /\ layer[r[1]] = go[i].layer
    BY <1>10, <1>t, <2>1 DEF Schedule, RowsPlanned
  <2>3. rows'[r] # "none"
    BY <1>t, <2>1 DEF TypeOK
  <2>4. QED
    BY <1>o, <1>k, <1>g, <2>1, <2>2, <2>3 DEF Rest, RowsOwned, Kept
<1>11. ASSUME NEW i \in Slots, Cancelled(i) PROVE RowsOwned'
  BY <1>11, <1>t, <1>o, <1>k, <1>g, EndsEffect DEF Cancelled, Rest, RowsOwned, Kept
<1>12. ASSUME NEW i \in Slots, Paused(i) PROVE RowsOwned'
  BY <1>12, <1>t, <1>o, <1>k, <1>g, EndsEffect DEF Paused, Rest, RowsOwned, Kept
<1>13. ASSUME NEW i \in Slots, Looks(i) PROVE RowsOwned'
  BY <1>13, <1>t, <1>o, <1>k, <1>g, LooksEffect DEF Moved, Rest, RowsOwned, Kept
<1>13a. ASSUME NEW i \in Slots, Takes(i) PROVE RowsOwned'
  <2>1. go[i].at \in go[i].left
    BY <1>13a, <1>o DEF Takes, RowsOwned
  <2>2. QED
    BY <1>13a, <1>t, <1>o, <1>k, <1>g, <2>1, TakesEffect DEF Moved, Rest, RowsOwned, Kept
<1>13b. ASSUME NEW i \in Slots, Fires(i) PROVE RowsOwned'
  BY <1>13b, <1>t, <1>o, <1>k, <1>g, FiresEffect DEF Moved, Rest, RowsOwned, Kept
<1>14. ASSUME NEW i \in Slots, NEW errs \in 0..1, Discards(i, errs) PROVE RowsOwned'
  BY <1>14, <1>t, <1>o, <1>k, <1>g, EndsEffect DEF Discards, Rest, RowsOwned, Kept
<1>15. ASSUME NEW i \in Slots, NEW res \in {"ok", "fail"}, Finishes(i, res) PROVE RowsOwned'
  BY <1>15, <1>t, <1>o, <1>k, <1>g, FinishesEffect DEF Moved, Rest, RowsOwned, Kept
<1>16. ASSUME NEW i \in Slots, Retires(i) PROVE RowsOwned'
  BY <1>16, <1>t, <1>o, <1>k, <1>g, EndsEffect DEF Retires, Rest, RowsOwned, Kept
<1>17. ASSUME NEW i \in Slots, NextWave(i) PROVE RowsOwned'
  BY <1>17, <1>t, <1>o, <1>k, <1>g, NextWaveEffect DEF Moved, Rest, RowsOwned, Kept
<1>18. ASSUME NEW i \in Slots, PausedRevived(i) PROVE RowsOwned'
  BY <1>18, <1>t, <1>o, <1>k, <1>g, EndsEffect DEF PausedRevived, Rest, RowsOwned, Kept
<1>19. ASSUME NEW i \in Slots, AllDriven(i) PROVE RowsOwned'
  BY <1>19, <1>t, <1>o, <1>k, <1>g, EndsEffect DEF AllDriven, Rest, RowsOwned, Kept
<1>20. ASSUME NEW i \in Slots, NEW errs \in 0..1, Marks(i, errs) PROVE RowsOwned'
  <2>1. go[i].pc = "park"
    BY <1>20 DEF Marks
  <2>2. QED
    BY <1>20, <1>t, <1>o, <1>k, <1>g, <2>1, MarksEffect DEF Moved, Rest, RowsOwned, Kept
<1>21. ASSUME NEW i \in Slots, DiscardsRevived(i) PROVE RowsOwned'
  BY <1>21, <1>t, <1>o, <1>k, <1>g, EndsEffect DEF DiscardsRevived, Rest, RowsOwned, Kept
<1>22. ASSUME NEW i \in Slots, Rechecks(i) PROVE RowsOwned'
  <2>1. go[i].at \in go[i].left
    BY <1>22, <1>o DEF Rechecks, RowsOwned
  <2>2. QED
    BY <1>22, <1>t, <1>o, <1>k, <1>g, <2>1, RechecksEffect DEF Moved, Rest, RowsOwned, Kept
<1>22a. ASSUME NEW i \in Slots, FiresRevived(i) PROVE RowsOwned'
  BY <1>22a, <1>t, <1>o, <1>k, <1>g, FiresEffect DEF Moved, Rest, RowsOwned, Kept
<1>23. ASSUME NEW i \in Slots, SkipsRevived(i) PROVE RowsOwned'
  <2>1. Advanced(i)
    BY <1>23 DEF SkipsRevived
  <2>2. QED
    BY <1>t, <1>o, <1>k, <1>g, <2>1, AdvancedEffect DEF Moved, Rest, RowsOwned, Kept
<1>24. ASSUME NEW i \in Slots, FinishesRevived(i) PROVE RowsOwned'
  <2>1. Advanced(i)
    BY <1>24 DEF FinishesRevived
  <2>2. QED
    BY <1>t, <1>o, <1>k, <1>g, <2>1, AdvancedEffect DEF Moved, Rest, RowsOwned, Kept
<1>25. ASSUME NEW archived \in BOOLEAN, ReconcilePass(archived) PROVE RowsOwned'
  <2>1. \A l : \A r \in Pending(l) : r \in Rows /\ rows[r] # "none" /\ layer[r[1]] = l
    BY DEF Pending
  <2>2. QED
    BY <1>25, <1>t, <1>o, <1>k, <1>g, <2>1, ReconcileEffect DEF RowsOwned, Kept
<1>26. CASE ReconcileOff
  BY <1>26, <1>o, <1>k, <1>g DEF ReconcileOff, RowsOwned, Kept
<1>27. ASSUME NEW hangover \in SUBSET Cycles, Restart(hangover) PROVE RowsOwned'
  <2>1. \A c : \A r \in PendingOf(c) : r \in Rows /\ rows[r] # "none" /\ r[1] = c
    BY DEF PendingOf
  <2>2. QED
    BY <1>27, <1>t, <1>k, <2>1, RestartEffect DEF RowsOwned, Kept
<1>28. CASE UNCHANGED vars
  BY <1>28, <1>o, <1>k, <1>g DEF vars, RowsOwned, Kept
<1>q. QED
  BY <1>1, <1>2, <1>3, <1>4, <1>5, <1>6, <1>7, <1>8, <1>9, <1>10, <1>11, <1>12, <1>13, <1>13a,
     <1>13b, <1>14, <1>15, <1>16, <1>17, <1>18, <1>19, <1>20, <1>21, <1>22, <1>22a, <1>23, <1>24,
     <1>25, <1>26, <1>27, <1>28
     DEF Next, LoopSteps, DriverSteps

\* No step gives a cycle a second driver.
LEMMA ApartStep ==
    ASSUME DrivesInv, [Next]_vars
    PROVE  RowsApart'
<1> USE DEF Live, Revived, Before
<1>t. TypeOK /\ RowsPlanned
  BY DEF DrivesInv
<1>o. RowsOwned /\ RowsApart
  BY DEF DrivesInv
<1>1. ASSUME NEW s \in Settings, Change(s) PROVE RowsApart'
  BY <1>1, <1>o DEF Change, RowsApart
<1>2. CASE TearDown
  BY <1>2, <1>t, <1>o, TearDownEffect DEF RowsApart
<1>3. CASE LoopExits
  BY <1>3, <1>o DEF LoopExits, RowsApart
<1>4. CASE Launch
  BY <1>4, <1>o DEF Launch, RowsApart
<1>5. CASE FetchStarts
  BY <1>5, <1>o DEF FetchStarts, RowsApart
<1>6. ASSUME NEW posts \in BOOLEAN, FetchEnds(posts) PROVE RowsApart'
  BY <1>6, <1>t, <1>o, FetchEndsEffect DEF Rest, RowsApart
<1>7. ASSUME NEW i \in Slots, FanOut(i) PROVE RowsApart'
  BY <1>7, <1>t, <1>o, FanOutEffect DEF Planner, RowsApart
<1>8. ASSUME NEW i \in Slots, Mint(i) PROVE RowsApart'
  BY <1>8, <1>t, <1>o, MintEffect DEF Planner, Rest, RowsApart
<1>9. ASSUME NEW i \in Slots, Regenerate(i) PROVE RowsApart'
  BY <1>9, <1>t, <1>o, RegenerateEffect DEF Planner, Rest, RowsApart
<1>10. ASSUME NEW i \in Slots, Schedule(i) PROVE RowsApart'
  <2>1. PICK r \in Rows :
           /\ r[1] = go[i].cycle /\ r \notin go[i].left
           /\ rows' = [rows EXCEPT ![r] = "pending"]
           /\ go'[i].pc \in {"plan", "sleep"} /\ go'[i].left = go[i].left \union {r}
           /\ go'[i].layer = go[i].layer /\ go'[i].cycle = go[i].cycle
           /\ Rest(i)
    BY <1>10, <1>t, ScheduleEffect
  <2>2. go[i].pc = "plan"
    BY <1>10 DEF Schedule
  <2>3. \A j \in Slots \ {i} : \A q \in go[j].left : q[1] # r[1]
    <3>1. SUFFICES ASSUME NEW j \in Slots \ {i}, NEW q \in go[j].left, q[1] = r[1] PROVE FALSE
      OBVIOUS
    <3>2. q \in Rows /\ rows[q] # "none"
      BY <1>t, <1>o, Fields DEF TypeOK, RowsOwned
    <3>3. q \in go[i].left
      BY <1>t, <2>1, <2>2, <3>1, <3>2 DEF RowsPlanned
    <3>4. QED
      BY <1>o, <3>3 DEF RowsApart
  <2>4. QED
    BY <1>o, <2>1, <2>3 DEF Rest, RowsApart
<1>11. ASSUME NEW i \in Slots, Cancelled(i) PROVE RowsApart'
  BY <1>11, <1>t, <1>o, EndsEffect DEF Cancelled, Rest, RowsApart
<1>12. ASSUME NEW i \in Slots, Paused(i) PROVE RowsApart'
  BY <1>12, <1>t, <1>o, EndsEffect DEF Paused, Rest, RowsApart
<1>13. ASSUME NEW i \in Slots, Looks(i) PROVE RowsApart'
  BY <1>13, <1>t, <1>o, LooksEffect DEF Moved, Rest, RowsApart
<1>13a. ASSUME NEW i \in Slots, Takes(i) PROVE RowsApart'
  BY <1>13a, <1>t, <1>o, TakesEffect DEF Moved, Rest, RowsApart
<1>13b. ASSUME NEW i \in Slots, Fires(i) PROVE RowsApart'
  BY <1>13b, <1>t, <1>o, FiresEffect DEF Moved, Rest, RowsApart
<1>14. ASSUME NEW i \in Slots, NEW errs \in 0..1, Discards(i, errs) PROVE RowsApart'
  BY <1>14, <1>t, <1>o, EndsEffect DEF Discards, Rest, RowsApart
<1>15. ASSUME NEW i \in Slots, NEW res \in {"ok", "fail"}, Finishes(i, res) PROVE RowsApart'
  BY <1>15, <1>t, <1>o, FinishesEffect DEF Moved, Rest, RowsApart
<1>16. ASSUME NEW i \in Slots, Retires(i) PROVE RowsApart'
  BY <1>16, <1>t, <1>o, EndsEffect DEF Retires, Rest, RowsApart
<1>17. ASSUME NEW i \in Slots, NextWave(i) PROVE RowsApart'
  BY <1>17, <1>t, <1>o, NextWaveEffect DEF Moved, Rest, RowsApart
<1>18. ASSUME NEW i \in Slots, PausedRevived(i) PROVE RowsApart'
  BY <1>18, <1>t, <1>o, EndsEffect DEF PausedRevived, Rest, RowsApart
<1>19. ASSUME NEW i \in Slots, AllDriven(i) PROVE RowsApart'
  BY <1>19, <1>t, <1>o, EndsEffect DEF AllDriven, Rest, RowsApart
<1>20. ASSUME NEW i \in Slots, NEW errs \in 0..1, Marks(i, errs) PROVE RowsApart'
  <2>1. go[i].pc = "park"
    BY <1>20 DEF Marks
  <2>2. QED
    BY <1>20, <1>t, <1>o, <2>1, MarksEffect DEF Moved, Rest, RowsApart
<1>21. ASSUME NEW i \in Slots, DiscardsRevived(i) PROVE RowsApart'
  BY <1>21, <1>t, <1>o, EndsEffect DEF DiscardsRevived, Rest, RowsApart
<1>22. ASSUME NEW i \in Slots, Rechecks(i) PROVE RowsApart'
  BY <1>22, <1>t, <1>o, RechecksEffect DEF Moved, Rest, RowsApart
<1>22a. ASSUME NEW i \in Slots, FiresRevived(i) PROVE RowsApart'
  BY <1>22a, <1>t, <1>o, FiresEffect DEF Moved, Rest, RowsApart
<1>23. ASSUME NEW i \in Slots, SkipsRevived(i) PROVE RowsApart'
  <2>1. Advanced(i)
    BY <1>23 DEF SkipsRevived
  <2>2. QED
    BY <1>t, <1>o, <2>1, AdvancedEffect DEF Moved, Rest, RowsApart
<1>24. ASSUME NEW i \in Slots, FinishesRevived(i) PROVE RowsApart'
  <2>1. Advanced(i)
    BY <1>24 DEF FinishesRevived
  <2>2. QED
    BY <1>t, <1>o, <2>1, AdvancedEffect DEF Moved, Rest, RowsApart
<1>25. ASSUME NEW archived \in BOOLEAN, ReconcilePass(archived) PROVE RowsApart'
  <2>1. \A l : \A r \in Pending(l) : r \in Rows /\ rows[r] # "none" /\ layer[r[1]] = l
    BY DEF Pending
  <2>2. \A j \in Slots, l \in Layers : ~Active(l) /\ go[j].left # {} => go[j].layer # l
    <3>1. \A j \in Slots : go[j].pc # "gate"
      BY <1>25 DEF ReconcilePass
    <3>2. QED
      BY <1>o, <3>1 DEF Active, RowsOwned
  <2>3. \A j \in Slots : \A r \in go[j].left : layer[r[1]] = go[j].layer
    BY <1>o DEF RowsOwned
  <2>4. QED
    BY <1>25, <1>t, <1>o, <2>1, <2>2, <2>3, ReconcileEffect DEF RowsApart
<1>26. CASE ReconcileOff
  BY <1>26, <1>o DEF ReconcileOff, RowsApart
<1>27. ASSUME NEW hangover \in SUBSET Cycles, Restart(hangover) PROVE RowsApart'
  <2>1. \A c : \A r \in PendingOf(c) : r \in Rows /\ rows[r] # "none" /\ r[1] = c
    BY DEF PendingOf
  <2>2. QED
    BY <1>27, <1>t, <2>1, RestartEffect DEF RowsApart
<1>28. CASE UNCHANGED vars
  BY <1>28, <1>o DEF vars, RowsApart
<1>q. QED
  BY <1>1, <1>2, <1>3, <1>4, <1>5, <1>6, <1>7, <1>8, <1>9, <1>10, <1>11, <1>12, <1>13, <1>13a,
     <1>13b, <1>14, <1>15, <1>16, <1>17, <1>18, <1>19, <1>20, <1>21, <1>22, <1>22a, <1>23, <1>24,
     <1>25, <1>26, <1>27, <1>28
     DEF Next, LoopSteps, DriverSteps

\* The numbers that planned cycles have stay theirs.
LEMMA Within ==
    ASSUME TypeOK, RowsPlanned
    PROVE  /\ made + 1 \in 1..(made + 1) /\ \A c \in 1..made : c \in 1..(made + 1) /\ c # made + 1
                                                          /\ c \in Cycles /\ c <= made
           /\ \A r \in Rows : r[1] <= made => r[1] <= made + 1
<1>1. made \in Nat /\ made <= MaxCycles /\ MaxCycles \in Nat
  BY BoundsAssumption DEF TypeOK
<1>2. QED
  BY <1>1 DEF Cycles, Rows

\* Rows are written by the planner of their cycle only.
LEMMA PlannedStep ==
    ASSUME DrivesInv, [Next]_vars
    PROVE  RowsPlanned'
<1> DEFINE Same == /\ layer' = layer /\ made' = made
                   /\ \A r \in Rows : rows'[r] = "none" <=> rows[r] = "none"
<1>t. TypeOK /\ RowsPlanned /\ rows \in [Rows -> Status] /\ made \in Nat
  BY BoundsAssumption DEF DrivesInv, TypeOK
<1>o. RowsOwned
  BY DEF DrivesInv
<1>e. ASSUME Same, NEW i \in Slots, go'[i].pc # "plan", Rest(i) PROVE RowsPlanned'
  BY <1>e, <1>t DEF RowsPlanned, Rest
<1>1. ASSUME NEW s \in Settings, Change(s) PROVE RowsPlanned'
  BY <1>1, <1>t DEF Change, RowsPlanned
<1>2. CASE TearDown
  <2>1. Same
    BY <1>2, <1>t DEF TearDown
  <2>2. QED
    BY <1>2, <1>t, <2>1, TearDownEffect DEF RowsPlanned
<1>3. CASE LoopExits
  BY <1>3, <1>t DEF LoopExits, RowsPlanned
<1>4. CASE Launch
  BY <1>4, <1>t DEF Launch, RowsPlanned
<1>5. CASE FetchStarts
  BY <1>5, <1>t DEF FetchStarts, RowsPlanned
<1>6. ASSUME NEW posts \in BOOLEAN, FetchEnds(posts) PROVE RowsPlanned'
  <2>1. Same
    BY <1>6, <1>t, SupersededEffect DEF FetchEnds
  <2>2. QED
    BY <1>6, <1>t, <1>e, <2>1, FetchEndsEffect
<1>7. ASSUME NEW i \in Slots, FanOut(i) PROVE RowsPlanned'
  <2>1. \A r \in Rows : rows'[r] = "none" <=> rows[r] = "none"
    BY <1>7, <1>t, FanOutEffect, SupersededEffect
  <2>2. CASE go'[i].pc = "none" /\ OpensNone
    BY <1>7, <1>t, <2>1, <2>2, FanOutEffect DEF OpensNone, RowsPlanned
  <2>3. CASE Planner(go'[i], "L2") /\ Opens("L2") /\ Room
    <3>1. /\ made' = made + 1 /\ layer'[made + 1] = "L2"
          /\ \A c \in Cycles : c <= made => layer'[c] = layer[c]
          /\ \A r \in Rows : rows[r] # "none" => r[1] <= made /\ r[1] # made + 1
      BY <1>t, <2>3, OpensEffect
    <3>2. \A j \in Slots \ {i} : go'[j] = go[j] \/ go'[j].pc = "mint"
      BY <1>7, <1>t, FanOutEffect
    <3>3. QED
      BY <1>t, <2>1, <2>3, <3>1, <3>2, Within DEF Planner, RowsPlanned
  <2>4. QED
    BY <1>7, <1>t, <2>2, <2>3, FanOutEffect
<1>8. ASSUME NEW i \in Slots, Mint(i) PROVE RowsPlanned'
  <2>1. CASE go'[i].pc = "none" /\ OpensNone
    <3>1. Same
      BY <1>8, <1>t, <2>1, SupersededEffect DEF Mint, OpensNone
    <3>2. QED
      BY <1>8, <1>t, <1>e, <2>1, <3>1, MintEffect
  <2>2. CASE Planner(go'[i], "L3") /\ Opens("L3") /\ Room
    <3>1. \A r \in Rows : rows'[r] = "none" <=> rows[r] = "none"
      BY <1>8, <1>t, SupersededEffect DEF Mint
    <3>2. Rest(i)
      BY <1>8, <1>t, MintEffect
    <3>3. /\ made' = made + 1 /\ layer'[made + 1] = "L3"
          /\ \A c \in Cycles : c <= made => layer'[c] = layer[c]
          /\ \A r \in Rows : rows[r] # "none" => r[1] <= made /\ r[1] # made + 1
      BY <1>t, <2>2, OpensEffect
    <3>4. QED
      BY <1>t, <2>2, <3>1, <3>2, <3>3, Within DEF Planner, Rest, RowsPlanned
  <2>3. QED
    BY <1>8, <1>t, <2>1, <2>2, MintEffect
<1>9. ASSUME NEW i \in Slots, Regenerate(i) PROVE RowsPlanned'
  <2>1. CASE go'[i].pc = "none" /\ OpensNone
    <3>1. Same
      BY <1>9, <1>t, <2>1 DEF Regenerate, OpensNone
    <3>2. QED
      BY <1>9, <1>t, <1>e, <2>1, <3>1, RegenerateEffect
  <2>2. CASE Planner(go'[i], "L2") /\ Opens("L2") /\ Room
    <3>1. \A r \in Rows : rows'[r] = "none" <=> rows[r] = "none"
      BY <1>9, <1>t DEF Regenerate
    <3>2. Rest(i)
      BY <1>9, <1>t, RegenerateEffect
    <3>3. /\ made' = made + 1 /\ layer'[made + 1] = "L2"
          /\ \A c \in Cycles : c <= made => layer'[c] = layer[c]
          /\ \A r \in Rows : rows[r] # "none" => r[1] <= made /\ r[1] # made + 1
      BY <1>t, <2>2, OpensEffect
    <3>4. QED
      BY <1>t, <2>2, <3>1, <3>2, <3>3, Within DEF Planner, Rest, RowsPlanned
  <2>3. QED
    BY <1>9, <1>t, <2>1, <2>2, RegenerateEffect
<1>10. ASSUME NEW i \in Slots, Schedule(i) PROVE RowsPlanned'
  <2>1. PICK r \in Rows :
           /\ r[1] = go[i].cycle /\ r \notin go[i].left
           /\ rows' = [rows EXCEPT ![r] = "pending"]
           /\ go'[i].pc \in {"plan", "sleep"} /\ go'[i].left = go[i].left \union {r}
           /\ go'[i].layer = go[i].layer /\ go'[i].cycle = go[i].cycle
           /\ Rest(i)
    BY <1>10, <1>t, ScheduleEffect
  <2>2. go[i].pc = "plan" /\ layer' = layer /\ made' = made
    BY <1>10 DEF Schedule
  <2>3. go[i].cycle \in 1..made
    BY <1>t, <2>2 DEF RowsPlanned
  <2>4. \A q \in Rows : rows'[q] # "none" => rows[q] # "none" \/ q = r
    BY <1>t, <2>1
  <2>5. \A q \in Rows : rows'[q] # "none" => q[1] <= made
    BY <1>t, <2>1, <2>3, <2>4 DEF RowsPlanned
  <2>6. \A j \in Slots \ {i} : go[j].pc = "plan" => go[j].cycle # r[1]
    BY <1>t, <2>1, <2>2 DEF RowsPlanned
  <2>7. QED
    BY <1>t, <2>1, <2>2, <2>4, <2>5, <2>6 DEF Rest, RowsPlanned
<1>11. ASSUME NEW i \in Slots, Cancelled(i) PROVE RowsPlanned'
  <2>1. Same
    BY <1>11, <1>t DEF Cancelled
  <2>2. Ends(i)
    BY <1>11 DEF Cancelled
  <2>3. QED
    BY <1>t, <1>e, <2>1, <2>2, EndsEffect
<1>12. ASSUME NEW i \in Slots, Paused(i) PROVE RowsPlanned'
  <2>1. Same
    BY <1>12, <1>t DEF Paused
  <2>2. Ends(i)
    BY <1>12 DEF Paused
  <2>3. QED
    BY <1>t, <1>e, <2>1, <2>2, EndsEffect
<1>13. ASSUME NEW i \in Slots, Looks(i) PROVE RowsPlanned'
  <2>1. Same
    BY <1>13 DEF Looks
  <2>2. QED
    BY <1>13, <1>t, <1>e, <2>1, LooksEffect DEF Moved
<1>13a. ASSUME NEW i \in Slots, Takes(i) PROVE RowsPlanned'
  <2>1. Same
    BY <1>13a, <1>t DEF Takes
  <2>2. QED
    BY <1>13a, <1>t, <1>o, <1>e, <2>1, TakesEffect DEF Moved
<1>13b. ASSUME NEW i \in Slots, Fires(i) PROVE RowsPlanned'
  <2>1. Same
    BY <1>13b DEF Fires
  <2>2. QED
    BY <1>13b, <1>t, <1>o, <1>e, <2>1, FiresEffect DEF Moved
<1>14. ASSUME NEW i \in Slots, NEW errs \in 0..1, Discards(i, errs) PROVE RowsPlanned'
  <2>1. Same
    BY <1>14, <1>t DEF Discards
  <2>2. Ends(i)
    BY <1>14 DEF Discards
  <2>3. QED
    BY <1>t, <1>e, <2>1, <2>2, EndsEffect
<1>15. ASSUME NEW i \in Slots, NEW res \in {"ok", "fail"}, Finishes(i, res) PROVE RowsPlanned'
  <2>1. rows[go[i].at] # "none"
    BY <1>15, <1>t, <1>o, AtOwned DEF Finishes, Running
  <2>2. Same
    BY <1>15, <1>t, <2>1 DEF Finishes
  <2>3. QED
    BY <1>15, <1>t, <1>e, <2>2, FinishesEffect DEF Moved
<1>16. ASSUME NEW i \in Slots, Retires(i) PROVE RowsPlanned'
  <2>1. \A r \in go[i].left : rows[r] # "none"
    BY <1>o DEF RowsOwned
  <2>2. Same
    BY <1>16, <1>t, <2>1 DEF Retires
  <2>3. Ends(i)
    BY <1>16 DEF Retires
  <2>4. QED
    BY <1>t, <1>e, <2>2, <2>3, EndsEffect
<1>17. ASSUME NEW i \in Slots, NextWave(i) PROVE RowsPlanned'
  <2>1. Same
    BY <1>17, <1>t DEF NextWave
  <2>3. QED
    BY <1>17, <1>t, <1>e, <2>1, NextWaveEffect DEF Moved
<1>18. ASSUME NEW i \in Slots, PausedRevived(i) PROVE RowsPlanned'
  <2>1. Same
    BY <1>18, <1>t DEF PausedRevived
  <2>2. Ends(i)
    BY <1>18 DEF PausedRevived
  <2>3. QED
    BY <1>t, <1>e, <2>1, <2>2, EndsEffect
<1>19. ASSUME NEW i \in Slots, AllDriven(i) PROVE RowsPlanned'
  <2>1. Same
    BY <1>19, <1>t DEF AllDriven
  <2>2. Ends(i)
    BY <1>19 DEF AllDriven
  <2>3. QED
    BY <1>t, <1>e, <2>1, <2>2, EndsEffect
<1>20. ASSUME NEW i \in Slots, NEW errs \in 0..1, Marks(i, errs) PROVE RowsPlanned'
  <2>1. Same
    BY <1>20, <1>t, <1>o DEF Marks, RowsOwned
  <2>2. QED
    BY <1>20, <1>t, <1>e, <2>1, MarksEffect DEF Moved
<1>21. ASSUME NEW i \in Slots, DiscardsRevived(i) PROVE RowsPlanned'
  <2>1. Same
    BY <1>21, <1>t DEF DiscardsRevived
  <2>2. Ends(i)
    BY <1>21 DEF DiscardsRevived
  <2>3. QED
    BY <1>t, <1>e, <2>1, <2>2, EndsEffect
<1>22. ASSUME NEW i \in Slots, Rechecks(i) PROVE RowsPlanned'
  <2>1. Same
    BY <1>22 DEF Rechecks
  <2>2. QED
    BY <1>22, <1>t, <1>o, <1>e, <2>1, RechecksEffect DEF Moved
<1>22a. ASSUME NEW i \in Slots, FiresRevived(i) PROVE RowsPlanned'
  <2>1. Same
    BY <1>22a DEF FiresRevived
  <2>2. QED
    BY <1>22a, <1>t, <1>o, <1>e, <2>1, FiresEffect DEF Moved
<1>23. ASSUME NEW i \in Slots, SkipsRevived(i) PROVE RowsPlanned'
  <2>1. rows[go[i].at] # "none"
    BY <1>23, <1>t, <1>o, AtOwned DEF SkipsRevived, Running
  <2>2. Same
    BY <1>23, <1>t, <2>1 DEF SkipsRevived
  <2>3. Advanced(i)
    BY <1>23 DEF SkipsRevived
  <2>4. QED
    BY <1>t, <1>e, <2>2, <2>3, AdvancedEffect DEF Moved
<1>24. ASSUME NEW i \in Slots, FinishesRevived(i) PROVE RowsPlanned'
  <2>1. rows[go[i].at] # "none"
    BY <1>24, <1>t, <1>o, AtOwned DEF FinishesRevived, Running
  <2>2. Same
    BY <1>24, <1>t, <2>1 DEF FinishesRevived
  <2>3. Advanced(i)
    BY <1>24 DEF FinishesRevived
  <2>4. QED
    BY <1>t, <1>e, <2>2, <2>3, AdvancedEffect DEF Moved
<1>25. ASSUME NEW archived \in BOOLEAN, ReconcilePass(archived) PROVE RowsPlanned'
  <2>1. Same
    BY <1>25, <1>t DEF ReconcilePass
  <2>2. \A i \in Slots : go'[i] = go[i] \/ go'[i].pc # "plan"
    BY <1>25, <1>t, ReconcileEffect
  <2>3. QED
    BY <1>t, <2>1, <2>2 DEF RowsPlanned
<1>26. CASE ReconcileOff
  BY <1>26, <1>t DEF ReconcileOff, RowsPlanned
<1>27. ASSUME NEW hangover \in SUBSET Cycles, Restart(hangover) PROVE RowsPlanned'
  <2>1. Same
    BY <1>27, <1>t DEF Restart, AfterCrash
  <2>2. \A i \in Slots : go'[i].pc # "plan"
    BY <1>27, <1>t, RestartEffect
  <2>3. QED
    BY <1>t, <2>1, <2>2 DEF RowsPlanned
<1>28. CASE UNCHANGED vars
  BY <1>28, <1>t DEF vars, RowsPlanned
<1>q. QED
  BY <1>1, <1>2, <1>3, <1>4, <1>5, <1>6, <1>7, <1>8, <1>9, <1>10, <1>11, <1>12, <1>13, <1>13a,
     <1>13b, <1>14, <1>15, <1>16, <1>17, <1>18, <1>19, <1>20, <1>21, <1>22, <1>22a, <1>23, <1>24,
     <1>25, <1>26, <1>27, <1>28
     DEF Next, LoopSteps, DriverSteps

\* A slot that a step fills was free.
LEMMA FanOutFree ==
    ASSUME TypeOK, NEW i \in Slots, FanOut(i)
    PROVE  \A j \in Slots \ {i} : go'[j] = go[j] \/ (go'[j].pc = "mint" /\ go[j].pc = "none")
<1> DEFINE l2   == Covers("L2") /\ go[i].posts /\ Room
           mine == IF l2 THEN Planning(go[i], "L2") ELSE Gone
           child == G("mint", "L3", 0, {}, go[i].ctx, go[i].posts)
<1>1. go \in [Slots -> Goroutine]
  BY DEF TypeOK
<1>2. \/ go' = [go EXCEPT ![i] = mine]
      \/ \E j \in Slots : go[j].pc = "none" /\ go' = [go EXCEPT ![i] = mine, ![j] = child]
  BY DEF FanOut, Slot, Free
<1>3. child.pc = "mint"
  BY DEF G
<1> HIDE DEF mine, child
<1>4. QED
  BY <1>1, <1>2, <1>3

LEMMA ReconcileFree ==
    ASSUME TypeOK, NEW archived \in BOOLEAN, ReconcilePass(archived)
    PROVE  \A i \in Slots : go'[i] = go[i] \/ (/\ go[i].pc = "none"
                                               /\ go'[i].pc \in {"none", "regen", "mint", "gate"})
<1> DEFINE turned == {l \in settings.depth \ seen.prev : seen.seeded /\ ~Active(l)}
<1>1. PICK slot \in [turned -> Free] :
         go' = [i \in Slots |-> IF \E l \in turned : slot[l] = i
                   THEN Resumed(CHOOSE l \in turned : slot[l] = i, archived) ELSE go[i]]
  BY DEF ReconcilePass
<1>2. \A l : Resumed(l, archived).pc \in {"none", "regen", "mint", "gate"}
  BY GoneType DEF G, Resumed, Revive
<1> HIDE DEF turned
<1>3. QED
  BY <1>1, <1>2 DEF Free

LEMMA MarksCleanly ==
    ASSUME TypeOK, MaxErrors = 0, NEW i \in Slots, NEW errs \in 0..1, Marks(i, errs)
    PROVE  /\ go[i].pc = "park" /\ rows[go[i].at] = "pending"
           /\ rows' = [rows EXCEPT ![go[i].at] = "running"]
<1>1. budget.errors \in 0..MaxErrors
  BY DEF TypeOK, Budgets
<1>2. errs = 0
  BY <1>1 DEF Marks
<1>3. QED
  BY <1>2 DEF Marks

\* A row turns running with its one runner and stops with it.
LEMMA RunnersStep ==
    ASSUME MaxErrors = 0, IInv, [Next]_vars
    PROVE  RunnersAgree'
<1> DEFINE Same == \A r \in Rows : rows'[r] = "running" <=> rows[r] = "running"
<1>t. TypeOK /\ RowsPlanned /\ rows \in [Rows -> Status]
  BY DEF IInv, DrivesInv, TypeOK
<1>o. RowsOwned /\ RowsApart
  BY DEF IInv, DrivesInv
<1>r. RunnersAgree
  BY DEF IInv, DrivesInv
<1>e. ASSUME Same, NEW i \in Slots, Rest(i), ~Running(i), ~Running(i)' PROVE RunnersAgree'
  BY <1>e, <1>r DEF RunnersAgree, Running, Rest
<1>b. ASSUME NEW i \in Slots, NEW p \in {"begin", "recheck"}, NEW r \in Rows, rows[r] = "pending",
             rows' = [rows EXCEPT ![r] = "running"], Moved(i, p, go[i].left, r), ~Running(i)
      PROVE  RunnersAgree'
  BY <1>b, <1>t, <1>r DEF RunnersAgree, Running, Moved, Rest
<1>x. ASSUME NEW i \in Slots, Running(i), NEW st \in {"ok", "fail", "skipped"},
             rows' = [rows EXCEPT ![go[i].at] = st], Rest(i), ~Running(i)'
      PROVE  RunnersAgree'
  <2>1. go[i].at \in Rows
    BY <1>t, <1>o, <1>x, AtOwned
  <2>2. QED
    BY <1>x, <1>t, <1>r, <2>1 DEF RunnersAgree, Running, Rest
<1>1. ASSUME NEW s \in Settings, Change(s) PROVE RunnersAgree'
  BY <1>1, <1>r DEF Change, RunnersAgree, Running
<1>2. CASE TearDown
  <2>1. Same
    BY <1>2 DEF TearDown
  <2>2. QED
    BY <1>2, <1>t, <1>r, <2>1, TearDownEffect DEF RunnersAgree, Running
<1>3. CASE LoopExits
  BY <1>3, <1>r DEF LoopExits, RunnersAgree, Running
<1>4. CASE Launch
  BY <1>4, <1>r DEF Launch, RunnersAgree, Running
<1>5. CASE FetchStarts
  BY <1>5, <1>r DEF FetchStarts, RunnersAgree, Running
<1>6. ASSUME NEW posts \in BOOLEAN, FetchEnds(posts) PROVE RunnersAgree'
  <2>1. Same
    BY <1>6, <1>t, SupersededEffect DEF FetchEnds
  <2>2. PICK j \in Slots : j \in Free /\ go' = [go EXCEPT ![j] =
            G("fan", "", 0, {}, IF loop.live THEN "bucket" ELSE "done", posts)]
    BY <1>6 DEF FetchEnds, Slot
  <2>3. go[j].pc = "none" /\ Rest(j) /\ go'[j].pc = "fan"
    <3>1. \A x : G("fan", "", 0, {}, x, posts).pc = "fan"
      BY DEF G
    <3>2. QED
      BY <1>t, <2>2, <3>1 DEF Free, Rest, TypeOK
  <2>4. QED
    BY <1>e, <2>1, <2>3 DEF Running
<1>7. ASSUME NEW i \in Slots, FanOut(i) PROVE RunnersAgree'
  <2>1. Same
    BY <1>7, <1>t, FanOutEffect, SupersededEffect
  <2>2. ~Running(i) /\ ~Running(i)'
    BY <1>7, <1>t, FanOutEffect DEF FanOut, Running, Planner
  <2>3. \A j \in Slots \ {i} : go'[j] = go[j] \/ (go'[j].pc = "mint" /\ go[j].pc = "none")
    BY <1>7, <1>t, FanOutFree
  <2>4. QED
    BY <1>r, <2>1, <2>2, <2>3 DEF RunnersAgree, Running
<1>8. ASSUME NEW i \in Slots, Mint(i) PROVE RunnersAgree'
  <2>1. Same /\ ~Running(i)
    BY <1>8, <1>t, SupersededEffect DEF Mint, Running
  <2>2. QED
    BY <1>8, <1>t, <1>e, <2>1, MintEffect DEF Planner, Running
<1>9. ASSUME NEW i \in Slots, Regenerate(i) PROVE RunnersAgree'
  <2>1. Same /\ ~Running(i)
    BY <1>9 DEF Regenerate, Running
  <2>2. QED
    BY <1>9, <1>t, <1>e, <2>1, RegenerateEffect DEF Planner, Running
<1>10. ASSUME NEW i \in Slots, Schedule(i) PROVE RunnersAgree'
  <2>1. PICK r \in Rows :
           /\ r[1] = go[i].cycle /\ r \notin go[i].left
           /\ rows' = [rows EXCEPT ![r] = "pending"]
           /\ go'[i].pc \in {"plan", "sleep"} /\ Rest(i)
    BY <1>10, <1>t, ScheduleEffect
  <2>2. go[i].pc = "plan"
    BY <1>10 DEF Schedule
  <2>3. rows[r] # "running"
    BY <1>t, <2>1, <2>2 DEF RowsPlanned
  <2>4. QED
    BY <1>t, <1>e, <2>1, <2>2, <2>3 DEF Running
<1>11. ASSUME NEW i \in Slots, Cancelled(i) PROVE RunnersAgree'
  <2>1. Same /\ Ends(i) /\ ~Running(i)
    BY <1>11, <1>t DEF Cancelled, Running
  <2>2. QED
    BY <1>t, <1>e, <2>1, EndsEffect DEF Running
<1>12. ASSUME NEW i \in Slots, Paused(i) PROVE RunnersAgree'
  <2>1. Same /\ Ends(i) /\ ~Running(i)
    BY <1>12, <1>t DEF Paused, Running
  <2>2. QED
    BY <1>t, <1>e, <2>1, EndsEffect DEF Running
<1>13. ASSUME NEW i \in Slots, Looks(i) PROVE RunnersAgree'
  <2>1. Same /\ ~Running(i)
    BY <1>13 DEF Looks, Running
  <2>2. QED
    BY <1>13, <1>t, <1>e, <2>1, LooksEffect DEF Moved, Running
<1>13a. ASSUME NEW i \in Slots, Takes(i) PROVE RunnersAgree'
  <2>1. go[i].pc = "mark" /\ rows[go[i].at] = "pending" /\ rows' = [rows EXCEPT ![go[i].at] = "running"]
    BY <1>13a DEF Takes
  <2>2. go[i].at \in Rows /\ ~Running(i)
    BY <1>t, <1>o, <2>1, AtOwned DEF Committed, Running
  <2>3. Moved(i, "begin", go[i].left, go[i].at)
    BY <1>13a, <1>t, <1>o, TakesEffect
  <2>4. QED
    BY <1>b, <2>1, <2>2, <2>3
<1>13b. ASSUME NEW i \in Slots, Fires(i) PROVE RunnersAgree'
  <2>1. go[i].pc = "begin" /\ rows' = rows
    BY <1>13b DEF Fires
  <2>2. QED
    BY <1>13b, <1>t, <1>o, <1>r, <2>1, FiresEffect DEF Moved, Rest, RunnersAgree, Running
<1>14. ASSUME NEW i \in Slots, NEW errs \in 0..1, Discards(i, errs) PROVE RunnersAgree'
  <2>1. Same /\ Ends(i) /\ ~Running(i)
    BY <1>14, <1>t DEF Discards, Running
  <2>2. QED
    BY <1>t, <1>e, <2>1, EndsEffect DEF Running
<1>15. ASSUME NEW i \in Slots, NEW res \in {"ok", "fail"}, Finishes(i, res) PROVE RunnersAgree'
  <2>1. Running(i) /\ rows' = [rows EXCEPT ![go[i].at] = res]
    BY <1>15 DEF Finishes, Running
  <2>2. Rest(i) /\ ~Running(i)'
    BY <1>15, <1>t, FinishesEffect DEF Moved, Running
  <2>3. QED
    BY <1>x, <2>1, <2>2
<1>16. ASSUME NEW i \in Slots, Retires(i) PROVE RunnersAgree'
  <2>1. ~Running(i) /\ Ends(i) /\ go[i].pc = "gate"
    BY <1>16 DEF Retires, Running
  <2>2. \A r \in go[i].left : r \in Rows /\ rows[r] # "running"
    <3>1. \A r \in go[i].left : r \in Rows
      BY <1>t, Fields DEF TypeOK
    <3>2. \A j \in Slots : Running(j) => go[j].at \in go[j].left
      BY <1>o DEF RowsOwned, Running
    <3>3. QED
      BY <1>o, <1>r, <2>1, <3>1, <3>2 DEF RowsApart, RunnersAgree
  <2>3. Same
    BY <1>16, <1>t, <2>2 DEF Retires
  <2>4. QED
    BY <1>t, <1>e, <2>1, <2>3, EndsEffect DEF Running
<1>17. ASSUME NEW i \in Slots, NextWave(i) PROVE RunnersAgree'
  <2>1. Same /\ ~Running(i)
    BY <1>17 DEF NextWave, Running
  <2>2. QED
    BY <1>17, <1>t, <1>e, <2>1, NextWaveEffect DEF Moved, Running
<1>18. ASSUME NEW i \in Slots, PausedRevived(i) PROVE RunnersAgree'
  <2>1. Same /\ Ends(i) /\ ~Running(i)
    BY <1>18, <1>t DEF PausedRevived, Running
  <2>2. QED
    BY <1>t, <1>e, <2>1, EndsEffect DEF Running
<1>19. ASSUME NEW i \in Slots, AllDriven(i) PROVE RunnersAgree'
  <2>1. Same /\ Ends(i) /\ ~Running(i)
    BY <1>19, <1>t DEF AllDriven, Running
  <2>2. QED
    BY <1>t, <1>e, <2>1, EndsEffect DEF Running
<1>20. ASSUME NEW i \in Slots, NEW errs \in 0..1, Marks(i, errs) PROVE RunnersAgree'
  <2>1. /\ go[i].pc = "park" /\ rows[go[i].at] = "pending"
        /\ rows' = [rows EXCEPT ![go[i].at] = "running"]
    BY <1>20, <1>t, MarksCleanly
  <2>2. go[i].at \in Rows
    BY <1>t, <1>o, <2>1, Fields DEF TypeOK, RowsOwned
  <2>3. Moved(i, "recheck", go[i].left, go[i].at) /\ ~Running(i)
    BY <1>20, <1>t, <2>1, MarksEffect DEF Running
  <2>4. QED
    BY <1>b, <2>1, <2>2, <2>3
<1>21. ASSUME NEW i \in Slots, DiscardsRevived(i) PROVE RunnersAgree'
  <2>1. Same /\ Ends(i) /\ ~Running(i)
    BY <1>21, <1>t DEF DiscardsRevived, Running
  <2>2. QED
    BY <1>t, <1>e, <2>1, EndsEffect DEF Running
<1>22. ASSUME NEW i \in Slots, Rechecks(i) PROVE RunnersAgree'
  <2>1. go[i].pc = "recheck" /\ rows' = rows
    BY <1>22 DEF Rechecks
  <2>2. QED
    BY <1>22, <1>t, <1>o, <1>r, <2>1, RechecksEffect DEF Moved, Rest, RunnersAgree, Running
<1>22a. ASSUME NEW i \in Slots, FiresRevived(i) PROVE RunnersAgree'
  <2>1. go[i].pc = "beginRevived" /\ rows' = rows
    BY <1>22a DEF FiresRevived
  <2>2. QED
    BY <1>22a, <1>t, <1>o, <1>r, <2>1, FiresEffect DEF Moved, Rest, RunnersAgree, Running
<1>23. ASSUME NEW i \in Slots, SkipsRevived(i) PROVE RunnersAgree'
  <2>1. Running(i) /\ Advanced(i) /\ rows' = [rows EXCEPT ![go[i].at] = "skipped"]
    BY <1>23 DEF SkipsRevived, Running
  <2>2. Rest(i) /\ ~Running(i)'
    BY <1>t, <2>1, AdvancedEffect DEF Moved, Running
  <2>3. QED
    BY <1>x, <2>1, <2>2
<1>24. ASSUME NEW i \in Slots, FinishesRevived(i) PROVE RunnersAgree'
  <2>1. Running(i) /\ Advanced(i) /\ rows' = [rows EXCEPT ![go[i].at] = "ok"]
    BY <1>24 DEF FinishesRevived, Running
  <2>2. Rest(i) /\ ~Running(i)'
    BY <1>t, <2>1, AdvancedEffect DEF Moved, Running
  <2>3. QED
    BY <1>x, <2>1, <2>2
<1>25. ASSUME NEW archived \in BOOLEAN, ReconcilePass(archived) PROVE RunnersAgree'
  <2>1. \A i \in Slots : go'[i] = go[i] \/ (~Running(i) /\ ~Running(i)')
    BY <1>25, <1>t, ReconcileFree DEF Running
  <2>2. rows' = rows
    BY <1>25 DEF ReconcilePass
  <2>3. QED
    BY <1>r, <2>1, <2>2 DEF RunnersAgree, Running
<1>26. CASE ReconcileOff
  BY <1>26, <1>r DEF ReconcileOff, RunnersAgree, Running
<1>27. ASSUME NEW hangover \in SUBSET Cycles, Restart(hangover) PROVE RunnersAgree'
  <2>1. \A i \in Slots : ~Running(i)'
    BY <1>27, <1>t, RestartEffect DEF Running
  <2>2. \A r \in Rows : rows'[r] # "running"
    BY <1>27, <1>t DEF Restart, AfterCrash
  <2>3. QED
    BY <2>1, <2>2 DEF RunnersAgree
<1>28. CASE UNCHANGED vars
  BY <1>28, <1>r DEF vars, RunnersAgree, Running
<1>q. QED
  BY <1>1, <1>2, <1>3, <1>4, <1>5, <1>6, <1>7, <1>8, <1>9, <1>10, <1>11, <1>12, <1>13, <1>13a,
     <1>13b, <1>14, <1>15, <1>16, <1>17, <1>18, <1>19, <1>20, <1>21, <1>22, <1>22a, <1>23, <1>24,
     <1>25, <1>26, <1>27, <1>28
     DEF Next, LoopSteps, DriverSteps

\* A wave is fired from pending, and what is fired is not pending again.
LEMMA FiredStep ==
    ASSUME MaxErrors = 0, IInv, [Next]_vars
    PROVE  FiredLeft'
<1> USE DEF ToBegin
<1> DEFINE Fresh == \A r \in Rows : rows'[r] \in {"none", "pending"} => rows[r] \in {"none", "pending"}
<1>t. TypeOK /\ RowsPlanned /\ rows \in [Rows -> Status] /\ fired \in [Rows -> 0..2]
  BY DEF IInv, DrivesInv, TypeOK
<1>o. RowsOwned
  BY DEF IInv, DrivesInv
<1>r. RunnersAgree
  BY DEF IInv, DrivesInv
<1>f. FiredLeft
  BY DEF IInv, DrivesInv
<1>e. ASSUME Fresh, fired' = fired, NEW i \in Slots, Rest(i), ~ToBegin(i)' PROVE FiredLeft'
  BY <1>e, <1>f DEF FiredLeft, FiresOnce, Rest
<1>b. ASSUME Fresh, NEW i \in Slots, NEW r \in Rows, fired[r] = 0, Rest(i), ~ToBegin(i)',
             rows'[r] \notin {"none", "pending"},
             \A j \in Slots \ {i} : ToBegin(j) => go[j].at # r,
             fired' = [fired EXCEPT ![r] = IF fired[r] < 2 THEN fired[r] + 1 ELSE 2]
      PROVE  FiredLeft'
  <2>1. fired' = [fired EXCEPT ![r] = 1]
    BY <1>b
  <2>2. QED
    BY <1>b, <1>t, <1>f, <2>1 DEF FiredLeft, FiresOnce, Rest
<1>1. ASSUME NEW s \in Settings, Change(s) PROVE FiredLeft'
  BY <1>1, <1>f DEF Change, FiredLeft, FiresOnce
<1>2. CASE TearDown
  <2>1. fired' = fired /\ rows' = rows
    BY <1>2 DEF TearDown
  <2>2. QED
    BY <1>2, <1>t, <1>f, <2>1, TearDownEffect DEF FiredLeft, FiresOnce
<1>3. CASE LoopExits
  BY <1>3, <1>f DEF LoopExits, FiredLeft, FiresOnce
<1>4. CASE Launch
  BY <1>4, <1>f DEF Launch, FiredLeft, FiresOnce
<1>5. CASE FetchStarts
  BY <1>5, <1>f DEF FetchStarts, FiredLeft, FiresOnce
<1>6. ASSUME NEW posts \in BOOLEAN, FetchEnds(posts) PROVE FiredLeft'
  <2>1. Fresh /\ fired' = fired
    BY <1>6, <1>t, SupersededEffect DEF FetchEnds
  <2>2. QED
    BY <1>6, <1>t, <1>e, <2>1, FetchEndsEffect DEF Moved, Planner, Rest
<1>7. ASSUME NEW i \in Slots, FanOut(i) PROVE FiredLeft'
  <2>1. Fresh /\ fired' = fired
    BY <1>7, <1>t, FanOutEffect, SupersededEffect DEF FanOut
  <2>2. \A j \in Slots : go'[j] = go[j] \/ ~ToBegin(j)'
    BY <1>7, <1>t, FanOutEffect DEF Planner
  <2>3. QED
    BY <1>f, <2>1, <2>2 DEF FiredLeft, FiresOnce
<1>8. ASSUME NEW i \in Slots, Mint(i) PROVE FiredLeft'
  <2>1. Fresh /\ fired' = fired
    BY <1>8, <1>t, SupersededEffect DEF Mint
  <2>2. QED
    BY <1>8, <1>t, <1>e, <2>1, MintEffect DEF Moved, Planner, Rest
<1>9. ASSUME NEW i \in Slots, Regenerate(i) PROVE FiredLeft'
  <2>1. Fresh /\ fired' = fired
    BY <1>9, <1>t DEF Regenerate
  <2>2. QED
    BY <1>9, <1>t, <1>e, <2>1, RegenerateEffect DEF Moved, Planner, Rest
<1>10. ASSUME NEW i \in Slots, Schedule(i) PROVE FiredLeft'
  <2>1. PICK r \in Rows :
           /\ r[1] = go[i].cycle /\ r \notin go[i].left
           /\ rows' = [rows EXCEPT ![r] = "pending"]
           /\ go'[i].pc \in {"plan", "sleep"} /\ Rest(i)
    BY <1>10, <1>t, ScheduleEffect
  <2>2. go[i].pc = "plan" /\ fired' = fired
    BY <1>10 DEF Schedule
  <2>3. rows[r] = "none"
    BY <1>t, <2>1, <2>2 DEF RowsPlanned
  <2>4. QED
    BY <1>t, <1>e, <2>1, <2>2, <2>3
<1>11. ASSUME NEW i \in Slots, Cancelled(i) PROVE FiredLeft'
  <2>1. Fresh /\ fired' = fired /\ Ends(i)
    BY <1>11, <1>t DEF Cancelled
  <2>2. QED
    BY <1>t, <1>e, <2>1, EndsEffect
<1>12. ASSUME NEW i \in Slots, Paused(i) PROVE FiredLeft'
  <2>1. Fresh /\ fired' = fired /\ Ends(i)
    BY <1>12, <1>t DEF Paused
  <2>2. QED
    BY <1>t, <1>e, <2>1, EndsEffect
<1>13. ASSUME NEW i \in Slots, Looks(i) PROVE FiredLeft'
  <2>1. Fresh /\ fired' = fired
    BY <1>13 DEF Looks
  <2>2. QED
    BY <1>13, <1>t, <1>e, <2>1, LooksEffect DEF Moved
<1>13a. ASSUME NEW i \in Slots, Takes(i) PROVE FiredLeft'
  <2>1. go[i].pc = "mark" /\ rows[go[i].at] = "pending" /\ fired' = fired
        /\ rows' = [rows EXCEPT ![go[i].at] = "running"]
    BY <1>13a DEF Takes
  <2>2. go[i].at \in Rows
    BY <1>t, <1>o, <2>1, AtOwned DEF Committed
  <2>3. Moved(i, "begin", go[i].left, go[i].at)
    BY <1>13a, <1>t, <1>o, TakesEffect
  <2>4. QED
    BY <1>t, <1>f, <2>1, <2>2, <2>3 DEF Moved, Rest, FiredLeft, FiresOnce
<1>13b. ASSUME NEW i \in Slots, Fires(i) PROVE FiredLeft'
  <2>1. ToBegin(i) /\ Running(i)
    BY <1>13b DEF Fires, Running
  <2>2. fired[go[i].at] = 0 /\ go[i].at \in Rows
    BY <1>t, <1>o, <1>f, <2>1, AtOwned DEF FiredLeft
  <2>3. /\ rows[go[i].at] = "running"
        /\ \A j \in Slots \ {i} : ToBegin(j) => go[j].at # go[i].at
    BY <1>r, <2>1, <2>2 DEF RunnersAgree, Running
  <2>4. QED
    BY <1>13b, <1>t, <1>o, <1>b, <2>2, <2>3, FiresEffect DEF Moved
<1>14. ASSUME NEW i \in Slots, NEW errs \in 0..1, Discards(i, errs) PROVE FiredLeft'
  <2>1. Fresh /\ fired' = fired /\ Ends(i)
    BY <1>14, <1>t DEF Discards
  <2>2. QED
    BY <1>t, <1>e, <2>1, EndsEffect
<1>15. ASSUME NEW i \in Slots, NEW res \in {"ok", "fail"}, Finishes(i, res) PROVE FiredLeft'
  <2>1. Fresh /\ fired' = fired
    BY <1>15, <1>t DEF Finishes
  <2>2. QED
    BY <1>15, <1>t, <1>e, <2>1, FinishesEffect DEF Moved
<1>16. ASSUME NEW i \in Slots, Retires(i) PROVE FiredLeft'
  <2>1. Fresh /\ fired' = fired /\ Ends(i)
    BY <1>16, <1>t DEF Retires
  <2>2. QED
    BY <1>t, <1>e, <2>1, EndsEffect
<1>17. ASSUME NEW i \in Slots, NextWave(i) PROVE FiredLeft'
  <2>1. Fresh /\ fired' = fired
    BY <1>17, <1>t DEF NextWave
  <2>2. QED
    BY <1>17, <1>t, <1>e, <2>1, NextWaveEffect DEF Moved, Planner, Rest
<1>18. ASSUME NEW i \in Slots, PausedRevived(i) PROVE FiredLeft'
  <2>1. Fresh /\ fired' = fired /\ Ends(i)
    BY <1>18, <1>t DEF PausedRevived
  <2>2. QED
    BY <1>t, <1>e, <2>1, EndsEffect
<1>19. ASSUME NEW i \in Slots, AllDriven(i) PROVE FiredLeft'
  <2>1. Fresh /\ fired' = fired /\ Ends(i)
    BY <1>19, <1>t DEF AllDriven
  <2>2. QED
    BY <1>t, <1>e, <2>1, EndsEffect
<1>20. ASSUME NEW i \in Slots, NEW errs \in 0..1, Marks(i, errs) PROVE FiredLeft'
  <2>1. /\ go[i].pc = "park" /\ rows[go[i].at] = "pending" /\ fired' = fired
        /\ rows' = [rows EXCEPT ![go[i].at] = "running"]
    BY <1>20, <1>t, MarksCleanly DEF Marks
  <2>2. go[i].at \in Rows
    BY <1>t, <1>o, <2>1, Fields DEF TypeOK, RowsOwned
  <2>3. Moved(i, "recheck", go[i].left, go[i].at)
    BY <1>20, <1>t, MarksEffect
  <2>4. QED
    BY <1>t, <1>f, <2>1, <2>2, <2>3 DEF Moved, Rest, FiredLeft, FiresOnce
<1>21. ASSUME NEW i \in Slots, DiscardsRevived(i) PROVE FiredLeft'
  <2>1. Fresh /\ fired' = fired /\ Ends(i)
    BY <1>21, <1>t DEF DiscardsRevived
  <2>2. QED
    BY <1>t, <1>e, <2>1, EndsEffect
<1>22. ASSUME NEW i \in Slots, Rechecks(i) PROVE FiredLeft'
  <2>1. go[i].pc = "recheck" /\ rows' = rows /\ fired' = fired
    BY <1>22 DEF Rechecks
  <2>2. Moved(i, "beginRevived", go[i].left, go[i].at)
    BY <1>22, <1>t, <1>o, RechecksEffect
  <2>3. QED
    BY <1>t, <1>f, <2>1, <2>2 DEF Moved, Rest, FiredLeft, FiresOnce
<1>22a. ASSUME NEW i \in Slots, FiresRevived(i) PROVE FiredLeft'
  <2>1. ToBegin(i) /\ Running(i)
    BY <1>22a DEF FiresRevived, Running
  <2>2. fired[go[i].at] = 0 /\ go[i].at \in Rows
    BY <1>t, <1>o, <1>f, <2>1, AtOwned DEF FiredLeft
  <2>3. /\ rows[go[i].at] = "running"
        /\ \A j \in Slots \ {i} : ToBegin(j) => go[j].at # go[i].at
    BY <1>r, <2>1, <2>2 DEF RunnersAgree, Running
  <2>4. QED
    BY <1>22a, <1>t, <1>o, <1>b, <2>2, <2>3, FiresEffect DEF Moved
<1>23. ASSUME NEW i \in Slots, SkipsRevived(i) PROVE FiredLeft'
  <2>1. Fresh /\ fired' = fired /\ Advanced(i)
    BY <1>23, <1>t DEF SkipsRevived
  <2>2. QED
    BY <1>t, <1>e, <2>1, AdvancedEffect DEF Moved
<1>24. ASSUME NEW i \in Slots, FinishesRevived(i) PROVE FiredLeft'
  <2>1. Fresh /\ fired' = fired /\ Advanced(i)
    BY <1>24, <1>t DEF FinishesRevived
  <2>2. QED
    BY <1>t, <1>e, <2>1, AdvancedEffect DEF Moved
<1>25. ASSUME NEW archived \in BOOLEAN, ReconcilePass(archived) PROVE FiredLeft'
  <2>1. rows' = rows /\ fired' = fired
    BY <1>25 DEF ReconcilePass
  <2>2. \A i \in Slots : go'[i] = go[i] \/ ~ToBegin(i)'
    BY <1>25, <1>t, ReconcileFree
  <2>3. QED
    BY <1>f, <2>1, <2>2 DEF FiredLeft, FiresOnce
<1>26. CASE ReconcileOff
  BY <1>26, <1>f DEF ReconcileOff, FiredLeft, FiresOnce
<1>27. ASSUME NEW hangover \in SUBSET Cycles, Restart(hangover) PROVE FiredLeft'
  <2>1. \A i \in Slots : ~ToBegin(i)'
    BY <1>27, <1>t, RestartEffect
  <2>2. Fresh /\ fired' = fired
    BY <1>27, <1>t DEF Restart, AfterCrash
  <2>3. QED
    BY <1>f, <2>1, <2>2 DEF FiredLeft, FiresOnce
<1>28. CASE UNCHANGED vars
  BY <1>28, <1>f DEF vars, FiredLeft, FiresOnce
<1>q. QED
  BY <1>1, <1>2, <1>3, <1>4, <1>5, <1>6, <1>7, <1>8, <1>9, <1>10, <1>11, <1>12, <1>13, <1>13a,
     <1>13b, <1>14, <1>15, <1>16, <1>17, <1>18, <1>19, <1>20, <1>21, <1>22, <1>22a, <1>23, <1>24,
     <1>25, <1>26, <1>27, <1>28
     DEF Next, LoopSteps, DriverSteps

-----------------------------------------------------------------------------
LEMMA InitInv == Init => IInv
<1> SUFFICES ASSUME Init PROVE IInv
  OBVIOUS
<1>1. Gone \in Goroutine /\ \A i \in Slots : go[i] = Gone
  BY GoneType DEF Init
<1>2. TypeOK
  <2>1. settings \in Settings
    BY LayersAssumption DEF Init, Settings
  <2>2. loop \in Loops /\ seen \in Passes
    BY LayersAssumption DEF Init, Off, Settings, Loops, Passes
  <2>3. budget \in Budgets
    <3>1. 0 \in 0..MaxRestarts /\ 0 \in 0..MaxChanges /\ 0 \in 0..MaxErrors
      BY BoundsAssumption
    <3>2. budget = [restarts |-> 0, changes |-> 0, errors |-> 0]
      BY DEF Init
    <3>3. QED
      BY <3>1, <3>2 DEF Budgets
  <2>4. made \in 0..MaxCycles /\ snap \in [Layers -> 0..MaxCycles] /\ fired \in [Rows -> 0..2]
    <3>1. 0 \in 0..MaxCycles /\ 0 \in 0..2
      BY BoundsAssumption
    <3>2. made = 0 /\ snap = [l \in Layers |-> 0] /\ fired = [r \in Rows |-> 0]
      BY DEF Init
    <3>3. QED
      BY <3>1, <3>2
  <2>5. rows \in [Rows -> Status] /\ layer \in [Cycles -> Kinds] /\ go \in [Slots -> Goroutine]
    BY GoneType DEF Init, Status, Kinds
  <2>6. past \in SUBSET Rows
    BY DEF Init
  <2>7. QED
    BY <2>1, <2>2, <2>3, <2>4, <2>5, <2>6 DEF TypeOK
<1>3. RowsOwned /\ RowsApart
  BY <1>1, GoneType DEF RowsOwned, RowsApart, Committed, Running
<1>4. RowsPlanned
  BY <1>1, GoneType DEF RowsPlanned, Init
<1>5. RunnersAgree /\ FiredLeft
  <2>1. \A r \in Rows : rows[r] = "none" /\ fired[r] = 0
    BY DEF Init
  <2>2. \A i \in Slots : go[i].pc = "none"
    BY <1>1, GoneType
  <2>3. RunnersAgree
    BY <2>1, <2>2 DEF RunnersAgree, Running
  <2>4. FiredLeft
    BY <2>1, <2>2 DEF FiredLeft, FiresOnce, ToBegin
  <2>5. QED
    BY <2>3, <2>4
<1>6. QED
  BY <1>2, <1>3, <1>4, <1>5 DEF IInv, DrivesInv

\* Which driver owns and plans which row, whatever fails.
LEMMA DrivesStep ==
    ASSUME DrivesInv, [Next]_vars
    PROVE  DrivesInv'
<1>1. TypeOK /\ RowsOwned /\ RowsPlanned
  BY DEF DrivesInv
<1>2. TypeOK'
  BY <1>1, TypeStep
<1>3. QED
  BY <1>2, OwnedStep, ApartStep, PlannedStep DEF DrivesInv

THEOREM DriversInvariance == Spec => []DrivesInv
<1>1. Init => DrivesInv
  BY InitInv DEF IInv
<1>2. QED
  BY <1>1, DrivesStep, PTL DEF Spec

\* The inductive invariant: types, and which driver owns, plans, runs and has
\* fired which row.
THEOREM Invariance ==
    ASSUME MaxErrors = 0
    PROVE  Spec => []IInv
<1>1. IInv /\ [Next]_vars => IInv'
  BY DrivesStep, RunnersStep, FiredStep DEF IInv
<1>2. QED
  BY <1>1, InitInv, PTL DEF Spec

\* scheduler.go, TryMarkRunning and FailStaleRunning: a row is running exactly
\* while one driver runs it, through supersession, revival and restart.
THEOREM OneRunner ==
    ASSUME MaxErrors = 0
    PROVE  Spec => []RunnersAgree
<1>1. IInv => RunnersAgree
  BY DEF IInv, DrivesInv
<1>2. QED
  BY <1>1, Invariance, PTL

\* Every wave's fetch is started at most once, whatever crashes and takeovers.
THEOREM FiredOnce ==
    ASSUME MaxErrors = 0
    PROVE  Spec => []FiresOnce
<1>1. IInv => FiresOnce
  BY DEF IInv, DrivesInv, FiredLeft
<1>2. QED
  BY <1>1, Invariance, PTL

\* The waves of one cycle run one at a time, in a live cycle and a revived one,
\* also when the statement that marks a row fails.
THEOREM CyclesSerial == Spec => []SerialWaves
<1>1. DrivesInv => SerialWaves
  <2>1. SUFFICES ASSUME DrivesInv, NEW i \in Slots, NEW j \in Slots, Running(i), Running(j),
                        go[i].at[1] = go[j].at[1]
                 PROVE  i = j
    BY DEF SerialWaves
  <2>2. go[i].at \in go[i].left /\ go[j].at \in go[j].left
    BY <2>1 DEF DrivesInv, RowsOwned, Running
  <2>3. QED
    BY <2>1, <2>2 DEF DrivesInv, RowsApart
<1>2. QED
  BY <1>1, DriversInvariance, PTL

\* What the waves' run checks, together: one driver, one fetch, one at a time.
THEOREM WavesDrivenOnce ==
    ASSUME MaxErrors = 0
    PROVE  Spec => []OneDriverPerWave
<1>1. RunnersAgree /\ FiresOnce /\ SerialWaves => OneDriverPerWave
  BY DEF OneDriverPerWave
<1>2. QED
  BY <1>1, OneRunner, FiredOnce, CyclesSerial, PTL

-----------------------------------------------------------------------------
(* A layer that is off stays quiet.                                         *)

\* Steps that save nothing, begin nothing and let nobody pass the look.
Unseen ==
    /\ settings' = settings /\ past' = past
    /\ \A j \in Slots : go'[j].pc \in {"mark", "begin", "beginRevived"}
          => Committed(j) /\ go'[j].at = go[j].at /\ go'[j].layer = go[j].layer

\* Two steps pass the look, and they have just read the depth; a save counts
\* who is past it, and only the beginning of its own wave takes a row out.
LEMMA PastStep ==
    ASSUME DrivesInv, PastLooked, [Next]_vars
    PROVE  PastLooked'
<1> USE DEF Committed
<1>t. TypeOK /\ RowsOwned /\ RowsApart /\ RowsPlanned
  BY DEF DrivesInv
<1>u. ASSUME Unseen PROVE PastLooked'
  BY <1>u DEF Unseen, PastLooked, Covers
<1>e. ASSUME NEW i \in Slots, Rest(i), settings' = settings, past' = past,
             go'[i].pc \notin {"mark", "begin", "beginRevived"}
      PROVE  PastLooked'
  BY <1>e, <1>u DEF Rest, Unseen
<1>l. ASSUME NEW i \in Slots, NEW p, NEW r, Moved(i, p, go[i].left, r), Covers(go[i].layer),
             settings' = settings, past' = past
      PROVE  PastLooked'
  BY <1>l DEF Moved, Rest, PastLooked, Covers
<1>b. ASSUME NEW i \in Slots, Fires(i) \/ FiresRevived(i) PROVE PastLooked'
  <2>1. settings' = settings /\ past' = past \ {go[i].at}
    BY <1>b DEF Fires, FiresRevived, Runs
  <2>2. go[i].at \in go[i].left /\ Rest(i) /\ go'[i].pc \in {"run", "runRevived"}
    BY <1>b, <1>t, FiresEffect DEF Moved
  <2>3. \A j \in Slots \ {i} : Committed(j) => go[j].at # go[i].at
    <3>1. SUFFICES ASSUME NEW j \in Slots \ {i}, Committed(j) PROVE go[j].at # go[i].at
      OBVIOUS
    <3>2. go[j].at \in go[j].left
      BY <1>t, <3>1 DEF RowsOwned
    <3>3. QED
      BY <1>t, <2>2, <3>2 DEF RowsApart
  <2>4. QED
    BY <2>1, <2>2, <2>3 DEF Rest, PastLooked, Covers
<1>1. ASSUME NEW s \in Settings, Change(s) PROVE PastLooked'
  BY <1>1 DEF Change, PastLooked
<1>2. CASE LoopSteps
  <2>1. CASE TearDown
    <3>1. settings' = settings /\ past' = past
      BY <2>1 DEF TearDown
    <3>2. QED
      BY <1>t, <1>u, <2>1, <3>1, TearDownEffect DEF Unseen
  <2>2. CASE LoopExits \/ Launch \/ FetchStarts
    BY <1>u, <2>2 DEF LoopExits, Launch, FetchStarts, Unseen
  <2>3. ASSUME NEW posts \in BOOLEAN, FetchEnds(posts) PROVE PastLooked'
    <3>1. settings' = settings /\ past' = past
      BY <2>3 DEF FetchEnds
    <3>2. QED
      BY <1>t, <1>e, <2>3, <3>1, FetchEndsEffect
  <2>4. QED
    BY <1>2, <2>1, <2>2, <2>3 DEF LoopSteps
<1>3. ASSUME NEW i \in Slots, FanOut(i) PROVE PastLooked'
  <2>1. settings' = settings /\ past' = past
    BY <1>3 DEF FanOut
  <2>2. \A j \in Slots : go'[j] = go[j] \/ go'[j].pc \in {"none", "plan", "mint"}
    BY <1>3, <1>t, FanOutEffect DEF Planner
  <2>3. QED
    BY <1>u, <2>1, <2>2 DEF Unseen
<1>4. ASSUME NEW i \in Slots, Mint(i) \/ Regenerate(i) \/ Schedule(i) PROVE PastLooked'
  <2>1. settings' = settings /\ past' = past
    BY <1>4 DEF Mint, Regenerate, Schedule
  <2>2. Rest(i) /\ go'[i].pc \in {"none", "plan", "sleep"}
    BY <1>4, <1>t, MintEffect, RegenerateEffect, ScheduleEffect DEF Planner
  <2>3. QED
    BY <1>e, <2>1, <2>2
<1>5. ASSUME NEW i \in Slots,
             \/ Cancelled(i) \/ Paused(i) \/ PausedRevived(i) \/ AllDriven(i) \/ Retires(i)
             \/ DiscardsRevived(i) \/ \E errs \in 0..1 : Discards(i, errs)
      PROVE  PastLooked'
  <2>1. Ends(i) /\ settings' = settings /\ past' = past
    BY <1>5 DEF Cancelled, Paused, PausedRevived, AllDriven, Retires, DiscardsRevived, Discards
  <2>2. QED
    BY <1>t, <1>e, <2>1, EndsEffect
<1>6. ASSUME NEW i \in Slots, Looks(i) PROVE PastLooked'
  <2>1. Covers(go[i].layer) /\ settings' = settings /\ past' = past
    BY <1>6 DEF Looks
  <2>2. QED
    BY <1>6, <1>t, <1>l, <2>1, LooksEffect
<1>7. ASSUME NEW i \in Slots, Takes(i) PROVE PastLooked'
  <2>1. Committed(i) /\ settings' = settings /\ past' = past
    BY <1>7 DEF Takes
  <2>2. Moved(i, "begin", go[i].left, go[i].at)
    BY <1>7, <1>t, TakesEffect
  <2>3. QED
    BY <1>u, <2>1, <2>2 DEF Moved, Rest, Unseen
<1>8. ASSUME NEW i \in Slots, Rechecks(i) PROVE PastLooked'
  <2>1. Covers(go[i].layer) /\ settings' = settings /\ past' = past
    BY <1>8 DEF Rechecks
  <2>2. QED
    BY <1>8, <1>t, <1>l, <2>1, RechecksEffect
<1>9. ASSUME NEW i \in Slots, NextWave(i) \/ \E errs \in 0..1 : Marks(i, errs) PROVE PastLooked'
  <2>1. settings' = settings /\ past' = past
    BY <1>9 DEF NextWave, Marks
  <2>2. Rest(i) /\ go'[i].pc \in {"park", "recheck"}
    BY <1>9, <1>t, NextWaveEffect, MarksEffect DEF Moved
  <2>3. QED
    BY <1>e, <2>1, <2>2
<1>10. ASSUME NEW i \in Slots, NEW res \in {"ok", "fail"}, Finishes(i, res) PROVE PastLooked'
  <2>1. settings' = settings /\ past' = past
    BY <1>10 DEF Finishes
  <2>2. Rest(i) /\ go'[i].pc \in {"sleep", "none"}
    BY <1>10, <1>t, FinishesEffect DEF Moved
  <2>3. QED
    BY <1>e, <2>1, <2>2
<1>11. ASSUME NEW i \in Slots, SkipsRevived(i) \/ FinishesRevived(i) PROVE PastLooked'
  <2>1. Advanced(i) /\ settings' = settings /\ past' = past
    BY <1>11 DEF SkipsRevived, FinishesRevived
  <2>2. QED
    BY <1>t, <1>e, <2>1, AdvancedEffect DEF Moved
<1>12. ASSUME NEW archived \in BOOLEAN, ReconcilePass(archived) PROVE PastLooked'
  <2>1. settings' = settings /\ past' = past
    BY <1>12 DEF ReconcilePass
  <2>2. QED
    BY <1>12, <1>t, <1>u, <2>1, ReconcileEffect DEF Unseen
<1>13. CASE ReconcileOff \/ UNCHANGED vars
  BY <1>u, <1>13 DEF ReconcileOff, vars, Unseen
<1>14. ASSUME NEW hangover \in SUBSET Cycles, Restart(hangover) PROVE PastLooked'
  <2>1. \A i \in Slots : go'[i].pc \in {"none", "gate"}
    BY <1>14, <1>t, RestartEffect
  <2>2. QED
    BY <2>1 DEF PastLooked
<1>15. ASSUME NEW i \in Slots, DriverSteps(i) PROVE PastLooked'
  BY <1>b, <1>3, <1>4, <1>5, <1>6, <1>7, <1>8, <1>9, <1>10, <1>11, <1>15 DEF DriverSteps
<1>q. QED
  BY <1>1, <1>2, <1>12, <1>13, <1>14, <1>15 DEF Next

\* Only two steps start a fetch: L2's reads the depth, the other one's driver was
\* past its look when the layer was switched off.
LEMMA QuietStep ==
    ASSUME DrivesInv, PastLooked, [Next]_vars, NEW r \in Rows, fired'[r] # fired[r],
           ~Covers(layer[r[1]])
    PROVE  layer[r[1]] # "L2" /\ r \in past
<1>t. TypeOK /\ RowsOwned /\ fired \in [Rows -> 0..2]
  BY DEF DrivesInv, TypeOK
<1>1. ASSUME NEW i \in Slots, Fires(i) \/ FiresRevived(i)
      PROVE  layer[r[1]] # "L2" /\ r \in past
  <2>1. Begins(i) /\ Committed(i)
    BY <1>1 DEF Fires, FiresRevived, Committed
  <2>2. go[i].at = r
    BY <1>t, <1>1, FiresEffect
  <2>3. layer[r[1]] = go[i].layer
    BY <1>t, <2>1, <2>2, AtOwned
  <2>4. QED
    BY <2>1, <2>2, <2>3 DEF Begins, PastLooked
<1>2. \/ \E i \in Slots : Fires(i) \/ FiresRevived(i)
      \/ UNCHANGED fired
  <2>1. LoopSteps => UNCHANGED fired
    BY DEF LoopSteps, TearDown, LoopExits, Launch, FetchStarts, FetchEnds
  <2>2. ASSUME NEW i \in Slots, DriverSteps(i)
        PROVE  Fires(i) \/ FiresRevived(i) \/ UNCHANGED fired
    BY <2>2 DEF DriverSteps, FanOut, Mint, Regenerate, Schedule, Cancelled, Paused, Looks, Takes,
                Discards, Marks, Finishes, Retires, NextWave, PausedRevived, AllDriven,
                DiscardsRevived, Rechecks, SkipsRevived, FinishesRevived
  <2>3. (\E archived \in BOOLEAN : ReconcilePass(archived)) \/ ReconcileOff => UNCHANGED fired
    BY DEF ReconcilePass, ReconcileOff
  <2>4. (\E s \in Settings : Change(s)) \/ (\E hangover \in SUBSET Cycles : Restart(hangover))
          => UNCHANGED fired
    BY DEF Change, Restart
  <2>5. QED
    BY <2>1, <2>2, <2>3, <2>4 DEF Next, vars
<1>3. QED
  BY <1>1, <1>2

\* scheduler.go driveWaves, resumePendingWave and runL2Wave read the depth after
\* the sleep: while a layer is off no wave of it begins but those whose driver was
\* between that look and the fetch when it was switched off, and none of L2.
THEOREM OffLayersStayQuiet == Spec => OffIsQuiet
<1>1. Init => PastLooked
  BY GoneType DEF Init, PastLooked, Committed
<1>2. DrivesInv /\ PastLooked /\ [Next]_vars => PastLooked'
  BY PastStep
<1>3. DrivesInv /\ PastLooked /\ [Next]_vars =>
        [\A r \in Rows : fired'[r] # fired[r] /\ ~Covers(layer[r[1]])
           => layer[r[1]] # "L2" /\ r \in past]_vars
  BY QuietStep
<1>4. QED
  BY <1>1, <1>2, <1>3, DriversInvariance, PTL DEF Spec, OffIsQuiet

-----------------------------------------------------------------------------
(* One plan pending per layer, while the settings are left alone.           *)

\* A save is counted, and nothing else changes the settings.
LEMMA SavesCounted ==
    ASSUME TypeOK, [Next]_vars, budget'.changes = 0
    PROVE  /\ budget.changes = 0 /\ settings' = settings
           /\ \A s \in Settings : ~Change(s)
<1>1. budget \in Budgets
  BY DEF TypeOK
<1>2. ASSUME NEW s \in Settings, Change(s) PROVE FALSE
  <2>1. budget.changes \in Nat /\ budget' = [budget EXCEPT !.changes = budget.changes + 1]
    BY <1>1, <1>2 DEF Change, Budgets
  <2>2. budget'.changes = budget.changes + 1
    BY <1>1, <2>1 DEF Budgets
  <2>3. QED
    BY <2>1, <2>2
<1>3. LoopSteps => budget' = budget /\ settings' = settings
  BY DEF LoopSteps, TearDown, LoopExits, Launch, FetchStarts, FetchEnds
<1>4. ASSUME NEW i \in Slots, DriverSteps(i)
      PROVE  budget'.changes = budget.changes /\ settings' = settings
  BY <1>1, <1>4
     DEF Budgets, DriverSteps, FanOut, Mint, Regenerate, Schedule, Cancelled, Paused, Looks, Takes,
         Fires, Discards, Marks, Finishes, Retires, NextWave, PausedRevived, AllDriven,
         DiscardsRevived, Rechecks, FiresRevived, SkipsRevived, FinishesRevived
<1>5. (\E archived \in BOOLEAN : ReconcilePass(archived)) \/ ReconcileOff
        => budget' = budget /\ settings' = settings
  BY DEF ReconcilePass, ReconcileOff
<1>6. ASSUME NEW hangover \in SUBSET Cycles, Restart(hangover)
      PROVE  budget'.changes = budget.changes /\ settings' = settings
  BY <1>1, <1>6 DEF Restart, Budgets
<1>7. QED
  BY <1>2, <1>3, <1>4, <1>5, <1>6 DEF Next, vars


\* With the settings of the start no layer was turned on since the last pass.
LEMMA ReconcileIdle ==
    ASSUME TypeOK, StartSettings, budget.changes = 0, NEW archived, ReconcilePass(archived)
    PROVE  go' = go /\ seen' = [prev |-> Layers, seeded |-> TRUE]
<1> DEFINE turned == {l \in settings.depth \ seen.prev : seen.seeded /\ ~Active(l)}
<1>1. turned = {} /\ settings.depth = Layers
  BY DEF StartSettings
<1>2. PICK slot \in [turned -> Free] :
         go' = [i \in Slots |-> IF \E l \in turned : slot[l] = i
                       THEN Resumed(CHOOSE l \in turned : slot[l] = i, archived) ELSE go[i]]
  BY DEF ReconcilePass
<1> HIDE DEF turned
<1>3. go' = [i \in Slots |-> go[i]]
  BY <1>1, <1>2
<1>4. go \in [Slots -> Goroutine]
  BY DEF TypeOK
<1>5. go' = go
  BY <1>3, <1>4
<1>6. QED
  BY <1>1, <1>5 DEF ReconcilePass

\* A round's first goroutine has the context of its loop.
LEMMA FetchEndsShape ==
    ASSUME TypeOK, NEW posts \in BOOLEAN, FetchEnds(posts)
    PROVE  \E j \in Slots : /\ go'[j].pc = "fan" /\ Rest(j)
                            /\ go'[j].ctx = IF loop.live THEN "bucket" ELSE "done"
<1> DEFINE fan == G("fan", "", 0, {}, IF loop.live THEN "bucket" ELSE "done", posts)
<1>1. PICK j \in Slots : go' = [go EXCEPT ![j] = fan]
  BY DEF FetchEnds, Slot, Free
<1>2. fan.pc = "fan" /\ fan.ctx = IF loop.live THEN "bucket" ELSE "done"
  BY DEF G
<1> HIDE DEF fan
<1>3. go'[j] = fan /\ Rest(j)
  BY <1>1 DEF TypeOK, Rest
<1>4. QED
  BY <1>2, <1>3

\* The fan-out becomes L2's planner, or ends, and starts one goroutine at most.
LEMMA FanOutShape ==
    ASSUME TypeOK, NEW i \in Slots, FanOut(i)
    PROVE  /\ go[i].pc = "fan" /\ loop' = loop
           /\ \/ go'[i].pc = "none" /\ OpensNone
              \/ /\ Planner(go'[i], "L2") /\ go'[i].ctx = go[i].ctx
                 /\ Opens("L2") /\ Room
           /\ \E j \in Slots :
                 /\ \A k \in Slots \ {i, j} : go'[k] = go[k]
                 /\ j # i => /\ go'[j].pc = "mint" /\ go'[j].layer = "L3"
                             /\ go'[j].ctx = go[i].ctx
<1> DEFINE l2   == Covers("L2") /\ go[i].posts /\ Room
           mine == IF l2 THEN Planning(go[i], "L2") ELSE Gone
           child == G("mint", "L3", 0, {}, go[i].ctx, go[i].posts)
<1>1. go \in [Slots -> Goroutine]
  BY DEF TypeOK
<1>2. go[i].pc = "fan" /\ loop' = loop /\ IF l2 THEN Opens("L2") ELSE OpensNone
  BY DEF FanOut
<1>3. \/ go' = [go EXCEPT ![i] = mine]
      \/ \E j \in Slots : j # i /\ go' = [go EXCEPT ![i] = mine, ![j] = child]
  BY <1>2 DEF FanOut, Slot, Free
<1>4. child.pc = "mint" /\ child.layer = "L3" /\ child.ctx = go[i].ctx
  BY DEF G
<1>5. IF l2 THEN Planner(mine, "L2") /\ mine.ctx = go[i].ctx ELSE mine.pc = "none"
  BY GoneType DEF G, Planner, Planning
<1>6. l2 => Room
  OBVIOUS
<1> HIDE DEF mine, child, l2
<1>7. go'[i] = mine
  BY <1>1, <1>3
<1>8. \E j \in Slots : /\ \A k \in Slots \ {i, j} : go'[k] = go[k]
                       /\ j # i => go'[j] = child
  BY <1>1, <1>3
<1>9. QED
  BY <1>2, <1>4, <1>5, <1>6, <1>7, <1>8

\* L3's goroutine becomes its planner, or ends.
LEMMA MintShape ==
    ASSUME TypeOK, NEW i \in Slots, Mint(i)
    PROVE  /\ go[i].pc = "mint" /\ loop' = loop /\ rows' = Superseded("L3") /\ Rest(i)
           /\ \/ go'[i].pc = "none" /\ OpensNone
              \/ /\ Planner(go'[i], "L3") /\ go'[i].ctx = go[i].ctx
                 /\ Opens("L3") /\ Room
<1>1. go \in [Slots -> Goroutine]
  BY DEF TypeOK
<1>2. \/ Opens("L3") /\ Room /\ go' = [go EXCEPT ![i] = Planning(go[i], "L3")]
      \/ OpensNone /\ go' = [go EXCEPT ![i] = Gone]
  BY DEF Mint
<1>3. Planner(Planning(go[i], "L3"), "L3") /\ Planning(go[i], "L3").ctx = go[i].ctx
  BY DEF G, Planner, Planning
<1>4. QED
  BY <1>1, <1>2, <1>3, GoneType DEF Rest, Mint

\* No row becomes pending, and the written ones keep their layer.
Shrinks == \A r \in Rows : rows'[r] = "pending" =>
    rows[r] = "pending" /\ layer'[r[1]] = layer[r[1]]

\* Nobody starts to plan, and those who plan go on in the same round.
Calm ==
    /\ Shrinks
    /\ \A i \in Slots : go'[i] = go[i] \/ go'[i].pc \notin Planners \union {"regen"}
    /\ loop'.pc = loop.pc \/ \A i \in Slots : go'[i].pc \notin Planners

\* Such a step leaves the plans as they are.
LEMMA CalmPlans ==
    ASSUME TypeOK, Calm, budget.changes = 0, RoundPlans
    PROVE  RoundPlans'
<1>1. \A l : \A r \in Rows : rows'[r] = "pending" /\ layer'[r[1]] = l
                               => rows[r] = "pending" /\ layer[r[1]] = l
  BY DEF Calm, Shrinks
<1>2. \A l : Pending(l)' \subseteq Pending(l)
  BY <1>1 DEF Pending
<1>3. \A i \in Slots : go'[i].pc \in Planners => go'[i] = go[i]
  BY DEF Calm
<1>4. \A i \in Slots : go'[i].pc \in Planners => loop'.pc = loop.pc
  BY DEF Calm
<1>5. QED
  BY <1>2, <1>3, <1>4 DEF RoundPlans, Planners

\* The steps of a driver that has its plan.
LEMMA DriversCalm ==
    ASSUME DrivesInv, NEW i \in Slots,
           \/ Cancelled(i) \/ Paused(i) \/ Looks(i) \/ Takes(i) \/ Fires(i)
           \/ \E errs \in 0..1 : Discards(i, errs) \/ Marks(i, errs)
           \/ \E res \in {"ok", "fail"} : Finishes(i, res)
           \/ Retires(i) \/ NextWave(i) \/ PausedRevived(i) \/ AllDriven(i)
           \/ DiscardsRevived(i) \/ Rechecks(i) \/ SkipsRevived(i)
           \/ FiresRevived(i) \/ FinishesRevived(i)
    PROVE  Calm /\ loop' = loop /\ seen' = seen
<1> USE DEF Planners, Live, Revived, Before
<1>t. TypeOK /\ rows \in [Rows -> Status] /\ \A j \in Slots : go[j].left \in SUBSET Rows
  BY Fields DEF DrivesInv, TypeOK
<1>o. RowsOwned
  BY DEF DrivesInv
<1>e. ASSUME Shrinks, loop' = loop, Rest(i), go'[i].pc \notin Planners \union {"regen"}
      PROVE  Calm
  BY <1>e DEF Calm, Rest
<1>1. CASE Cancelled(i) \/ Paused(i) \/ PausedRevived(i) \/ AllDriven(i) \/ DiscardsRevived(i)
  <2>1. Ends(i) /\ UNCHANGED <<loop, rows, layer, seen>>
    BY <1>1 DEF Cancelled, Paused, PausedRevived, AllDriven, DiscardsRevived
  <2>2. QED
    BY <1>t, <1>e, <2>1, EndsEffect DEF Shrinks
<1>2. CASE Looks(i) \/ Takes(i) \/ Rechecks(i)
  <2>1. go'[i].pc \in {"mark", "begin", "beginRevived"} /\ Rest(i)
    BY <1>2, <1>t, <1>o, LooksEffect, TakesEffect, RechecksEffect DEF Moved
  <2>2. Shrinks /\ loop' = loop /\ seen' = seen
    BY <1>t, <1>2 DEF Looks, Takes, Rechecks, Shrinks
  <2>3. QED
    BY <1>e, <2>1, <2>2
<1>3. ASSUME NEW errs \in 0..1, Discards(i, errs) PROVE Calm /\ loop' = loop /\ seen' = seen
  <2>1. Ends(i) /\ UNCHANGED <<loop, rows, layer, seen>>
    BY <1>3 DEF Discards
  <2>2. QED
    BY <1>t, <1>e, <2>1, EndsEffect DEF Shrinks
<1>4. ASSUME NEW errs \in 0..1, Marks(i, errs) PROVE Calm /\ loop' = loop /\ seen' = seen
  <2>1. go'[i].pc = "recheck" /\ Rest(i)
    BY <1>t, <1>4, MarksEffect DEF Moved
  <2>2. Shrinks /\ loop' = loop /\ seen' = seen
    BY <1>t, <1>4 DEF Marks, Shrinks
  <2>3. QED
    BY <1>e, <2>1, <2>2
<1>5. ASSUME NEW res \in {"ok", "fail"}, Finishes(i, res)
      PROVE  Calm /\ loop' = loop /\ seen' = seen
  <2>1. go'[i].pc \in {"sleep", "none"} /\ Rest(i)
    BY <1>t, <1>5, FinishesEffect DEF Moved
  <2>2. Shrinks /\ loop' = loop /\ seen' = seen
    BY <1>t, <1>5 DEF Finishes, Shrinks
  <2>3. QED
    BY <1>e, <2>1, <2>2
<1>6. CASE Retires(i)
  <2>1. go'[i].pc = "none" /\ Rest(i)
    BY <1>t, <1>6, EndsEffect DEF Retires
  <2>2. Shrinks /\ loop' = loop /\ seen' = seen
    BY <1>6 DEF Retires, Shrinks
  <2>3. QED
    BY <1>e, <2>1, <2>2
<1>7. CASE NextWave(i)
  <2>1. go'[i].pc = "park" /\ Rest(i)
    BY <1>t, <1>7, NextWaveEffect DEF Moved
  <2>2. Shrinks /\ loop' = loop /\ seen' = seen
    BY <1>7 DEF NextWave, Shrinks
  <2>3. QED
    BY <1>e, <2>1, <2>2
<1>8. CASE Fires(i) \/ FiresRevived(i)
  <2>1. go'[i].pc \in {"run", "runRevived"} /\ Rest(i)
    BY <1>8, <1>t, <1>o, FiresEffect DEF Moved
  <2>2. Shrinks /\ loop' = loop /\ seen' = seen
    BY <1>8 DEF Fires, FiresRevived, Shrinks
  <2>3. QED
    BY <1>e, <2>1, <2>2
<1>9. CASE SkipsRevived(i) \/ FinishesRevived(i)
  <2>1. Advanced(i)
    BY <1>9 DEF SkipsRevived, FinishesRevived
  <2>2. go'[i].pc = "next" /\ Rest(i)
    BY <1>t, <2>1, AdvancedEffect DEF Moved
  <2>3. Shrinks /\ loop' = loop /\ seen' = seen
    BY <1>t, <1>9 DEF SkipsRevived, FinishesRevived, Shrinks
  <2>4. QED
    BY <1>e, <2>2, <2>3
<1>q. QED
  BY <1>1, <1>2, <1>3, <1>4, <1>5, <1>6, <1>7, <1>8, <1>9


\* The round's own steps: the fan-out, L3's planner, the rows of a plan.
LEMMA FanOutPlans ==
    ASSUME DrivesInv, RoundPlans, budget.changes = 0, NEW i \in Slots, FanOut(i)
    PROVE  RoundPlans' /\ Shrinks
<1> USE DEF Planners
<1>1. TypeOK /\ RowsPlanned
  BY DEF DrivesInv
<1>2. PICK j \in Slots :
         /\ \A k \in Slots \ {i, j} : go'[k] = go[k]
         /\ j # i => go'[j].pc = "mint" /\ go'[j].layer = "L3" /\ go'[j].ctx = go[i].ctx
  BY <1>1, FanOutShape
<1>3. /\ go[i].pc = "fan" /\ loop' = loop
      /\ \/ go'[i].pc = "none" /\ OpensNone
         \/ /\ Planner(go'[i], "L2") /\ go'[i].ctx = go[i].ctx
            /\ Opens("L2") /\ Room
  BY <1>1, FanOutShape
<1>4. \A k \in Slots \ {i} : go[k].pc \notin Planners
  BY <1>3 DEF RoundPlans
<1>5. go[i].ctx = "bucket" /\ loop.pc = "wait" /\ Pending("L2") = {}
  BY <1>3 DEF RoundPlans
<1>6. \A r \in Rows : rows'[r] = "pending" => rows[r] = "pending"
  BY <1>1, FanOutEffect, SupersededEffect
<1>7. Shrinks
  BY <1>1, <1>3, <1>6, OpensEffect DEF OpensNone, Shrinks
<1>8. Pending("L2")' = {}
  BY <1>5, <1>7 DEF Shrinks, Pending
<1>9. \A k \in Slots : go'[k].pc \in Planners =>
         \/ k = i /\ go'[k].pc = "plan" /\ go'[k].layer = "L2" /\ go'[k].ctx = "bucket"
         \/ k = j /\ k # i /\ go'[k].pc = "mint" /\ go'[k].layer = "L3" /\ go'[k].ctx = "bucket"
  BY <1>2, <1>3, <1>4, <1>5 DEF Planner
<1>10. QED
  BY <1>3, <1>5, <1>7, <1>8, <1>9 DEF RoundPlans

LEMMA MintPlans ==
    ASSUME DrivesInv, RoundPlans, budget.changes = 0, NEW i \in Slots, Mint(i)
    PROVE  RoundPlans' /\ Shrinks
<1> USE DEF Planners
<1>1. TypeOK /\ RowsPlanned
  BY DEF DrivesInv
<1>2. /\ go[i].pc = "mint" /\ loop' = loop /\ rows' = Superseded("L3") /\ Rest(i)
      /\ \/ go'[i].pc = "none" /\ OpensNone
         \/ /\ Planner(go'[i], "L3") /\ go'[i].ctx = go[i].ctx
            /\ Opens("L3") /\ Room
  BY <1>1, MintShape
<1>3. go[i].layer = "L3" /\ go[i].ctx = "bucket" /\ loop.pc = "wait"
  BY <1>2 DEF RoundPlans
<1>4. \A r \in Rows : rows'[r] = "pending" => rows[r] = "pending" /\ layer[r[1]] # "L3"
  BY <1>1, <1>2, SupersededEffect
<1>5. Shrinks
  BY <1>1, <1>2, <1>4, OpensEffect DEF OpensNone, Shrinks
<1>6. \A l : Pending(l)' \subseteq Pending(l)
  BY <1>5 DEF Shrinks, Pending
<1>7. Pending("L3")' = {}
  BY <1>4, <1>5 DEF Shrinks, Pending
<1>8. go'[i].pc \in Planners => go'[i].pc = "plan" /\ go'[i].layer = "L3" /\ go'[i].ctx = "bucket"
  BY <1>2, <1>3 DEF Planner
<1>9. QED
  BY <1>2, <1>3, <1>5, <1>6, <1>7, <1>8 DEF RoundPlans, Rest

LEMMA SchedulePlans ==
    ASSUME DrivesInv, RoundPlans, OnePlan, budget.changes = 0, NEW i \in Slots, Schedule(i)
    PROVE  RoundPlans' /\ OnePlan'
<1> USE DEF Planners
<1>1. TypeOK /\ RowsPlanned /\ rows \in [Rows -> Status]
  BY DEF DrivesInv, TypeOK
<1>2. PICK r \in Rows :
         /\ r[1] = go[i].cycle /\ r \notin go[i].left
         /\ rows' = [rows EXCEPT ![r] = "pending"]
         /\ go'[i].pc \in {"plan", "sleep"} /\ go'[i].left = go[i].left \union {r}
         /\ go'[i].layer = go[i].layer /\ go'[i].cycle = go[i].cycle
         /\ go'[i].ctx = go[i].ctx
         /\ Rest(i)
  BY <1>1, ScheduleEffect
<1>3. go[i].pc = "plan" /\ UNCHANGED <<loop, layer, budget>>
  BY DEF Schedule
<1>4. layer[r[1]] = go[i].layer
  BY <1>1, <1>2, <1>3 DEF RowsPlanned
<1>5. \A q \in Rows : rows'[q] = "pending" => q = r \/ rows[q] = "pending"
  BY <1>1, <1>2
<1>6. \A q \in Rows : rows[q] = "pending" /\ layer[q[1]] = go[i].layer => q[1] = r[1]
  BY <1>2, <1>3 DEF RoundPlans, Pending
<1>7. OnePlan'
  BY <1>3, <1>4, <1>5, <1>6 DEF OnePlan
<1>8. \A l : l # go[i].layer => Pending(l)' \subseteq Pending(l)
  BY <1>3, <1>4, <1>5 DEF Pending
<1>9. \A q \in Pending(go[i].layer)' : q[1] = go[i].cycle
  BY <1>2, <1>3, <1>4, <1>5, <1>6 DEF Pending
<1>10. \A k \in Slots \ {i} : go[k].pc \in Planners => go[k].pc # "fan" /\ go[k].layer # go[i].layer
  BY <1>3 DEF RoundPlans
<1>11. QED
  BY <1>2, <1>3, <1>7, <1>8, <1>9, <1>10 DEF RoundPlans, Rest

\* The round before has planned when the next one is due, and a round that opens
\* finds no L2 row pending.
LEMMA FetchEndsPlans ==
    ASSUME DrivesInv, StartSettings, RoundPlans, budget.changes = 0,
           NEW posts \in BOOLEAN, FetchEnds(posts)
    PROVE  RoundPlans' /\ Shrinks
<1> USE DEF Planners
<1>1. TypeOK /\ loop \in Loops
  BY DEF DrivesInv, TypeOK
<1>2. loop.pc = "fetch" /\ loop.live
  BY DEF FetchEnds, StartSettings
<1>3. \A i \in Slots : go[i].pc \notin Planners
  BY <1>2 DEF RoundPlans
<1>4. PICK j \in Slots : go'[j].pc = "fan" /\ Rest(j) /\ go'[j].ctx = "bucket"
  BY <1>1, <1>2, FetchEndsShape
<1>5. loop'.pc = "wait" /\ rows' = Superseded("L2") /\ layer' = layer
  BY <1>1 DEF FetchEnds, Loops
<1>6. Shrinks /\ Pending("L2")' = {}
  BY <1>1, <1>5, SupersededEffect DEF Shrinks, Pending
<1>7. \A k \in Slots : go'[k].pc \in Planners => k = j
  BY <1>3, <1>4 DEF Rest
<1>8. QED
  BY <1>4, <1>5, <1>6, <1>7 DEF RoundPlans

\* The steps that neither plan nor drive.
LEMMA OthersCalm ==
    ASSUME DrivesInv, StartSettings, RoundPlans, budget.changes = 0,
           \/ LoopExits \/ Launch \/ FetchStarts
           \/ \E archived \in BOOLEAN : ReconcilePass(archived)
           \/ ReconcileOff
           \/ \E hangover \in SUBSET Cycles : Restart(hangover)
           \/ UNCHANGED vars
    PROVE  Calm
<1> USE DEF Planners
<1>t. TypeOK /\ rows \in [Rows -> Status] /\ loop \in Loops
  BY DEF DrivesInv, TypeOK
<1>1. CASE LoopExits
  BY <1>1 DEF LoopExits, StartSettings
<1>2. CASE Launch
  <2>1. \A i \in Slots : go[i].pc \notin Planners
    BY <1>2 DEF Launch, RoundPlans
  <2>2. QED
    BY <1>2, <2>1 DEF Launch, Calm, Shrinks
<1>3. CASE FetchStarts
  <2>1. \A i \in Slots : go[i].pc \notin Planners
    BY <1>3 DEF FetchStarts, RoundPlans
  <2>2. QED
    BY <1>3, <2>1 DEF FetchStarts, Calm, Shrinks
<1>4. ASSUME NEW archived \in BOOLEAN, ReconcilePass(archived) PROVE Calm
  <2>1. go' = go
    BY <1>4, <1>t, ReconcileIdle
  <2>2. UNCHANGED <<loop, rows, layer>>
    BY <1>4 DEF ReconcilePass
  <2>3. QED
    BY <2>1, <2>2 DEF Calm, Shrinks
<1>5. CASE ReconcileOff
  BY <1>5 DEF ReconcileOff, Calm, Shrinks
<1>6. ASSUME NEW hangover \in SUBSET Cycles, Restart(hangover) PROVE Calm
  <2>1. \A i \in Slots : go'[i].pc \in {"none", "gate"}
    BY <1>6, <1>t, RestartEffect
  <2>2. Shrinks
    BY <1>6, <1>t DEF Restart, AfterCrash, Shrinks
  <2>3. QED
    BY <2>1, <2>2 DEF Calm
<1>7. CASE UNCHANGED vars
  BY <1>7 DEF vars, Calm, Shrinks
<1>q. QED
  BY <1>1, <1>2, <1>3, <1>4, <1>5, <1>6, <1>7

\* While nothing is saved, a step is one of the round's own or a calm one.
LEMMA PlansStep ==
    ASSUME PlansInv, [Next]_vars, budget'.changes = 0
    PROVE  RoundPlans' /\ OnePlan'
<1>1. DrivesInv /\ StartSettings /\ RoundPlans /\ OnePlan /\ TypeOK
  BY DEF PlansInv, DrivesInv
<1>2. budget.changes = 0 /\ settings' = settings /\ \A s \in Settings : ~Change(s)
  BY <1>1, SavesCounted
<1>3. Shrinks => OnePlan'
  BY <1>1, <1>2 DEF Shrinks, OnePlan
<1>4. Calm => RoundPlans' /\ OnePlan'
  BY <1>1, <1>2, <1>3, CalmPlans DEF Calm
<1>5. ~TearDown
  BY <1>1, <1>2 DEF TearDown, StartSettings
<1>6. ASSUME NEW i \in Slots, Regenerate(i) PROVE FALSE
  BY <1>1, <1>2, <1>6 DEF Regenerate, StartSettings
<1>7. LoopSteps => RoundPlans' /\ OnePlan'
  <2>1. ASSUME NEW posts \in BOOLEAN, FetchEnds(posts) PROVE RoundPlans' /\ OnePlan'
    BY <1>1, <1>2, <1>3, <2>1, FetchEndsPlans
  <2>2. LoopExits \/ Launch \/ FetchStarts => RoundPlans' /\ OnePlan'
    BY <1>1, <1>2, <1>4, OthersCalm
  <2>3. QED
    BY <1>5, <2>1, <2>2 DEF LoopSteps
<1>8. ASSUME NEW i \in Slots, DriverSteps(i)
      PROVE  RoundPlans' /\ OnePlan'
  <2>1. FanOut(i) \/ Mint(i) \/ Schedule(i) => RoundPlans' /\ OnePlan'
    BY <1>1, <1>2, <1>3, FanOutPlans, MintPlans, SchedulePlans
  <2>2. FanOut(i) \/ Mint(i) \/ Schedule(i) \/ Calm
    BY <1>1, <1>6, <1>8, DriversCalm DEF DriverSteps
  <2>3. QED
    BY <1>4, <2>1, <2>2
<1>9. ASSUME \/ \E archived \in BOOLEAN : ReconcilePass(archived)
             \/ ReconcileOff
             \/ \E hangover \in SUBSET Cycles : Restart(hangover)
             \/ UNCHANGED vars
      PROVE  RoundPlans' /\ OnePlan'
  BY <1>1, <1>2, <1>4, <1>9, OthersCalm
<1>10. QED
  BY <1>2, <1>7, <1>8, <1>9 DEF Next

\* The settings of the start, and what follows from them alone.
LEMMA StartStep ==
    ASSUME PlansInv, [Next]_vars, budget'.changes = 0
    PROVE  StartSettings'
<1>1. DrivesInv /\ StartSettings /\ RoundPlans /\ TypeOK /\ loop \in Loops
  BY DEF PlansInv, DrivesInv, TypeOK
<1>2. budget.changes = 0 /\ settings' = settings /\ \A s \in Settings : ~Change(s)
  BY <1>1, SavesCounted
<1>3. settings.listed /\ settings.depth = Layers /\ \A i \in Slots : go[i].pc # "regen"
  BY <1>1, <1>2 DEF StartSettings
<1>d. ASSUME loop' = loop, seen' = seen, \A i \in Slots : go'[i].pc # "regen"
      PROVE  StartSettings'
  BY <1>1, <1>2, <1>3, <1>d DEF StartSettings
<1>4. ~TearDown /\ ~LoopExits /\ ~ReconcileOff /\ \A i \in Slots : ~Regenerate(i)
  BY <1>1, <1>2, <1>3 DEF TearDown, LoopExits, ReconcileOff, Regenerate, StartSettings
<1>5. CASE Launch
  BY <1>1, <1>2, <1>3, <1>5 DEF Launch, StartSettings
<1>6. CASE FetchStarts
  BY <1>1, <1>2, <1>3, <1>6 DEF FetchStarts, StartSettings, Loops
<1>7. ASSUME NEW posts \in BOOLEAN, FetchEnds(posts) PROVE StartSettings'
  <2>1. \A i \in Slots : go'[i].pc # "regen"
    BY <1>1, <1>3, <1>7, FetchEndsShape DEF Rest
  <2>2. loop' = [loop EXCEPT !.pc = "wait"] /\ loop.live /\ seen' = seen
    BY <1>1, <1>2, <1>7 DEF FetchEnds, StartSettings
  <2>3. QED
    BY <1>1, <1>2, <1>3, <2>1, <2>2 DEF StartSettings, Loops
<1>8. ASSUME NEW i \in Slots, FanOut(i) PROVE StartSettings'
  <2>1. \A k \in Slots : go'[k].pc # "regen"
    BY <1>1, <1>3, <1>8, FanOutShape DEF Planner
  <2>2. QED
    BY <1>8, <1>d, <2>1 DEF FanOut
<1>9. ASSUME NEW i \in Slots, Mint(i) PROVE StartSettings'
  <2>1. \A k \in Slots : go'[k].pc # "regen"
    BY <1>1, <1>3, <1>9, MintShape DEF Planner, Rest
  <2>2. QED
    BY <1>9, <1>d, <2>1 DEF Mint
<1>10. ASSUME NEW i \in Slots, Schedule(i) PROVE StartSettings'
  <2>1. \A k \in Slots : go'[k].pc # "regen"
    BY <1>1, <1>3, <1>10, ScheduleEffect DEF DrivesInv, Rest
  <2>2. QED
    BY <1>10, <1>d, <2>1 DEF Schedule
<1>11. ASSUME NEW archived \in BOOLEAN, ReconcilePass(archived) PROVE StartSettings'
  <2>1. go' = go /\ seen' = [prev |-> Layers, seeded |-> TRUE]
    BY <1>1, <1>2, <1>11, ReconcileIdle
  <2>2. QED
    BY <1>1, <1>2, <1>3, <1>11, <2>1 DEF ReconcilePass, StartSettings
<1>12. ASSUME NEW hangover \in SUBSET Cycles, Restart(hangover) PROVE StartSettings'
  <2>1. \A i \in Slots : go'[i].pc # "regen"
    BY <1>1, <1>12, RestartEffect
  <2>2. QED
    BY <1>2, <1>3, <1>12, <2>1 DEF Restart, StartSettings
<1>13. CASE UNCHANGED vars
  BY <1>d, <1>3, <1>13 DEF vars
<1>14. ASSUME Calm, loop' = loop, seen' = seen PROVE StartSettings'
  BY <1>3, <1>d, <1>14 DEF Calm
<1>15. ASSUME NEW i \in Slots, DriverSteps(i) PROVE StartSettings'
  <2>1. \/ FanOut(i) \/ Mint(i) \/ Schedule(i)
        \/ Calm /\ loop' = loop /\ seen' = seen
    BY <1>1, <1>4, <1>15, DriversCalm DEF DriverSteps
  <2>2. QED
    BY <1>8, <1>9, <1>10, <1>14, <2>1
<1>q. QED
  BY <1>2, <1>4, <1>5, <1>6, <1>7, <1>11, <1>12, <1>13, <1>15 DEF Next, LoopSteps

\* The invariant of the plans, in every state.
THEOREM PlansInvariance == Spec => []PlansInv
<1>1. Init => StartSettings /\ RoundPlans /\ OnePlan
  <2> SUFFICES ASSUME Init PROVE StartSettings /\ RoundPlans /\ OnePlan
    OBVIOUS
  <2>1. \A i \in Slots : go[i].pc = "none"
    BY GoneType DEF Init
  <2>2. QED
    BY <2>1 DEF Init, StartSettings, RoundPlans, OnePlan, Planners, Pending
<1>2. PlansInv /\ [Next]_vars => StartSettings' /\ RoundPlans' /\ OnePlan'
  <2> SUFFICES ASSUME PlansInv, [Next]_vars PROVE StartSettings' /\ RoundPlans' /\ OnePlan'
    OBVIOUS
  <2>1. CASE budget'.changes = 0
    BY <2>1, PlansStep, StartStep
  <2>2. CASE budget'.changes # 0
    BY <2>2 DEF StartSettings, RoundPlans, OnePlan
  <2>3. QED
    BY <2>1, <2>2
<1>3. QED
  BY <1>1, <1>2, DriversInvariance, PTL DEF Spec, PlansInv

\* scheduler.go runL2Cycle, runL3Cycle and SupersedePending: while the settings
\* are left alone a layer never has two plans pending, over restarts too.
THEOREM OnePlanPending == Spec => []OnePlan
<1>1. PlansInv => OnePlan
  BY DEF PlansInv
<1>2. QED
  BY <1>1, PlansInvariance, PTL
=============================================================================
