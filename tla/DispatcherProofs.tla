-------------------------- MODULE DispatcherProofs --------------------------
(***************************************************************************)
(* The invariant IInv of Dispatcher is inductive. One lemma per action     *)
(* shows that the action keeps it, with one step per conjunct; the         *)
(* functions that the loop runs are taken together, through what they may  *)
(* leave behind (Outcome, RunsKeeps).                                      *)
(***************************************************************************)
EXTENDS Dispatcher, TLAPS

\* The fields of items and of waves, the types of the variables one by one.

LEMMA Fields ==
    ASSUME NEW i \in Items
    PROVE  /\ i.by \in Workers \union {Nobody} /\ i.job \in Jobs
           /\ i.owned \in BOOLEAN
BY DEF Items

LEMMA EmptyItem == /\ Empty \in Items /\ Empty.by = Nobody /\ ~Empty.owned
                   /\ \A w \in Workers : Empty.by # w /\ ~Holds(Empty, w)
BY KindAssumption DEF Empty, Items, Jobs, Thread, Holds

LEMMA Parts ==
    ASSUME TypeOK
    PROVE  /\ root \in BOOLEAN /\ cancelled \in [Workers -> BOOLEAN]
           /\ queue \in Items /\ item \in Items /\ phase \in Phases
           /\ at \in [Workers -> Stages] /\ job \in [Workers -> Jobs]
           /\ closed \in [Workers -> BOOLEAN] /\ got \in [Workers -> Results]
           /\ page \in [L1s -> Pages] /\ saved \in [L1s -> Pages]
           /\ walked \in [L1s -> SUBSET (Pages \X BOOLEAN)] /\ wave \in [L2s -> Waves]
           /\ cached \in SUBSET Images /\ fetching \in SUBSET Images
           /\ known \in SUBSET Pasted /\ mediaDone \in BOOLEAN
BY DEF TypeOK

\* What each kind of worker asks for is apt, and is a job.
LEMMA Apts ==
    ASSUME NEW w \in Workers
    PROVE  /\ \A p \in Pages : Kind[w] = "L1" => Apt(w, Listing(p))
           /\ \A i \in Images : Kind[w] = "L2" => Apt(w, Image(i))
           /\ \A j : Kind[w] \in {"L3", "L4"} => Apt(w, j)
<1>1. ASSUME NEW p \in Pages, Kind[w] = "L1" PROVE Apt(w, Listing(p))
  BY <1>1 DEF Apt, L1s, L2s
<1>2. ASSUME NEW i \in Images, Kind[w] = "L2" PROVE Apt(w, Image(i))
  BY <1>2 DEF Apt, L1s, L2s
<1>3. ASSUME NEW j, Kind[w] \in {"L3", "L4"} PROVE Apt(w, j)
  BY <1>3 DEF Apt, L1s, L2s
<1>. QED
  BY <1>1, <1>2, <1>3

LEMMA JobTypes ==
    /\ \A p \in Pages : Listing(p) \in Jobs /\ Listing(p)[2] = p
    /\ \A i \in Images : Image(i) \in Jobs /\ Image(i)[2] = i
    /\ Thread \in Jobs /\ About \in Jobs /\ IconFile \in Jobs
BY DEF Jobs, Listing, Image

LEMMA WaveFields ==
    ASSUME NEW v \in Waves
    PROVE  /\ v.todo \in SUBSET Images /\ v.frozen \in SUBSET Images
           /\ v.ok \in BOOLEAN /\ v.late \in BOOLEAN
           /\ \A s, f \in SUBSET Images, o, l \in BOOLEAN :
                 [todo |-> s, frozen |-> f, ok |-> o, late |-> l] \in Waves
BY DEF Waves

LEMMA Counts ==
    ASSUME TypeOK
    PROVE  /\ n.visits \in Nat /\ n.cancels \in Nat /\ n.stops \in Nat /\ n.evictions \in Nat
           /\ left \in Nat /\ left <= Cap /\ Cap \in Nat
           /\ [n EXCEPT !.visits = @ + 1] \in [visits : Nat, cancels : Nat, stops : Nat, evictions : Nat]
           /\ [n EXCEPT !.cancels = @ + 1] \in [visits : Nat, cancels : Nat, stops : Nat, evictions : Nat]
           /\ [n EXCEPT !.stops = @ + 1] \in [visits : Nat, cancels : Nat, stops : Nat, evictions : Nat]
           /\ [n EXCEPT !.evictions = @ + 1] \in [visits : Nat, cancels : Nat, stops : Nat, evictions : Nat]
BY BudgetAssumption DEF TypeOK

-----------------------------------------------------------------------------
\* One lemma per action.

LEMMA Sends ==
    ASSUME IInv, NEW w \in Workers, Send(w)
    PROVE  IInv'
<1>. USE EmptyItem, KindAssumption DEF IInv
<1>a. /\ queue' \in Items /\ queue'.by = w /\ queue'.job = job[w] /\ queue'.owned
      /\ ~Holds(queue, w) /\ queue.by = Nobody
  BY Parts DEF Send, Items
<1>b. /\ at[w] = "sending" /\ at' = [at EXCEPT ![w] = "waiting"]
      /\ UNCHANGED <<root, cancelled, phase, item, job, closed, got, page, saved, walked,
                     wave, cached, fetching, known, mediaDone, n, icon, token, left,
                     busy>>
  BY DEF Send, ctx, channel, calls, walk, media, supply, Stands, Submits
<1>1. TypeOK'
  BY <1>a, <1>b, Parts DEF TypeOK, Stages
<1>2. OwnersAgree'
  <2>1. ~closed[w] /\ ~Holds(item, w)
    BY <1>b DEF OwnersAgree, JobsAgree
  <2>. QED
    BY <1>a, <1>b, <2>1, Parts DEF OwnersAgree, Holds
<1>3. JobsAgree'
  BY Parts, Fields DEF JobsAgree, Holds, Out, Apt, L1s, L2s, Send, ctx, channel, calls, walk, media, supply, Stands, Submits
<1>4. WalkAgree'
  BY <1>a, <1>b, Parts DEF Passes, WalkAgree, Answers, Out, JobsAgree, L1s
<1>5. CursorBehind'
  BY Parts, Fields DEF Passes, CursorBehind, WalkAgree, Pages, L1s, Send, ctx, channel, calls, walk, media, supply, Stands, Submits
<1>6. WaveAgree'
  BY <1>a, <1>b, Parts DEF WaveAgree, Steady, Answers, Out, JobsAgree, L2s
<1>7. BodyArchived'
  BY Parts DEF BodyArchived, WaveAgree, Steady, Send, ctx, channel, calls, walk, media, supply, Stands, Submits
<1>. QED
  BY <1>1, <1>2, <1>3, <1>4, <1>5, <1>6, <1>7

LEMMA WakesKeeps ==
    ASSUME IInv, NEW w \in Workers, Wakes(w)
    PROVE  IInv'
<1>. USE EmptyItem, KindAssumption DEF IInv
<1>1. TypeOK'
  BY Parts, Fields DEF TypeOK, Items, Wakes, ctx, channel, calls, walk, media, supply, Stands, Submits, Stages, Phases, Results, Waves, NoWave, Jobs, Images, L1s, L2s
<1>2. OwnersAgree'
  BY Parts, Fields DEF OwnersAgree, Holds, Phases, Wakes, ctx, channel, calls, walk, media, supply, Stands, Submits
<1>3. JobsAgree'
  BY Parts, Fields DEF JobsAgree, Holds, Out, Apt, L1s, L2s, Wakes, ctx, channel, calls, walk, media, supply, Stands, Submits
<1>4. WalkAgree'
  BY Parts, Fields DEF Passes, WalkAgree, JobsAgree, OwnersAgree, Answers, Out, Holds, L1s, Wakes, ctx, channel, calls, walk, media, supply, Stands, Submits
<1>5. CursorBehind'
  BY Parts, Fields DEF Passes, CursorBehind, WalkAgree, Pages, L1s, Wakes, ctx, channel, calls, walk, media, supply, Stands, Submits
<1>6. WaveAgree'
  BY Parts, Fields DEF WaveAgree, JobsAgree, OwnersAgree, Steady, Answers, Out, Holds, L2s, L1s, Wakes, ctx, channel, calls, walk, media, supply, Stands, Submits
<1>7. BodyArchived'
  BY Parts DEF BodyArchived, WaveAgree, Steady, Wakes, ctx, channel, calls, walk, media, supply, Stands, Submits
<1>. QED
  BY <1>1, <1>2, <1>3, <1>4, <1>5, <1>6, <1>7

LEMMA LeavesKeeps ==
    ASSUME IInv, NEW w \in Workers, Leaves(w)
    PROVE  IInv'
<1>. USE EmptyItem, KindAssumption DEF IInv
<1>a. /\ at[w] \in {"sending", "waiting"} /\ at' = [at EXCEPT ![w] = "left"]
      /\ queue' = Disowned(queue, w) /\ item' = Disowned(item, w)
      /\ UNCHANGED <<root, cancelled, phase, job, closed, got, page, saved, walked,
                     wave, cached, fetching, known, mediaDone, n, icon, token, left,
                     busy>>
  BY DEF Leaves, ctx, channel, calls, walk, media, supply, Stands, Submits, Disowned
<1>b. ASSUME NEW i \in Items
      PROVE  LET d == Disowned(i, w) IN
             /\ d \in Items /\ d.by = i.by /\ d.job = i.job
             /\ (d = Empty) = (i = Empty) /\ ~Holds(d, w)
             /\ \A v \in Workers \ {w} : Holds(d, v) = Holds(i, v)
  <2>1. CASE i.by = w
    BY <2>1, Fields DEF Items, Disowned, Holds, Empty
  <2>2. CASE i.by # w
    BY <2>2 DEF Disowned, Holds
  <2>. QED
    BY <2>1, <2>2
<1>c. /\ queue' \in Items /\ queue'.by = queue.by /\ queue'.job = queue.job
      /\ item' \in Items /\ item'.by = item.by /\ item'.job = item.job
      /\ (item' = Empty) = (item = Empty)
      /\ ~Holds(queue', w) /\ ~Holds(item', w)
      /\ \A v \in Workers \ {w} : /\ Holds(queue', v) = Holds(queue, v)
                                  /\ Holds(item', v) = Holds(item, v)
  BY <1>a, <1>b, Parts
<1>1. TypeOK'
  BY <1>a, <1>c, Parts DEF TypeOK, Stages
<1>2. OwnersAgree'
  <2>1. ASSUME NEW v \in Workers
        PROVE  /\ (at'[v] = "waiting" /\ ~closed'[v]) = (Holds(queue', v) \/ Holds(item', v))
               /\ ~(Holds(queue', v) /\ Holds(item', v))
    BY <1>a, <1>c, Parts DEF OwnersAgree
  <2>2. Holds(queue, w)' = Holds(queue', w)
    BY DEF Holds
  <2>3. (item' # Empty) = (phase' \in {"budget", "check", "pause", "running"})
    BY <1>a, <1>c DEF OwnersAgree
  <2>. QED
    BY <2>1, <2>3 DEF OwnersAgree, Holds
<1>3. JobsAgree'
  <2>1. ASSUME NEW v \in Workers
        PROVE  /\ at'[v] = "sending" => ~closed'[v]
               /\ at'[v] \in Out => Apt(v, job'[v])
               /\ Holds(queue', v) => queue'.job = job'[v]
               /\ Holds(item', v) => item'.job = job'[v]
               /\ queue'.by = v => Apt(v, queue'.job)
               /\ item'.by = v => Apt(v, item'.job)
    BY <1>a, <1>c, Parts DEF JobsAgree, Out
  <2>2. /\ queue' = Empty \/ queue'.by \in Workers
        /\ item' = Empty \/ item'.by \in Workers
    BY <1>a, <1>c DEF JobsAgree, Disowned
  <2>. QED
    BY <2>1, <2>2 DEF JobsAgree, Holds, Apt
<1>4. WalkAgree'
  BY <1>a, Parts DEF Passes, WalkAgree, Answers, Out, L1s
<1>5. CursorBehind'
  BY Parts, Fields DEF Passes, CursorBehind, WalkAgree, Pages, L1s, Leaves, ctx, channel, calls, walk, media, supply, Stands, Submits, Disowned
<1>6. WaveAgree'
  BY Parts, Fields DEF WaveAgree, JobsAgree, OwnersAgree, Steady, Answers, Out, Holds, L2s, L1s, Leaves, ctx, channel, calls, walk, media, supply, Stands, Submits, Disowned
<1>7. BodyArchived'
  BY Parts DEF BodyArchived, WaveAgree, Steady, Leaves, ctx, channel, calls, walk, media, supply, Stands, Submits, Disowned
<1>. QED
  BY <1>1, <1>2, <1>3, <1>4, <1>5, <1>6, <1>7

LEMMA Takes ==
    ASSUME IInv, Take
    PROVE  IInv'
<1>. USE EmptyItem, KindAssumption DEF IInv
<1>1. TypeOK'
  BY Parts, Fields DEF TypeOK, Items, Take, ctx, channel, calls, walk, media, supply, Stands, Submits, Stages, Phases, Results, Waves, NoWave, Jobs, Images, L1s, L2s
<1>2. OwnersAgree'
  BY Parts, Fields DEF OwnersAgree, Holds, Phases, Take, ctx, channel, calls, walk, media, supply, Stands, Submits
<1>3. JobsAgree'
  BY Parts, Fields DEF JobsAgree, Holds, Out, Apt, L1s, L2s, Take, ctx, channel, calls, walk, media, supply, Stands, Submits
<1>4. WalkAgree'
  BY Parts, Fields DEF Passes, WalkAgree, JobsAgree, OwnersAgree, Answers, Out, Holds, L1s, Take, ctx, channel, calls, walk, media, supply, Stands, Submits
<1>5. CursorBehind'
  BY Parts, Fields DEF Passes, CursorBehind, WalkAgree, Pages, L1s, Take, ctx, channel, calls, walk, media, supply, Stands, Submits
<1>6. WaveAgree'
  BY Parts, Fields DEF WaveAgree, JobsAgree, OwnersAgree, Steady, Answers, Out, Holds, L2s, L1s, Take, ctx, channel, calls, walk, media, supply, Stands, Submits
<1>7. BodyArchived'
  BY Parts DEF BodyArchived, WaveAgree, Steady, Take, ctx, channel, calls, walk, media, supply, Stands, Submits
<1>. QED
  BY <1>1, <1>2, <1>3, <1>4, <1>5, <1>6, <1>7

LEMMA BudgetKeeps ==
    ASSUME IInv, BudgetOk
    PROVE  IInv'
<1>. USE EmptyItem, KindAssumption DEF IInv
<1>1. TypeOK'
  BY Parts, Fields DEF TypeOK, Items, BudgetOk, ctx, channel, calls, walk, media, supply, Stands, Submits, Stages, Phases, Results, Waves, NoWave, Jobs, Images, L1s, L2s
<1>2. OwnersAgree'
  BY Parts, Fields DEF OwnersAgree, Holds, Phases, BudgetOk, ctx, channel, calls, walk, media, supply, Stands, Submits
<1>3. JobsAgree'
  BY Parts, Fields DEF JobsAgree, Holds, Out, Apt, L1s, L2s, BudgetOk, ctx, channel, calls, walk, media, supply, Stands, Submits
<1>4. WalkAgree'
  BY Parts, Fields DEF Passes, WalkAgree, JobsAgree, OwnersAgree, Answers, Out, Holds, L1s, BudgetOk, ctx, channel, calls, walk, media, supply, Stands, Submits
<1>5. CursorBehind'
  BY Parts, Fields DEF Passes, CursorBehind, WalkAgree, Pages, L1s, BudgetOk, ctx, channel, calls, walk, media, supply, Stands, Submits
<1>6. WaveAgree'
  BY Parts, Fields DEF WaveAgree, JobsAgree, OwnersAgree, Steady, Answers, Out, Holds, L2s, L1s, BudgetOk, ctx, channel, calls, walk, media, supply, Stands, Submits
<1>7. BodyArchived'
  BY Parts DEF BodyArchived, WaveAgree, Steady, BudgetOk, ctx, channel, calls, walk, media, supply, Stands, Submits
<1>. QED
  BY <1>1, <1>2, <1>3, <1>4, <1>5, <1>6, <1>7

LEMMA CheckKeeps ==
    ASSUME IInv, Check
    PROVE  IInv'
<1>. USE EmptyItem, KindAssumption DEF IInv
<1>1. TypeOK'
  BY Parts, Fields DEF TypeOK, Items, Check, ctx, channel, calls, walk, media, supply, Stands, Submits, Stages, Phases, Results, Waves, NoWave, Jobs, Images, L1s, L2s
<1>2. OwnersAgree'
  BY Parts, Fields DEF OwnersAgree, Holds, Phases, Check, ctx, channel, calls, walk, media, supply, Stands, Submits
<1>3. JobsAgree'
  BY Parts, Fields DEF JobsAgree, Holds, Out, Apt, L1s, L2s, Check, ctx, channel, calls, walk, media, supply, Stands, Submits
<1>4. WalkAgree'
  BY Parts, Fields DEF Passes, WalkAgree, JobsAgree, OwnersAgree, Answers, Out, Holds, L1s, Check, ctx, channel, calls, walk, media, supply, Stands, Submits
<1>5. CursorBehind'
  BY Parts, Fields DEF Passes, CursorBehind, WalkAgree, Pages, L1s, Check, ctx, channel, calls, walk, media, supply, Stands, Submits
<1>6. WaveAgree'
  BY Parts, Fields DEF WaveAgree, JobsAgree, OwnersAgree, Steady, Answers, Out, Holds, L2s, L1s, Check, ctx, channel, calls, walk, media, supply, Stands, Submits
<1>7. BodyArchived'
  BY Parts DEF BodyArchived, WaveAgree, Steady, Check, ctx, channel, calls, walk, media, supply, Stands, Submits
<1>. QED
  BY <1>1, <1>2, <1>3, <1>4, <1>5, <1>6, <1>7

LEMMA PauseKeeps ==
    ASSUME IInv, PauseEnds
    PROVE  IInv'
<1>. USE EmptyItem, KindAssumption DEF IInv
<1>1. TypeOK'
  BY Parts, Fields DEF TypeOK, Items, PauseEnds, ctx, channel, calls, walk, media, supply, Stands, Submits, Stages, Phases, Results, Waves, NoWave, Jobs, Images, L1s, L2s
<1>2. OwnersAgree'
  BY Parts, Fields DEF OwnersAgree, Holds, Phases, PauseEnds, ctx, channel, calls, walk, media, supply, Stands, Submits
<1>3. JobsAgree'
  BY Parts, Fields DEF JobsAgree, Holds, Out, Apt, L1s, L2s, PauseEnds, ctx, channel, calls, walk, media, supply, Stands, Submits
<1>4. WalkAgree'
  BY Parts, Fields DEF Passes, WalkAgree, JobsAgree, OwnersAgree, Answers, Out, Holds, L1s, PauseEnds, ctx, channel, calls, walk, media, supply, Stands, Submits
<1>5. CursorBehind'
  BY Parts, Fields DEF Passes, CursorBehind, WalkAgree, Pages, L1s, PauseEnds, ctx, channel, calls, walk, media, supply, Stands, Submits
<1>6. WaveAgree'
  BY Parts, Fields DEF WaveAgree, JobsAgree, OwnersAgree, Steady, Answers, Out, Holds, L2s, L1s, PauseEnds, ctx, channel, calls, walk, media, supply, Stands, Submits
<1>7. BodyArchived'
  BY Parts DEF BodyArchived, WaveAgree, Steady, PauseEnds, ctx, channel, calls, walk, media, supply, Stands, Submits
<1>. QED
  BY <1>1, <1>2, <1>3, <1>4, <1>5, <1>6, <1>7

LEMMA CooldownKeeps ==
    ASSUME IInv, CooldownEnds
    PROVE  IInv'
<1>. USE EmptyItem, KindAssumption DEF IInv
<1>1. TypeOK'
  BY Parts, Fields DEF TypeOK, Items, CooldownEnds, ctx, channel, calls, walk, media, supply, Stands, Submits, Stages, Phases, Results, Waves, NoWave, Jobs, Images, L1s, L2s
<1>2. OwnersAgree'
  BY Parts, Fields DEF OwnersAgree, Holds, Phases, CooldownEnds, ctx, channel, calls, walk, media, supply, Stands, Submits
<1>3. JobsAgree'
  BY Parts, Fields DEF JobsAgree, Holds, Out, Apt, L1s, L2s, CooldownEnds, ctx, channel, calls, walk, media, supply, Stands, Submits
<1>4. WalkAgree'
  BY Parts, Fields DEF Passes, WalkAgree, JobsAgree, OwnersAgree, Answers, Out, Holds, L1s, CooldownEnds, ctx, channel, calls, walk, media, supply, Stands, Submits
<1>5. CursorBehind'
  BY Parts, Fields DEF Passes, CursorBehind, WalkAgree, Pages, L1s, CooldownEnds, ctx, channel, calls, walk, media, supply, Stands, Submits
<1>6. WaveAgree'
  BY Parts, Fields DEF WaveAgree, JobsAgree, OwnersAgree, Steady, Answers, Out, Holds, L2s, L1s, CooldownEnds, ctx, channel, calls, walk, media, supply, Stands, Submits
<1>7. BodyArchived'
  BY Parts DEF BodyArchived, WaveAgree, Steady, CooldownEnds, ctx, channel, calls, walk, media, supply, Stands, Submits
<1>. QED
  BY <1>1, <1>2, <1>3, <1>4, <1>5, <1>6, <1>7

LEMMA StopKeeps ==
    ASSUME IInv, LoopStops
    PROVE  IInv'
<1>. USE EmptyItem, KindAssumption DEF IInv
<1>1. TypeOK'
  BY Parts, Fields DEF TypeOK, Items, LoopStops, ctx, channel, calls, walk, media, supply, Stands, Submits, Closes, Stages, Phases, Results, Waves, NoWave, Jobs, Images, L1s, L2s
<1>2. OwnersAgree'
  BY Parts, Fields DEF OwnersAgree, Holds, Phases, LoopStops, ctx, channel, calls, walk, media, supply, Stands, Submits, Closes
<1>3. JobsAgree'
  <2>1. queue' = queue /\ at' = at /\ job' = job /\ item' = Empty
    BY DEF LoopStops, ctx, channel, calls, walk, media, supply, Stands, Submits, Closes
  <2>2. \A v \in Workers : at[v] = "sending" => ~closed'[v]
    BY Parts DEF JobsAgree, OwnersAgree, Holds, LoopStops, ctx, channel, calls, walk, media, supply, Stands, Submits, Closes
  <2>. QED
    BY <2>1, <2>2 DEF JobsAgree, Holds, Apt, Out
<1>4. WalkAgree'
  <2>1. /\ UNCHANGED <<at, job, page, walked>>
        /\ \A v \in Workers : Answers(v)' /\ got'[v] = "more" => Answers(v) /\ got[v] = "more"
    BY Parts, Fields DEF JobsAgree, OwnersAgree, Answers, Holds, LoopStops, ctx, calls, walk, Closes
  <2>. QED
    BY <2>1 DEF Passes, WalkAgree, Out, Listing, L1s
<1>5. CursorBehind'
  BY Parts, Fields DEF Passes, CursorBehind, WalkAgree, Pages, L1s, LoopStops, ctx, channel, calls, walk, media, supply, Stands, Submits, Closes
<1>6. WaveAgree' /\ BodyArchived'
  <2>1. ~root'
    BY DEF LoopStops, ctx
  <2>. QED
    BY <2>1 DEF WaveAgree, BodyArchived, Steady
<1>. QED
  BY <1>1, <1>2, <1>3, <1>4, <1>5, <1>6

LEMMA L1StartsKeeps ==
    ASSUME IInv, NEW w \in Workers, Kind[w] = "L1", L1Starts(w)
    PROVE  IInv'
<1>. USE EmptyItem, KindAssumption DEF IInv
<1>p. page[w] \in Pages
  BY Parts DEF L1s

<1>a. Listing(page[w]) \in Jobs /\ Apt(w, Listing(page[w]))
  BY <1>p, Parts, JobTypes, Apts
<1>b. /\ at' = [at EXCEPT ![w] = "sending"] /\ job' = [job EXCEPT ![w] = Listing(page[w])]
      /\ closed' = [closed EXCEPT ![w] = FALSE]
      /\ queue' = queue /\ item' = item /\ at[w] \notin {"sending", "waiting"}
  BY DEF L1Starts, Submits, Stands, channel
<1>1. TypeOK'
  <2>1. at' \in [Workers -> Stages]
    BY <1>b, Parts DEF Stages
  <2>2. job' \in [Workers -> Jobs] /\ closed' \in [Workers -> BOOLEAN]
    BY <1>a, <1>b, Parts
  <2>3. got' \in [Workers -> Results]
    BY Parts DEF L1Starts, Submits, Results
  <2>. QED
    BY <2>1, <2>2, <2>3, Parts DEF TypeOK, L1Starts, ctx, channel, walk, media, supply
<1>2. OwnersAgree'
  BY Parts, Fields DEF OwnersAgree, Holds, Phases, L1Starts, ctx, channel, calls, walk, media, supply, Stands, Submits
<1>3. JobsAgree'
  <2>1. ~Holds(queue, w) /\ ~Holds(item, w)
    BY <1>b DEF OwnersAgree
  <2>2. ASSUME NEW v \in Workers
        PROVE  /\ at'[v] = "sending" => ~closed'[v]
               /\ at'[v] \in Out => Apt(v, job'[v])
               /\ Holds(queue', v) => queue'.job = job'[v]
               /\ Holds(item', v) => item'.job = job'[v]
               /\ queue'.by = v => Apt(v, queue'.job)
               /\ item'.by = v => Apt(v, item'.job)
    <3>1. CASE v = w
      BY <1>a, <1>b, <2>1, <3>1, Parts DEF JobsAgree, Out
    <3>2. CASE v # w
      BY <1>b, <3>2, Parts DEF JobsAgree
    <3>. QED
      BY <3>1, <3>2
  <2>. QED
    BY <1>b, <2>2 DEF JobsAgree, Holds, Apt
<1>4. WalkAgree'
  BY Parts, Fields DEF Passes, WalkAgree, JobsAgree, OwnersAgree, Answers, Out, Holds, L1s, L1Starts, ctx, channel, calls, walk, media, supply, Stands, Submits
<1>5. CursorBehind'
  BY Parts, Fields DEF Passes, CursorBehind, WalkAgree, Pages, L1s, L1Starts, ctx, channel, calls, walk, media, supply, Stands, Submits
<1>6. WaveAgree'
  BY Parts, Fields DEF WaveAgree, JobsAgree, OwnersAgree, Steady, Answers, Out, Holds, L2s, L1s, L1Starts, ctx, channel, calls, walk, media, supply, Stands, Submits
<1>7. BodyArchived'
  BY Parts DEF BodyArchived, WaveAgree, Steady, L1Starts, ctx, channel, calls, walk, media, supply, Stands, Submits
<1>. QED
  BY <1>1, <1>2, <1>3, <1>4, <1>5, <1>6, <1>7

LEMMA L1EndsKeeps ==
    ASSUME IInv, NEW w \in Workers, Kind[w] = "L1", L1Ends(w)
    PROVE  IInv'
<1>. USE EmptyItem, KindAssumption DEF IInv
<1>a. /\ w \in L1s /\ at[w] \in {"answered", "left"}
      /\ at' = [at EXCEPT ![w] = "saving"]
      /\ page' = IF at[w] = "answered" /\ got[w] # "fail" THEN Moved(w) ELSE page
      /\ UNCHANGED <<root, cancelled, queue, phase, item, job, closed, got, saved, walked,
                     wave, cached, fetching, known, mediaDone, n, icon, token, left,
                     busy>>
  BY DEF L1s, L1Ends, ctx, channel, calls, walk, media, supply, Stands, Submits, Moved
<1>b. page[w] \in Pages /\ job[w][2] = page[w]
  BY <1>a, Parts, JobTypes DEF Passes, WalkAgree, Out
<1>c. got[w] = "more" /\ at[w] = "answered" => page[w] < LastPage /\ Passes(w, page[w])
  BY <1>a DEF Passes, WalkAgree, Answers
<1>e. /\ page' \in [L1s -> Pages]
      /\ \A v \in L1s \ {w} : page'[v] = page[v]
      /\ \/ page'[w] = page[w]
         \/ page'[w] = 1
         \/ page'[w] = page[w] + 1 /\ Passes(w, page[w])
  BY <1>a, <1>b, <1>c, Parts, PageAssumption DEF Moved, Pages
<1>1. TypeOK'
  BY <1>a, <1>e, Parts DEF TypeOK, Stages
<1>2. OwnersAgree'
  BY Parts, Fields DEF OwnersAgree, Holds, Phases, L1Ends, ctx, channel, calls, walk, media, supply, Stands, Submits, Moved
<1>3. JobsAgree'
  BY Parts, Fields DEF JobsAgree, Holds, Out, Apt, L1s, L2s, L1Ends, ctx, channel, calls, walk, media, supply, Stands, Submits, Moved
<1>4. WalkAgree'
  BY Parts, Fields DEF Passes, WalkAgree, JobsAgree, OwnersAgree, Answers, Out, Holds, L1s, L1Ends, ctx, channel, calls, walk, media, supply, Stands, Submits, Moved
<1>5. CursorBehind'
  <2>1. ASSUME NEW v \in L1s
        PROVE  /\ \A p \in 1 .. (page'[v] - 1) : Passes(v, p)
               /\ \A p \in 1 .. (saved[v] - 1) : Passes(v, p)
    <3>1. CASE v = w
      <4>1. page[w] \in Nat /\ w \in L1s
        BY <1>b, <3>1 DEF Pages
      <4>2. ASSUME NEW p \in 1 .. (page'[w] - 1)
            PROVE  p \in 1 .. (page[w] - 1) \/ (p = page[w] /\ Passes(w, page[w]))
        <5>1. CASE page'[w] = page[w] \/ page'[w] = 1
          BY <4>1, <4>2, <5>1
        <5>2. CASE page'[w] = page[w] + 1 /\ Passes(w, page[w])
          BY <4>1, <4>2, <5>2
        <5>. QED
          BY <1>e, <5>1, <5>2
      <4>3. /\ \A p \in 1 .. (page[w] - 1) : Passes(w, p)
            /\ \A p \in 1 .. (saved[w] - 1) : Passes(w, p)
        BY <4>1 DEF CursorBehind
      <4>. QED
        BY <3>1, <4>2, <4>3
    <3>2. CASE v # w
      BY <1>e, <3>2 DEF CursorBehind
    <3>. QED
      BY <3>1, <3>2
  <2>. QED
    BY <1>a, <2>1 DEF Passes, CursorBehind
<1>6. WaveAgree'
  BY Parts, Fields DEF WaveAgree, JobsAgree, OwnersAgree, Steady, Answers, Out, Holds, L2s, L1s, L1Ends, ctx, channel, calls, walk, media, supply, Stands, Submits, Moved
<1>7. BodyArchived'
  BY Parts DEF BodyArchived, WaveAgree, Steady, L1Ends, ctx, channel, calls, walk, media, supply, Stands, Submits, Moved
<1>. QED
  BY <1>1, <1>2, <1>3, <1>4, <1>5, <1>6, <1>7

LEMMA L1SavesKeeps ==
    ASSUME IInv, NEW w \in Workers, Kind[w] = "L1", L1Saves(w)
    PROVE  IInv'
<1>. USE EmptyItem, KindAssumption DEF IInv
<1>1. TypeOK'
  BY Parts, Fields DEF TypeOK, Items, L1Saves, ctx, channel, calls, walk, media, supply, Stands, Submits, Stages, Phases, Results, Waves, NoWave, Jobs, Images, L1s, L2s
<1>2. OwnersAgree'
  BY Parts, Fields DEF OwnersAgree, Holds, Phases, L1Saves, ctx, channel, calls, walk, media, supply, Stands, Submits
<1>3. JobsAgree'
  BY Parts, Fields DEF JobsAgree, Holds, Out, Apt, L1s, L2s, L1Saves, ctx, channel, calls, walk, media, supply, Stands, Submits
<1>4. WalkAgree'
  <2>1. /\ UNCHANGED <<page, job, got, closed>> /\ at' = [at EXCEPT ![w] = "idle"]
        /\ \A v \in L1s \ {w} : walked'[v] = walked[v]
    BY Parts DEF L1Saves, channel, Stands
  <2>2. \A v \in Workers : at'[v] = IF v = w THEN "idle" ELSE at[v]
    BY <2>1, Parts
  <2>. QED
    BY <2>1, <2>2 DEF Passes, WalkAgree, Answers, Out, L1s, Listing
<1>5. CursorBehind'
  <2>1. /\ w \in L1s /\ page' = page /\ saved' = [saved EXCEPT ![w] = page[w]]
        /\ walked' = [walked EXCEPT ![w] = IF page[w] = 1 /\ got[w] # "more" THEN {} ELSE @]
    BY DEF L1Saves, L1s
  <2>2. ASSUME NEW v \in L1s
        PROVE  /\ \A p \in 1 .. (page'[v] - 1) : Passes(v, p)'
               /\ \A p \in 1 .. (saved'[v] - 1) : Passes(v, p)'
    <3>1. /\ \A p \in 1 .. (page[v] - 1) : Passes(v, p)
          /\ \A p \in 1 .. (saved[v] - 1) : Passes(v, p)
      BY DEF CursorBehind
    <3>2. CASE v = w
      <4>1. saved'[w] = page[w]
        BY <2>1, Parts
      <4>2. CASE page[w] = 1
        BY <2>1, <3>2, <4>1, <4>2
      <4>3. CASE page[w] # 1
        <5>1. walked'[w] = walked[w]
          BY <2>1, <4>3, Parts
        <5>. QED
          BY <2>1, <3>1, <3>2, <4>1, <5>1 DEF Passes
      <4>. QED
        BY <4>2, <4>3
    <3>3. CASE v # w
      <4>1. walked'[v] = walked[v] /\ saved'[v] = saved[v]
        BY <2>1, <3>3, Parts
      <4>. QED
        BY <2>1, <3>1, <4>1 DEF Passes
    <3>. QED
      BY <3>2, <3>3
  <2>. QED
    BY <2>2 DEF CursorBehind
<1>6. WaveAgree'
  BY Parts, Fields DEF WaveAgree, JobsAgree, OwnersAgree, Steady, Answers, Out, Holds, L2s, L1s, L1Saves, ctx, channel, calls, walk, media, supply, Stands, Submits
<1>7. BodyArchived'
  BY Parts DEF BodyArchived, WaveAgree, Steady, L1Saves, ctx, channel, calls, walk, media, supply, Stands, Submits
<1>. QED
  BY <1>1, <1>2, <1>3, <1>4, <1>5, <1>6, <1>7

LEMMA L1ExitsKeeps ==
    ASSUME IInv, NEW w \in Workers, Kind[w] = "L1", L1Exits(w)
    PROVE  IInv'
<1>. USE EmptyItem, KindAssumption DEF IInv
<1>1. TypeOK'
  BY Parts, Fields DEF TypeOK, Items, L1Exits, ctx, channel, calls, walk, media, supply, Stands, Submits, Stages, Phases, Results, Waves, NoWave, Jobs, Images, L1s, L2s
<1>2. OwnersAgree'
  BY Parts, Fields DEF OwnersAgree, Holds, Phases, L1Exits, ctx, channel, calls, walk, media, supply, Stands, Submits
<1>3. JobsAgree'
  BY Parts, Fields DEF JobsAgree, Holds, Out, Apt, L1s, L2s, L1Exits, ctx, channel, calls, walk, media, supply, Stands, Submits
<1>4. WalkAgree'
  BY Parts, Fields DEF Passes, WalkAgree, JobsAgree, OwnersAgree, Answers, Out, Holds, L1s, L1Exits, ctx, channel, calls, walk, media, supply, Stands, Submits
<1>5. CursorBehind'
  BY DEF Passes, CursorBehind, L1Exits, ctx, channel, calls, walk, media, supply, Stands, Submits
<1>6. WaveAgree'
  BY Parts, Fields DEF WaveAgree, JobsAgree, OwnersAgree, Steady, Answers, Out, Holds, L2s, L1s, L1Exits, ctx, channel, calls, walk, media, supply, Stands, Submits
<1>7. BodyArchived'
  BY DEF BodyArchived, Steady, L1Exits, ctx, channel, calls, walk, media, supply, Stands, Submits
<1>. QED
  BY <1>1, <1>2, <1>3, <1>4, <1>5, <1>6, <1>7

LEMMA LaunchKeeps ==
    ASSUME IInv, Launch
    PROVE  IInv'
<1>. USE EmptyItem, KindAssumption DEF IInv
<1>1. TypeOK'
  BY Parts, Fields DEF TypeOK, Items, Launch, ctx, channel, calls, walk, media, supply, Stands, Submits, Stages, Phases, Results, Waves, NoWave, Jobs, Images, L1s, L2s
<1>2. OwnersAgree'
  BY Parts, Fields DEF OwnersAgree, Holds, Phases, Launch, ctx, channel, calls, walk, media, supply, Stands, Submits
<1>3. JobsAgree'
  BY Parts, Fields DEF JobsAgree, Holds, Out, Apt, L1s, L2s, Launch, ctx, channel, calls, walk, media, supply, Stands, Submits
<1>4. WalkAgree'
  BY Parts, Fields DEF Passes, WalkAgree, JobsAgree, OwnersAgree, Answers, Out, Holds, L1s, Launch, ctx, channel, calls, walk, media, supply, Stands, Submits
<1>5. CursorBehind'
  BY Parts, Fields DEF Passes, CursorBehind, WalkAgree, Pages, L1s, Launch, ctx, channel, calls, walk, media, supply, Stands, Submits
<1>6. WaveAgree'
  BY Parts, Fields DEF WaveAgree, JobsAgree, OwnersAgree, Steady, Answers, Out, Holds, L2s, L1s, Launch, ctx, channel, calls, walk, media, supply, Stands, Submits
<1>7. BodyArchived'
  BY Parts DEF BodyArchived, WaveAgree, Steady, Launch, ctx, channel, calls, walk, media, supply, Stands, Submits
<1>. QED
  BY <1>1, <1>2, <1>3, <1>4, <1>5, <1>6, <1>7

LEMMA L2StartsKeeps ==
    ASSUME IInv, NEW w \in Workers, Kind[w] = "L2", L2Starts(w)
    PROVE  IInv'
<1>. USE EmptyItem, KindAssumption DEF IInv
<1>1. TypeOK'
  <2>1. w \in L2s /\ wave[w] \in Waves
    BY Parts DEF L2s
  <2>2. [NoWave EXCEPT !.todo = Body \union known] \in Waves
    BY <2>1, WaveFields, Parts DEF NoWave, Waves, Images, Stages
  <2>3. wave' \in [L2s -> Waves] /\ at' \in [Workers -> Stages]
    BY <2>1, <2>2, Parts DEF L2Starts, Stands, Stages, calls
  <2>. QED
    BY <2>3, Parts DEF TypeOK, L2Starts, ctx, channel, calls, walk, media, supply
<1>2. OwnersAgree'
  BY Parts, Fields DEF OwnersAgree, Holds, Phases, L2Starts, ctx, channel, calls, walk, media, supply, Stands, Submits
<1>3. JobsAgree'
  BY Parts, Fields DEF JobsAgree, Holds, Out, Apt, L1s, L2s, L2Starts, ctx, channel, calls, walk, media, supply, Stands, Submits
<1>4. WalkAgree'
  BY Parts, Fields DEF Passes, WalkAgree, JobsAgree, OwnersAgree, Answers, Out, Holds, L1s, L2Starts, ctx, channel, calls, walk, media, supply, Stands, Submits
<1>5. CursorBehind'
  BY Parts, Fields DEF Passes, CursorBehind, WalkAgree, Pages, L1s, L2Starts, ctx, channel, calls, walk, media, supply, Stands, Submits
<1>6. WaveAgree'
  BY Parts, Fields DEF WaveAgree, JobsAgree, OwnersAgree, Steady, Answers, Out, Holds, L2s, L1s, L2Starts, ctx, channel, calls, walk, media, supply, Stands, Submits
<1>7. BodyArchived'
  BY Parts DEF BodyArchived, WaveAgree, Steady, L2Starts, ctx, channel, calls, walk, media, supply, Stands, Submits
<1>. QED
  BY <1>1, <1>2, <1>3, <1>4, <1>5, <1>6, <1>7

LEMMA L2SkipsKeeps ==
    ASSUME IInv, NEW w \in Workers, NEW i \in Images, Kind[w] = "L2", L2Skips(w, i)
    PROVE  IInv'
<1>. USE EmptyItem, KindAssumption DEF IInv
<1>1. TypeOK'
  <2>1. w \in L2s /\ wave[w] \in Waves
    BY Parts DEF L2s
  <2>2. [wave[w] EXCEPT !.todo = wave[w].todo \ {i}] \in Waves
    BY <2>1, WaveFields, Parts DEF Waves
  <2>3. wave' \in [L2s -> Waves] /\ at' \in [Workers -> Stages]
    BY <2>1, <2>2, Parts DEF L2Skips, Stands, Stages, calls
  <2>. QED
    BY <2>3, Parts DEF TypeOK, L2Skips, ctx, channel, calls, walk, media, supply
<1>2. OwnersAgree'
  BY Parts, Fields DEF OwnersAgree, Holds, Phases, L2Skips, ctx, channel, calls, walk, media, supply, Stands, Submits
<1>3. JobsAgree'
  BY Parts, Fields DEF JobsAgree, Holds, Out, Apt, L1s, L2s, L2Skips, ctx, channel, calls, walk, media, supply, Stands, Submits
<1>4. WalkAgree'
  BY Parts, Fields DEF Passes, WalkAgree, JobsAgree, OwnersAgree, Answers, Out, Holds, L1s, L2Skips, ctx, channel, calls, walk, media, supply, Stands, Submits
<1>5. CursorBehind'
  BY Parts, Fields DEF Passes, CursorBehind, WalkAgree, Pages, L1s, L2Skips, ctx, channel, calls, walk, media, supply, Stands, Submits
<1>6. WaveAgree'
  BY Parts, Fields DEF WaveAgree, JobsAgree, OwnersAgree, Steady, Answers, Out, Holds, L2s, L1s, L2Skips, ctx, channel, calls, walk, media, supply, Stands, Submits
<1>7. BodyArchived'
  BY Parts DEF BodyArchived, WaveAgree, Steady, L2Skips, ctx, channel, calls, walk, media, supply, Stands, Submits
<1>. QED
  BY <1>1, <1>2, <1>3, <1>4, <1>5, <1>6, <1>7

LEMMA L2FreezesKeeps ==
    ASSUME IInv, NEW w \in Workers, NEW i \in Images, Kind[w] = "L2", L2Freezes(w, i)
    PROVE  IInv'
<1>. USE EmptyItem, KindAssumption DEF IInv
<1>1. TypeOK'
  <2>1. w \in L2s /\ wave[w] \in Waves
    BY Parts DEF L2s
  <2>2. [wave[w] EXCEPT !.todo = wave[w].todo \ {i}, !.frozen = wave[w].frozen \union {i}] \in Waves
    <3> DEFINE todo == wave[w].todo \ {i}
               frozen == wave[w].frozen \union {i}
    <3>1. todo \in SUBSET Images /\ frozen \in SUBSET Images
      BY <2>1, WaveFields
    <3> HIDE DEF todo, frozen
    <3>2. [wave[w] EXCEPT !.todo = todo, !.frozen = frozen] \in Waves
      BY <2>1, <3>1 DEF Waves
    <3>. QED BY <3>2 DEF todo, frozen
  <2>3. wave' \in [L2s -> Waves] /\ at' \in [Workers -> Stages]
    BY <2>1, <2>2, Parts DEF L2Freezes, Stands, Stages, calls
  <2>. QED
    BY <2>3, Parts DEF TypeOK, L2Freezes, ctx, channel, calls, walk, media, supply
<1>2. OwnersAgree'
  BY Parts, Fields DEF OwnersAgree, Holds, Phases, L2Freezes, ctx, channel, calls, walk, media, supply, Stands, Submits
<1>3. JobsAgree'
  BY Parts, Fields DEF JobsAgree, Holds, Out, Apt, L1s, L2s, L2Freezes, ctx, channel, calls, walk, media, supply, Stands, Submits
<1>4. WalkAgree'
  BY Parts, Fields DEF Passes, WalkAgree, JobsAgree, OwnersAgree, Answers, Out, Holds, L1s, L2Freezes, ctx, channel, calls, walk, media, supply, Stands, Submits
<1>5. CursorBehind'
  BY Parts, Fields DEF Passes, CursorBehind, WalkAgree, Pages, L1s, L2Freezes, ctx, channel, calls, walk, media, supply, Stands, Submits
<1>6. WaveAgree'
  BY Parts, Fields DEF WaveAgree, JobsAgree, OwnersAgree, Steady, Answers, Out, Holds, L2s, L1s, L2Freezes, ctx, channel, calls, walk, media, supply, Stands, Submits
<1>7. BodyArchived'
  BY Parts DEF BodyArchived, WaveAgree, Steady, L2Freezes, ctx, channel, calls, walk, media, supply, Stands, Submits
<1>. QED
  BY <1>1, <1>2, <1>3, <1>4, <1>5, <1>6, <1>7

LEMMA L2SubmitsKeeps ==
    ASSUME IInv, NEW w \in Workers, NEW i \in Images, Kind[w] = "L2", L2Submits(w, i)
    PROVE  IInv'
<1>. USE EmptyItem, KindAssumption DEF IInv
<1>a. Image(i) \in Jobs /\ Apt(w, Image(i))
  BY Parts, JobTypes, Apts
<1>b. /\ at' = [at EXCEPT ![w] = "sending"] /\ job' = [job EXCEPT ![w] = Image(i)]
      /\ closed' = [closed EXCEPT ![w] = FALSE]
      /\ queue' = queue /\ item' = item /\ at[w] \notin {"sending", "waiting"}
  BY DEF L2Submits, Submits, Stands, channel
<1>1. TypeOK'
  BY Parts, Fields DEF TypeOK, Items, L2Submits, ctx, channel, calls, walk, media, supply, Stands, Submits, Stages, Phases, Results, Waves, NoWave, Jobs, Images, L1s, L2s
<1>2. OwnersAgree'
  BY Parts, Fields DEF OwnersAgree, Holds, Phases, L2Submits, ctx, channel, calls, walk, media, supply, Stands, Submits
<1>3. JobsAgree'
  <2>1. ~Holds(queue, w) /\ ~Holds(item, w)
    BY <1>b DEF OwnersAgree
  <2>2. ASSUME NEW v \in Workers
        PROVE  /\ at'[v] = "sending" => ~closed'[v]
               /\ at'[v] \in Out => Apt(v, job'[v])
               /\ Holds(queue', v) => queue'.job = job'[v]
               /\ Holds(item', v) => item'.job = job'[v]
               /\ queue'.by = v => Apt(v, queue'.job)
               /\ item'.by = v => Apt(v, item'.job)
    <3>1. CASE v = w
      BY <1>a, <1>b, <2>1, <3>1, Parts DEF JobsAgree, Out
    <3>2. CASE v # w
      BY <1>b, <3>2, Parts DEF JobsAgree
    <3>. QED
      BY <3>1, <3>2
  <2>. QED
    BY <1>b, <2>2 DEF JobsAgree, Holds, Apt
<1>4. WalkAgree'
  BY Parts, Fields DEF Passes, WalkAgree, JobsAgree, OwnersAgree, Answers, Out, Holds, L1s, L2Submits, ctx, channel, calls, walk, media, supply, Stands, Submits
<1>5. CursorBehind'
  BY Parts, Fields DEF Passes, CursorBehind, WalkAgree, Pages, L1s, L2Submits, ctx, channel, calls, walk, media, supply, Stands, Submits
<1>6. WaveAgree'
  BY Parts, Fields DEF WaveAgree, JobsAgree, OwnersAgree, Steady, Answers, Out, Holds, L2s, L1s, L2Submits, ctx, channel, calls, walk, media, supply, Stands, Submits
<1>7. BodyArchived'
  BY Parts DEF BodyArchived, WaveAgree, Steady, L2Submits, ctx, channel, calls, walk, media, supply, Stands, Submits
<1>. QED
  BY <1>1, <1>2, <1>3, <1>4, <1>5, <1>6, <1>7

LEMMA L2DownloadedKeeps ==
    ASSUME IInv, NEW w \in Workers, Kind[w] = "L2", L2Downloaded(w)
    PROVE  IInv'
<1>. USE EmptyItem, KindAssumption DEF IInv
<1>1. TypeOK'
  <2>1. w \in L2s /\ wave[w] \in Waves
    BY Parts DEF L2s
  <2>2. [wave[w] EXCEPT !.todo = wave[w].todo \ {job[w][2]}, !.ok = wave[w].ok /\ got[w] # "fail"] \in Waves
    BY <2>1, WaveFields, Parts DEF Waves
  <2>3. wave' \in [L2s -> Waves] /\ at' \in [Workers -> Stages]
    BY <2>1, <2>2, Parts DEF L2Downloaded, Stands, Stages, calls
  <2>. QED
    BY <2>3, Parts DEF TypeOK, L2Downloaded, ctx, channel, calls, walk, media, supply
<1>2. OwnersAgree'
  BY Parts, Fields DEF OwnersAgree, Holds, Phases, L2Downloaded, ctx, channel, calls, walk, media, supply, Stands, Submits
<1>3. JobsAgree'
  BY Parts, Fields DEF JobsAgree, Holds, Out, Apt, L1s, L2s, L2Downloaded, ctx, channel, calls, walk, media, supply, Stands, Submits
<1>4. WalkAgree'
  BY Parts, Fields DEF Passes, WalkAgree, JobsAgree, OwnersAgree, Answers, Out, Holds, L1s, L2Downloaded, ctx, channel, calls, walk, media, supply, Stands, Submits
<1>5. CursorBehind'
  BY Parts, Fields DEF Passes, CursorBehind, WalkAgree, Pages, L1s, L2Downloaded, ctx, channel, calls, walk, media, supply, Stands, Submits
<1>6. WaveAgree'
  BY Parts, Fields DEF WaveAgree, JobsAgree, OwnersAgree, Steady, Answers, Out, Holds, L2s, L1s, L2Downloaded, ctx, channel, calls, walk, media, supply, Stands, Submits
<1>7. BodyArchived'
  BY Parts DEF BodyArchived, WaveAgree, Steady, L2Downloaded, ctx, channel, calls, walk, media, supply, Stands, Submits
<1>. QED
  BY <1>1, <1>2, <1>3, <1>4, <1>5, <1>6, <1>7

LEMMA L2RechecksKeeps ==
    ASSUME IInv, NEW w \in Workers, Kind[w] = "L2", L2Rechecks(w)
    PROVE  IInv'
<1>. USE EmptyItem, KindAssumption DEF IInv
<1>1. TypeOK'
  <2>1. w \in L2s /\ wave[w] \in Waves
    BY Parts DEF L2s
  <2>2. [todo |-> wave[w].frozen, frozen |-> {}, ok |-> wave[w].ok, late |-> TRUE] \in Waves
    BY <2>1, WaveFields
  <2>3. [wave[w] EXCEPT !.todo = wave[w].frozen, !.frozen = {}, !.late = TRUE] \in Waves
    BY <2>1, <2>2 DEF Waves
  <2>4. wave' \in [L2s -> Waves]
    BY <2>1, <2>3, Parts DEF L2Rechecks
  <2>. QED
    BY <2>4, Parts DEF TypeOK, L2Rechecks, ctx, channel, calls, walk, media, supply
<1>2. OwnersAgree'
  BY Parts, Fields DEF OwnersAgree, Holds, Phases, L2Rechecks, ctx, channel, calls, walk, media, supply, Stands, Submits
<1>3. JobsAgree'
  BY Parts, Fields DEF JobsAgree, Holds, Out, Apt, L1s, L2s, L2Rechecks, ctx, channel, calls, walk, media, supply, Stands, Submits
<1>4. WalkAgree'
  BY Parts, Fields DEF Passes, WalkAgree, JobsAgree, OwnersAgree, Answers, Out, Holds, L1s, L2Rechecks, ctx, channel, calls, walk, media, supply, Stands, Submits
<1>5. CursorBehind'
  BY Parts, Fields DEF Passes, CursorBehind, WalkAgree, Pages, L1s, L2Rechecks, ctx, channel, calls, walk, media, supply, Stands, Submits
<1>6. WaveAgree'
  BY Parts, Fields DEF WaveAgree, JobsAgree, OwnersAgree, Steady, Answers, Out, Holds, L2s, L1s, L2Rechecks, ctx, channel, calls, walk, media, supply, Stands, Submits
<1>7. BodyArchived'
  BY Parts DEF BodyArchived, WaveAgree, Steady, L2Rechecks, ctx, channel, calls, walk, media, supply, Stands, Submits
<1>. QED
  BY <1>1, <1>2, <1>3, <1>4, <1>5, <1>6, <1>7

LEMMA L2MarksKeeps ==
    ASSUME IInv, NEW w \in Workers, Kind[w] = "L2", L2Marks(w)
    PROVE  IInv'
<1>. USE EmptyItem, KindAssumption DEF IInv
<1>1. TypeOK'
  BY Parts, Fields DEF TypeOK, Items, L2Marks, ctx, channel, calls, walk, media, supply, Stands, Submits, Stages, Phases, Results, Waves, NoWave, Jobs, Images, L1s, L2s
<1>2. OwnersAgree'
  BY Parts, Fields DEF OwnersAgree, Holds, Phases, L2Marks, ctx, channel, calls, walk, media, supply, Stands, Submits
<1>3. JobsAgree'
  BY Parts, Fields DEF JobsAgree, Holds, Out, Apt, L1s, L2s, L2Marks, ctx, channel, calls, walk, media, supply, Stands, Submits
<1>4. WalkAgree'
  BY Parts, Fields DEF Passes, WalkAgree, JobsAgree, OwnersAgree, Answers, Out, Holds, L1s, L2Marks, ctx, channel, calls, walk, media, supply, Stands, Submits
<1>5. CursorBehind'
  BY Parts, Fields DEF Passes, CursorBehind, WalkAgree, Pages, L1s, L2Marks, ctx, channel, calls, walk, media, supply, Stands, Submits
<1>6. WaveAgree'
  BY Parts, Fields DEF WaveAgree, JobsAgree, OwnersAgree, Steady, Answers, Out, Holds, L2s, L1s, L2Marks, ctx, channel, calls, walk, media, supply, Stands, Submits
<1>7. BodyArchived'
  <2>1. ASSUME Steady, wave[w].ok
        PROVE  Body \subseteq cached
    BY <2>1 DEF WaveAgree, Steady, Out, L2s, L2Marks
  <2>. QED
    BY <2>1 DEF BodyArchived, Steady, L2Marks, ctx, channel, calls, walk, media, supply, Stands, Submits
<1>. QED
  BY <1>1, <1>2, <1>3, <1>4, <1>5, <1>6, <1>7

LEMMA L2UnwindsKeeps ==
    ASSUME IInv, NEW w \in Workers, Kind[w] = "L2", L2Unwinds(w)
    PROVE  IInv'
<1>. USE EmptyItem, KindAssumption DEF IInv
<1>1. TypeOK'
  <2>1. w \in L2s /\ wave[w] \in Waves
    BY Parts DEF L2s
  <2>2. NoWave \in Waves
    BY <2>1, WaveFields, Parts DEF NoWave, Waves
  <2>3. wave' \in [L2s -> Waves] /\ at' \in [Workers -> Stages] /\ cancelled' \in [Workers -> BOOLEAN]
    BY <2>1, <2>2, Parts DEF L2Unwinds, Stands, Stages, calls
  <2>. QED
    BY <2>3, Parts DEF TypeOK, L2Unwinds, ctx, channel, calls, walk, media, supply
<1>2. OwnersAgree'
  BY Parts, Fields DEF OwnersAgree, Holds, Phases, L2Unwinds, ctx, channel, calls, walk, media, supply, Stands, Submits
<1>3. JobsAgree'
  BY Parts, Fields DEF JobsAgree, Holds, Out, Apt, L1s, L2s, L2Unwinds, ctx, channel, calls, walk, media, supply, Stands, Submits
<1>4. WalkAgree'
  BY Parts, Fields DEF Passes, WalkAgree, JobsAgree, OwnersAgree, Answers, Out, Holds, L1s, L2Unwinds, ctx, channel, calls, walk, media, supply, Stands, Submits
<1>5. CursorBehind'
  BY Parts, Fields DEF Passes, CursorBehind, WalkAgree, Pages, L1s, L2Unwinds, ctx, channel, calls, walk, media, supply, Stands, Submits
<1>6. WaveAgree'
  BY Parts, Fields DEF WaveAgree, JobsAgree, OwnersAgree, Steady, Answers, Out, Holds, L2s, L1s, L2Unwinds, ctx, channel, calls, walk, media, supply, Stands, Submits
<1>7. BodyArchived'
  BY Parts DEF BodyArchived, WaveAgree, Steady, L2Unwinds, ctx, channel, calls, walk, media, supply, Stands, Submits
<1>. QED
  BY <1>1, <1>2, <1>3, <1>4, <1>5, <1>6, <1>7

LEMMA L3StartsKeeps ==
    ASSUME IInv, NEW w \in Workers, Kind[w] = "L3", L3Starts(w)
    PROVE  IInv'
<1>. USE EmptyItem, KindAssumption DEF IInv
<1>a. Thread \in Jobs /\ Apt(w, Thread)
  BY Parts, JobTypes, Apts
<1>b. /\ at' = [at EXCEPT ![w] = "sending"] /\ job' = [job EXCEPT ![w] = Thread]
      /\ closed' = [closed EXCEPT ![w] = FALSE]
      /\ queue' = queue /\ item' = item /\ at[w] \notin {"sending", "waiting"}
  BY DEF L3Starts, Submits, Stands, channel
<1>1. TypeOK'
  BY Parts, Fields DEF TypeOK, Items, L3Starts, ctx, channel, calls, walk, media, supply, Stands, Submits, Stages, Phases, Results, Waves, NoWave, Jobs, Images, L1s, L2s
<1>2. OwnersAgree'
  BY Parts, Fields DEF OwnersAgree, Holds, Phases, L3Starts, ctx, channel, calls, walk, media, supply, Stands, Submits
<1>3. JobsAgree'
  <2>1. ~Holds(queue, w) /\ ~Holds(item, w)
    BY <1>b DEF OwnersAgree
  <2>2. ASSUME NEW v \in Workers
        PROVE  /\ at'[v] = "sending" => ~closed'[v]
               /\ at'[v] \in Out => Apt(v, job'[v])
               /\ Holds(queue', v) => queue'.job = job'[v]
               /\ Holds(item', v) => item'.job = job'[v]
               /\ queue'.by = v => Apt(v, queue'.job)
               /\ item'.by = v => Apt(v, item'.job)
    <3>1. CASE v = w
      BY <1>a, <1>b, <2>1, <3>1, Parts DEF JobsAgree, Out
    <3>2. CASE v # w
      BY <1>b, <3>2, Parts DEF JobsAgree
    <3>. QED
      BY <3>1, <3>2
  <2>. QED
    BY <1>b, <2>2 DEF JobsAgree, Holds, Apt
<1>4. WalkAgree'
  BY Parts, Fields DEF Passes, WalkAgree, JobsAgree, OwnersAgree, Answers, Out, Holds, L1s, L3Starts, ctx, channel, calls, walk, media, supply, Stands, Submits
<1>5. CursorBehind'
  BY Parts, Fields DEF Passes, CursorBehind, WalkAgree, Pages, L1s, L3Starts, ctx, channel, calls, walk, media, supply, Stands, Submits
<1>6. WaveAgree'
  BY Parts, Fields DEF WaveAgree, JobsAgree, OwnersAgree, Steady, Answers, Out, Holds, L2s, L1s, L3Starts, ctx, channel, calls, walk, media, supply, Stands, Submits
<1>7. BodyArchived'
  BY Parts DEF BodyArchived, WaveAgree, Steady, L3Starts, ctx, channel, calls, walk, media, supply, Stands, Submits
<1>. QED
  BY <1>1, <1>2, <1>3, <1>4, <1>5, <1>6, <1>7

LEMMA L3EndsKeeps ==
    ASSUME IInv, NEW w \in Workers, Kind[w] = "L3", L3Ends(w)
    PROVE  IInv'
<1>. USE EmptyItem, KindAssumption DEF IInv
<1>1. TypeOK'
  BY Parts, Fields DEF TypeOK, Items, L3Ends, ctx, channel, calls, walk, media, supply, Stands, Submits, Stages, Phases, Results, Waves, NoWave, Jobs, Images, L1s, L2s
<1>2. OwnersAgree'
  BY Parts, Fields DEF OwnersAgree, Holds, Phases, L3Ends, ctx, channel, calls, walk, media, supply, Stands, Submits
<1>3. JobsAgree'
  BY Parts, Fields DEF JobsAgree, Holds, Out, Apt, L1s, L2s, L3Ends, ctx, channel, calls, walk, media, supply, Stands, Submits
<1>4. WalkAgree'
  BY Parts, Fields DEF Passes, WalkAgree, JobsAgree, OwnersAgree, Answers, Out, Holds, L1s, L3Ends, ctx, channel, calls, walk, media, supply, Stands, Submits
<1>5. CursorBehind'
  BY Parts, Fields DEF Passes, CursorBehind, WalkAgree, Pages, L1s, L3Ends, ctx, channel, calls, walk, media, supply, Stands, Submits
<1>6. WaveAgree'
  BY Parts, Fields DEF WaveAgree, JobsAgree, OwnersAgree, Steady, Answers, Out, Holds, L2s, L1s, L3Ends, ctx, channel, calls, walk, media, supply, Stands, Submits
<1>7. BodyArchived'
  BY Parts DEF BodyArchived, WaveAgree, Steady, L3Ends, ctx, channel, calls, walk, media, supply, Stands, Submits
<1>. QED
  BY <1>1, <1>2, <1>3, <1>4, <1>5, <1>6, <1>7

LEMMA L4StartsKeeps ==
    ASSUME IInv, NEW w \in Workers, Kind[w] = "L4", L4Starts(w)
    PROVE  IInv'
<1>. USE EmptyItem, KindAssumption DEF IInv
<1>a. About \in Jobs /\ Apt(w, About)
  BY Parts, JobTypes, Apts
<1>b. /\ at' = [at EXCEPT ![w] = "sending"] /\ job' = [job EXCEPT ![w] = About]
      /\ closed' = [closed EXCEPT ![w] = FALSE]
      /\ queue' = queue /\ item' = item /\ at[w] \notin {"sending", "waiting"}
  BY DEF L4Starts, Submits, Stands, channel
<1>1. TypeOK'
  BY Parts, Fields DEF TypeOK, Items, L4Starts, ctx, channel, calls, walk, media, supply, Stands, Submits, Stages, Phases, Results, Waves, NoWave, Jobs, Images, L1s, L2s
<1>2. OwnersAgree'
  BY Parts, Fields DEF OwnersAgree, Holds, Phases, L4Starts, ctx, channel, calls, walk, media, supply, Stands, Submits
<1>3. JobsAgree'
  <2>1. ~Holds(queue, w) /\ ~Holds(item, w)
    BY <1>b DEF OwnersAgree
  <2>2. ASSUME NEW v \in Workers
        PROVE  /\ at'[v] = "sending" => ~closed'[v]
               /\ at'[v] \in Out => Apt(v, job'[v])
               /\ Holds(queue', v) => queue'.job = job'[v]
               /\ Holds(item', v) => item'.job = job'[v]
               /\ queue'.by = v => Apt(v, queue'.job)
               /\ item'.by = v => Apt(v, item'.job)
    <3>1. CASE v = w
      BY <1>a, <1>b, <2>1, <3>1, Parts DEF JobsAgree, Out
    <3>2. CASE v # w
      BY <1>b, <3>2, Parts DEF JobsAgree
    <3>. QED
      BY <3>1, <3>2
  <2>. QED
    BY <1>b, <2>2 DEF JobsAgree, Holds, Apt
<1>4. WalkAgree'
  BY Parts, Fields DEF Passes, WalkAgree, JobsAgree, OwnersAgree, Answers, Out, Holds, L1s, L4Starts, ctx, channel, calls, walk, media, supply, Stands, Submits
<1>5. CursorBehind'
  BY Parts, Fields DEF Passes, CursorBehind, WalkAgree, Pages, L1s, L4Starts, ctx, channel, calls, walk, media, supply, Stands, Submits
<1>6. WaveAgree'
  BY Parts, Fields DEF WaveAgree, JobsAgree, OwnersAgree, Steady, Answers, Out, Holds, L2s, L1s, L4Starts, ctx, channel, calls, walk, media, supply, Stands, Submits
<1>7. BodyArchived'
  BY Parts DEF BodyArchived, WaveAgree, Steady, L4Starts, ctx, channel, calls, walk, media, supply, Stands, Submits
<1>. QED
  BY <1>1, <1>2, <1>3, <1>4, <1>5, <1>6, <1>7

LEMMA L4JudgesKeeps ==
    ASSUME IInv, NEW w \in Workers, Kind[w] = "L4", L4Judges(w)
    PROVE  IInv'
<1>. USE EmptyItem, KindAssumption DEF IInv
<1>1. TypeOK'
  BY Parts, Fields DEF TypeOK, Items, L4Judges, ctx, channel, calls, walk, media, supply, Stands, Submits, Stages, Phases, Results, Waves, NoWave, Jobs, Images, L1s, L2s
<1>2. OwnersAgree'
  BY Parts, Fields DEF OwnersAgree, Holds, Phases, L4Judges, ctx, channel, calls, walk, media, supply, Stands, Submits
<1>3. JobsAgree'
  BY Parts, Fields DEF JobsAgree, Holds, Out, Apt, L1s, L2s, L4Judges, ctx, channel, calls, walk, media, supply, Stands, Submits
<1>4. WalkAgree'
  BY Parts, Fields DEF Passes, WalkAgree, JobsAgree, OwnersAgree, Answers, Out, Holds, L1s, L4Judges, ctx, channel, calls, walk, media, supply, Stands, Submits
<1>5. CursorBehind'
  BY Parts, Fields DEF Passes, CursorBehind, WalkAgree, Pages, L1s, L4Judges, ctx, channel, calls, walk, media, supply, Stands, Submits
<1>6. WaveAgree'
  BY Parts, Fields DEF WaveAgree, JobsAgree, OwnersAgree, Steady, Answers, Out, Holds, L2s, L1s, L4Judges, ctx, channel, calls, walk, media, supply, Stands, Submits
<1>7. BodyArchived'
  BY Parts DEF BodyArchived, WaveAgree, Steady, L4Judges, ctx, channel, calls, walk, media, supply, Stands, Submits
<1>. QED
  BY <1>1, <1>2, <1>3, <1>4, <1>5, <1>6, <1>7

LEMMA L4DownloadsKeeps ==
    ASSUME IInv, NEW w \in Workers, Kind[w] = "L4", L4Downloads(w)
    PROVE  IInv'
<1>. USE EmptyItem, KindAssumption DEF IInv
<1>a. IconFile \in Jobs /\ Apt(w, IconFile)
  BY Parts, JobTypes, Apts
<1>b. /\ at' = [at EXCEPT ![w] = "sending"] /\ job' = [job EXCEPT ![w] = IconFile]
      /\ closed' = [closed EXCEPT ![w] = FALSE]
      /\ queue' = queue /\ item' = item /\ at[w] \notin {"sending", "waiting"}
  BY DEF L4Downloads, Submits, Stands, channel
<1>1. TypeOK'
  BY Parts, Fields DEF TypeOK, Items, L4Downloads, ctx, channel, calls, walk, media, supply, Stands, Submits, Stages, Phases, Results, Waves, NoWave, Jobs, Images, L1s, L2s
<1>2. OwnersAgree'
  BY Parts, Fields DEF OwnersAgree, Holds, Phases, L4Downloads, ctx, channel, calls, walk, media, supply, Stands, Submits
<1>3. JobsAgree'
  <2>1. ~Holds(queue, w) /\ ~Holds(item, w)
    BY <1>b DEF OwnersAgree
  <2>2. ASSUME NEW v \in Workers
        PROVE  /\ at'[v] = "sending" => ~closed'[v]
               /\ at'[v] \in Out => Apt(v, job'[v])
               /\ Holds(queue', v) => queue'.job = job'[v]
               /\ Holds(item', v) => item'.job = job'[v]
               /\ queue'.by = v => Apt(v, queue'.job)
               /\ item'.by = v => Apt(v, item'.job)
    <3>1. CASE v = w
      BY <1>a, <1>b, <2>1, <3>1, Parts DEF JobsAgree, Out
    <3>2. CASE v # w
      BY <1>b, <3>2, Parts DEF JobsAgree
    <3>. QED
      BY <3>1, <3>2
  <2>. QED
    BY <1>b, <2>2 DEF JobsAgree, Holds, Apt
<1>4. WalkAgree'
  BY Parts, Fields DEF Passes, WalkAgree, JobsAgree, OwnersAgree, Answers, Out, Holds, L1s, L4Downloads, ctx, channel, calls, walk, media, supply, Stands, Submits
<1>5. CursorBehind'
  BY Parts, Fields DEF Passes, CursorBehind, WalkAgree, Pages, L1s, L4Downloads, ctx, channel, calls, walk, media, supply, Stands, Submits
<1>6. WaveAgree'
  BY Parts, Fields DEF WaveAgree, JobsAgree, OwnersAgree, Steady, Answers, Out, Holds, L2s, L1s, L4Downloads, ctx, channel, calls, walk, media, supply, Stands, Submits
<1>7. BodyArchived'
  BY Parts DEF BodyArchived, WaveAgree, Steady, L4Downloads, ctx, channel, calls, walk, media, supply, Stands, Submits
<1>. QED
  BY <1>1, <1>2, <1>3, <1>4, <1>5, <1>6, <1>7

LEMMA L4SavesKeeps ==
    ASSUME IInv, NEW w \in Workers, Kind[w] = "L4", L4Saves(w)
    PROVE  IInv'
<1>. USE EmptyItem, KindAssumption DEF IInv
<1>1. TypeOK'
  BY Parts, Fields DEF TypeOK, Items, L4Saves, ctx, channel, calls, walk, media, supply, Stands, Submits, Stages, Phases, Results, Waves, NoWave, Jobs, Images, L1s, L2s
<1>2. OwnersAgree'
  BY Parts, Fields DEF OwnersAgree, Holds, Phases, L4Saves, ctx, channel, calls, walk, media, supply, Stands, Submits
<1>3. JobsAgree'
  BY Parts, Fields DEF JobsAgree, Holds, Out, Apt, L1s, L2s, L4Saves, ctx, channel, calls, walk, media, supply, Stands, Submits
<1>4. WalkAgree'
  BY Parts, Fields DEF Passes, WalkAgree, JobsAgree, OwnersAgree, Answers, Out, Holds, L1s, L4Saves, ctx, channel, calls, walk, media, supply, Stands, Submits
<1>5. CursorBehind'
  BY Parts, Fields DEF Passes, CursorBehind, WalkAgree, Pages, L1s, L4Saves, ctx, channel, calls, walk, media, supply, Stands, Submits
<1>6. WaveAgree'
  BY Parts, Fields DEF WaveAgree, JobsAgree, OwnersAgree, Steady, Answers, Out, Holds, L2s, L1s, L4Saves, ctx, channel, calls, walk, media, supply, Stands, Submits
<1>7. BodyArchived'
  BY Parts DEF BodyArchived, WaveAgree, Steady, L4Saves, ctx, channel, calls, walk, media, supply, Stands, Submits
<1>. QED
  BY <1>1, <1>2, <1>3, <1>4, <1>5, <1>6, <1>7

LEMMA L4GivesUpKeeps ==
    ASSUME IInv, NEW w \in Workers, Kind[w] = "L4", L4GivesUp(w)
    PROVE  IInv'
<1>. USE EmptyItem, KindAssumption DEF IInv
<1>1. TypeOK'
  BY Parts, Fields DEF TypeOK, Items, L4GivesUp, ctx, channel, calls, walk, media, supply, Stands, Submits, Stages, Phases, Results, Waves, NoWave, Jobs, Images, L1s, L2s
<1>2. OwnersAgree'
  BY Parts, Fields DEF OwnersAgree, Holds, Phases, L4GivesUp, ctx, channel, calls, walk, media, supply, Stands, Submits
<1>3. JobsAgree'
  BY Parts, Fields DEF JobsAgree, Holds, Out, Apt, L1s, L2s, L4GivesUp, ctx, channel, calls, walk, media, supply, Stands, Submits
<1>4. WalkAgree'
  BY Parts, Fields DEF Passes, WalkAgree, JobsAgree, OwnersAgree, Answers, Out, Holds, L1s, L4GivesUp, ctx, channel, calls, walk, media, supply, Stands, Submits
<1>5. CursorBehind'
  BY Parts, Fields DEF Passes, CursorBehind, WalkAgree, Pages, L1s, L4GivesUp, ctx, channel, calls, walk, media, supply, Stands, Submits
<1>6. WaveAgree'
  BY Parts, Fields DEF WaveAgree, JobsAgree, OwnersAgree, Steady, Answers, Out, Holds, L2s, L1s, L4GivesUp, ctx, channel, calls, walk, media, supply, Stands, Submits
<1>7. BodyArchived'
  BY Parts DEF BodyArchived, WaveAgree, Steady, L4GivesUp, ctx, channel, calls, walk, media, supply, Stands, Submits
<1>. QED
  BY <1>1, <1>2, <1>3, <1>4, <1>5, <1>6, <1>7

LEMMA VisitKeeps ==
    ASSUME IInv, NEW b \in BOOLEAN, Visit(b)
    PROVE  IInv'
<1>. USE EmptyItem, KindAssumption DEF IInv
<1>1. TypeOK'
  <2>1. left' \in 0 .. Cap /\ busy' \in BOOLEAN /\ token' = token
    BY Counts DEF TypeOK, Visit, ctx, channel, calls, walk, media, supply, Stands, Submits
  <2>2. n' \in [visits : Nat, cancels : Nat, stops : Nat, evictions : Nat]
    BY Counts DEF TypeOK, Visit, ctx, channel, calls, walk, media, supply, Stands, Submits
  <2>. QED
    BY <2>1, <2>2 DEF TypeOK, Visit, ctx, channel, calls, walk, media, supply, Stands, Submits
<1>2. OwnersAgree'
  BY Parts, Fields DEF OwnersAgree, Holds, Phases, Visit, ctx, channel, calls, walk, media, supply, Stands, Submits
<1>3. JobsAgree'
  BY Parts, Fields DEF JobsAgree, Holds, Out, Apt, L1s, L2s, Visit, ctx, channel, calls, walk, media, supply, Stands, Submits
<1>4. WalkAgree'
  BY Parts, Fields DEF Passes, WalkAgree, JobsAgree, OwnersAgree, Answers, Out, Holds, L1s, Visit, ctx, channel, calls, walk, media, supply, Stands, Submits
<1>5. CursorBehind'
  BY Parts, Fields DEF Passes, CursorBehind, WalkAgree, Pages, L1s, Visit, ctx, channel, calls, walk, media, supply, Stands, Submits
<1>6. WaveAgree'
  BY Parts, Fields DEF WaveAgree, JobsAgree, OwnersAgree, Steady, Answers, Out, Holds, L2s, L1s, Visit, ctx, channel, calls, walk, media, supply, Stands, Submits
<1>7. BodyArchived'
  BY Parts DEF BodyArchived, WaveAgree, Steady, Visit, ctx, channel, calls, walk, media, supply, Stands, Submits
<1>. QED
  BY <1>1, <1>2, <1>3, <1>4, <1>5, <1>6, <1>7

LEMMA QuietKeeps ==
    ASSUME IInv, Quiet
    PROVE  IInv'
<1>. USE EmptyItem, KindAssumption DEF IInv
<1>1. TypeOK'
  <2>1. left' \in 0 .. Cap /\ busy' \in BOOLEAN /\ token' = token
    BY Counts DEF TypeOK, Quiet, ctx, channel, calls, walk, media, supply, Stands, Submits
  <2>2. n' \in [visits : Nat, cancels : Nat, stops : Nat, evictions : Nat]
    BY Counts DEF TypeOK, Quiet, ctx, channel, calls, walk, media, supply, Stands, Submits
  <2>. QED
    BY <2>1, <2>2 DEF TypeOK, Quiet, ctx, channel, calls, walk, media, supply, Stands, Submits
<1>2. OwnersAgree'
  BY Parts, Fields DEF OwnersAgree, Holds, Phases, Quiet, ctx, channel, calls, walk, media, supply, Stands, Submits
<1>3. JobsAgree'
  BY Parts, Fields DEF JobsAgree, Holds, Out, Apt, L1s, L2s, Quiet, ctx, channel, calls, walk, media, supply, Stands, Submits
<1>4. WalkAgree'
  BY Parts, Fields DEF Passes, WalkAgree, JobsAgree, OwnersAgree, Answers, Out, Holds, L1s, Quiet, ctx, channel, calls, walk, media, supply, Stands, Submits
<1>5. CursorBehind'
  BY Parts, Fields DEF Passes, CursorBehind, WalkAgree, Pages, L1s, Quiet, ctx, channel, calls, walk, media, supply, Stands, Submits
<1>6. WaveAgree'
  BY Parts, Fields DEF WaveAgree, JobsAgree, OwnersAgree, Steady, Answers, Out, Holds, L2s, L1s, Quiet, ctx, channel, calls, walk, media, supply, Stands, Submits
<1>7. BodyArchived'
  BY Parts DEF BodyArchived, WaveAgree, Steady, Quiet, ctx, channel, calls, walk, media, supply, Stands, Submits
<1>. QED
  BY <1>1, <1>2, <1>3, <1>4, <1>5, <1>6, <1>7

LEMMA FetchesKeeps ==
    ASSUME IInv, NEW i \in Images, VisitorFetches(i)
    PROVE  IInv'
<1>. USE EmptyItem, KindAssumption DEF IInv
<1>1. TypeOK'
  <2>1. fetching' \in SUBSET Images
    BY Parts DEF VisitorFetches
  <2>. QED
    BY <2>1 DEF TypeOK, VisitorFetches, ctx, channel, calls, walk, supply
<1>2. OwnersAgree'
  BY Parts, Fields DEF OwnersAgree, Holds, Phases, VisitorFetches, ctx, channel, calls, walk, media, supply, Stands, Submits
<1>3. JobsAgree'
  BY Parts, Fields DEF JobsAgree, Holds, Out, Apt, L1s, L2s, VisitorFetches, ctx, channel, calls, walk, media, supply, Stands, Submits
<1>4. WalkAgree'
  BY Parts, Fields DEF Passes, WalkAgree, JobsAgree, OwnersAgree, Answers, Out, Holds, L1s, VisitorFetches, ctx, channel, calls, walk, media, supply, Stands, Submits
<1>5. CursorBehind'
  BY Parts, Fields DEF Passes, CursorBehind, WalkAgree, Pages, L1s, VisitorFetches, ctx, channel, calls, walk, media, supply, Stands, Submits
<1>6. WaveAgree'
  BY Parts, Fields DEF WaveAgree, JobsAgree, OwnersAgree, Steady, Answers, Out, Holds, L2s, L1s, VisitorFetches, ctx, channel, calls, walk, media, supply, Stands, Submits
<1>7. BodyArchived'
  BY Parts DEF BodyArchived, WaveAgree, Steady, VisitorFetches, ctx, channel, calls, walk, media, supply, Stands, Submits
<1>. QED
  BY <1>1, <1>2, <1>3, <1>4, <1>5, <1>6, <1>7

LEMMA FetchedKeeps ==
    ASSUME IInv, NEW i \in Images, VisitorFetched(i)
    PROVE  IInv'
<1>. USE EmptyItem, KindAssumption DEF IInv
<1>1. TypeOK'
  BY Parts, Fields DEF TypeOK, Items, VisitorFetched, ctx, channel, calls, walk, media, supply, Stands, Submits, Stages, Phases, Results, Waves, NoWave, Jobs, Images, L1s, L2s
<1>2. OwnersAgree'
  BY Parts, Fields DEF OwnersAgree, Holds, Phases, VisitorFetched, ctx, channel, calls, walk, media, supply, Stands, Submits
<1>3. JobsAgree'
  BY Parts, Fields DEF JobsAgree, Holds, Out, Apt, L1s, L2s, VisitorFetched, ctx, channel, calls, walk, media, supply, Stands, Submits
<1>4. WalkAgree'
  BY Parts, Fields DEF Passes, WalkAgree, JobsAgree, OwnersAgree, Answers, Out, Holds, L1s, VisitorFetched, ctx, channel, calls, walk, media, supply, Stands, Submits
<1>5. CursorBehind'
  BY Parts, Fields DEF Passes, CursorBehind, WalkAgree, Pages, L1s, VisitorFetched, ctx, channel, calls, walk, media, supply, Stands, Submits
<1>6. WaveAgree'
  BY Parts, Fields DEF WaveAgree, JobsAgree, OwnersAgree, Steady, Answers, Out, Holds, L2s, L1s, VisitorFetched, ctx, channel, calls, walk, media, supply, Stands, Submits
<1>7. BodyArchived'
  BY Parts DEF BodyArchived, WaveAgree, Steady, VisitorFetched, ctx, channel, calls, walk, media, supply, Stands, Submits
<1>. QED
  BY <1>1, <1>2, <1>3, <1>4, <1>5, <1>6, <1>7

LEMMA ResetsKeeps ==
    ASSUME IInv, WindowResets
    PROVE  IInv'
<1>. USE EmptyItem, KindAssumption DEF IInv
<1>1. TypeOK'
  <2>1. left' \in 0 .. Cap /\ busy' \in BOOLEAN /\ token' = token
    BY Counts DEF TypeOK, WindowResets, ctx, channel, calls, walk, media, supply, Stands, Submits
  <2>2. n' \in [visits : Nat, cancels : Nat, stops : Nat, evictions : Nat]
    BY Counts DEF TypeOK, WindowResets, ctx, channel, calls, walk, media, supply, Stands, Submits
  <2>. QED
    BY <2>1, <2>2 DEF TypeOK, WindowResets, ctx, channel, calls, walk, media, supply, Stands, Submits
<1>2. OwnersAgree'
  BY Parts, Fields DEF OwnersAgree, Holds, Phases, WindowResets, ctx, channel, calls, walk, media, supply, Stands, Submits
<1>3. JobsAgree'
  BY Parts, Fields DEF JobsAgree, Holds, Out, Apt, L1s, L2s, WindowResets, ctx, channel, calls, walk, media, supply, Stands, Submits
<1>4. WalkAgree'
  BY Parts, Fields DEF Passes, WalkAgree, JobsAgree, OwnersAgree, Answers, Out, Holds, L1s, WindowResets, ctx, channel, calls, walk, media, supply, Stands, Submits
<1>5. CursorBehind'
  BY Parts, Fields DEF Passes, CursorBehind, WalkAgree, Pages, L1s, WindowResets, ctx, channel, calls, walk, media, supply, Stands, Submits
<1>6. WaveAgree'
  BY Parts, Fields DEF WaveAgree, JobsAgree, OwnersAgree, Steady, Answers, Out, Holds, L2s, L1s, WindowResets, ctx, channel, calls, walk, media, supply, Stands, Submits
<1>7. BodyArchived'
  BY Parts DEF BodyArchived, WaveAgree, Steady, WindowResets, ctx, channel, calls, walk, media, supply, Stands, Submits
<1>. QED
  BY <1>1, <1>2, <1>3, <1>4, <1>5, <1>6, <1>7

LEMMA ArrivesKeeps ==
    ASSUME IInv, TokenArrives
    PROVE  IInv'
<1>. USE EmptyItem, KindAssumption DEF IInv
<1>1. TypeOK'
  BY Parts, Fields DEF TypeOK, Items, TokenArrives, ctx, channel, calls, walk, media, supply, Stands, Submits, Stages, Phases, Results, Waves, NoWave, Jobs, Images, L1s, L2s
<1>2. OwnersAgree'
  BY Parts, Fields DEF OwnersAgree, Holds, Phases, TokenArrives, ctx, channel, calls, walk, media, supply, Stands, Submits
<1>3. JobsAgree'
  BY Parts, Fields DEF JobsAgree, Holds, Out, Apt, L1s, L2s, TokenArrives, ctx, channel, calls, walk, media, supply, Stands, Submits
<1>4. WalkAgree'
  BY Parts, Fields DEF Passes, WalkAgree, JobsAgree, OwnersAgree, Answers, Out, Holds, L1s, TokenArrives, ctx, channel, calls, walk, media, supply, Stands, Submits
<1>5. CursorBehind'
  BY Parts, Fields DEF Passes, CursorBehind, WalkAgree, Pages, L1s, TokenArrives, ctx, channel, calls, walk, media, supply, Stands, Submits
<1>6. WaveAgree'
  BY Parts, Fields DEF WaveAgree, JobsAgree, OwnersAgree, Steady, Answers, Out, Holds, L2s, L1s, TokenArrives, ctx, channel, calls, walk, media, supply, Stands, Submits
<1>7. BodyArchived'
  BY Parts DEF BodyArchived, WaveAgree, Steady, TokenArrives, ctx, channel, calls, walk, media, supply, Stands, Submits
<1>. QED
  BY <1>1, <1>2, <1>3, <1>4, <1>5, <1>6, <1>7

LEMMA ExpiresKeeps ==
    ASSUME IInv, TokenExpires
    PROVE  IInv'
<1>. USE EmptyItem, KindAssumption DEF IInv
<1>1. TypeOK'
  BY Parts, Fields DEF TypeOK, Items, TokenExpires, ctx, channel, calls, walk, media, supply, Stands, Submits, Stages, Phases, Results, Waves, NoWave, Jobs, Images, L1s, L2s
<1>2. OwnersAgree'
  BY Parts, Fields DEF OwnersAgree, Holds, Phases, TokenExpires, ctx, channel, calls, walk, media, supply, Stands, Submits
<1>3. JobsAgree'
  BY Parts, Fields DEF JobsAgree, Holds, Out, Apt, L1s, L2s, TokenExpires, ctx, channel, calls, walk, media, supply, Stands, Submits
<1>4. WalkAgree'
  BY Parts, Fields DEF Passes, WalkAgree, JobsAgree, OwnersAgree, Answers, Out, Holds, L1s, TokenExpires, ctx, channel, calls, walk, media, supply, Stands, Submits
<1>5. CursorBehind'
  BY Parts, Fields DEF Passes, CursorBehind, WalkAgree, Pages, L1s, TokenExpires, ctx, channel, calls, walk, media, supply, Stands, Submits
<1>6. WaveAgree'
  BY Parts, Fields DEF WaveAgree, JobsAgree, OwnersAgree, Steady, Answers, Out, Holds, L2s, L1s, TokenExpires, ctx, channel, calls, walk, media, supply, Stands, Submits
<1>7. BodyArchived'
  BY Parts DEF BodyArchived, WaveAgree, Steady, TokenExpires, ctx, channel, calls, walk, media, supply, Stands, Submits
<1>. QED
  BY <1>1, <1>2, <1>3, <1>4, <1>5, <1>6, <1>7

LEMMA EvictsKeeps ==
    ASSUME IInv, NEW i \in Images, Evicts(i)
    PROVE  IInv'
<1>. USE EmptyItem, KindAssumption DEF IInv
<1>1. TypeOK'
  BY Parts, Fields DEF TypeOK, Items, Evicts, ctx, channel, calls, walk, media, supply, Stands, Submits, Stages, Phases, Results, Waves, NoWave, Jobs, Images, L1s, L2s
<1>2. OwnersAgree'
  BY Parts, Fields DEF OwnersAgree, Holds, Phases, Evicts, ctx, channel, calls, walk, media, supply, Stands, Submits
<1>3. JobsAgree'
  BY Parts, Fields DEF JobsAgree, Holds, Out, Apt, L1s, L2s, Evicts, ctx, channel, calls, walk, media, supply, Stands, Submits
<1>4. WalkAgree'
  BY Parts, Fields DEF Passes, WalkAgree, JobsAgree, OwnersAgree, Answers, Out, Holds, L1s, Evicts, ctx, channel, calls, walk, media, supply, Stands, Submits
<1>5. CursorBehind'
  BY Parts, Fields DEF Passes, CursorBehind, WalkAgree, Pages, L1s, Evicts, ctx, channel, calls, walk, media, supply, Stands, Submits
<1>6. WaveAgree'
  <2>1. n'.evictions # 0
    BY Counts DEF Evicts, TypeOK
  <2>. QED
    BY <2>1 DEF WaveAgree, Steady, Evicts, ctx, channel, calls, walk, media, supply, Stands, Submits
<1>7. BodyArchived'
  <2>1. n'.evictions # 0
    BY Counts DEF Evicts, TypeOK
  <2>. QED
    BY <2>1 DEF BodyArchived, Steady
<1>. QED
  BY <1>1, <1>2, <1>3, <1>4, <1>5, <1>6, <1>7

LEMMA ReloadKeeps ==
    ASSUME IInv, Reload
    PROVE  IInv'
<1>. USE EmptyItem, KindAssumption DEF IInv
<1>1. TypeOK'
  BY Parts, Fields DEF TypeOK, Items, Reload, ctx, channel, calls, walk, media, supply, Stands, Submits, Stages, Phases, Results, Waves, NoWave, Jobs, Images, L1s, L2s
<1>2. OwnersAgree'
  BY Parts, Fields DEF OwnersAgree, Holds, Phases, Reload, ctx, channel, calls, walk, media, supply, Stands, Submits
<1>3. JobsAgree'
  BY Parts, Fields DEF JobsAgree, Holds, Out, Apt, L1s, L2s, Reload, ctx, channel, calls, walk, media, supply, Stands, Submits
<1>4. WalkAgree'
  BY Parts, Fields DEF Passes, WalkAgree, JobsAgree, OwnersAgree, Answers, Out, Holds, L1s, Reload, ctx, channel, calls, walk, media, supply, Stands, Submits
<1>5. CursorBehind'
  BY Parts, Fields DEF Passes, CursorBehind, WalkAgree, Pages, L1s, Reload, ctx, channel, calls, walk, media, supply, Stands, Submits
<1>6. WaveAgree'
  BY Parts, Fields DEF WaveAgree, JobsAgree, OwnersAgree, Steady, Answers, Out, Holds, L2s, L1s, Reload, ctx, channel, calls, walk, media, supply, Stands, Submits
<1>7. BodyArchived'
  BY Parts DEF BodyArchived, WaveAgree, Steady, Reload, ctx, channel, calls, walk, media, supply, Stands, Submits
<1>. QED
  BY <1>1, <1>2, <1>3, <1>4, <1>5, <1>6, <1>7

LEMMA ShutdownKeeps ==
    ASSUME IInv, Shutdown
    PROVE  IInv'
<1>. USE EmptyItem, KindAssumption DEF IInv
<1>1. TypeOK'
  <2>1. cancelled' \in [Workers -> BOOLEAN] /\ root' \in BOOLEAN
    BY Parts DEF Shutdown
  <2>. QED
    BY <2>1 DEF TypeOK, Shutdown, ctx, channel, calls, walk, media, supply, Stands, Submits
<1>2. OwnersAgree'
  BY Parts, Fields DEF OwnersAgree, Holds, Phases, Shutdown, ctx, channel, calls, walk, media, supply, Stands, Submits
<1>3. JobsAgree'
  BY Parts, Fields DEF JobsAgree, Holds, Out, Apt, L1s, L2s, Shutdown, ctx, channel, calls, walk, media, supply, Stands, Submits
<1>4. WalkAgree'
  BY Parts, Fields DEF Passes, WalkAgree, JobsAgree, OwnersAgree, Answers, Out, Holds, L1s, Shutdown, ctx, channel, calls, walk, media, supply, Stands, Submits
<1>5. CursorBehind'
  BY Parts, Fields DEF Passes, CursorBehind, WalkAgree, Pages, L1s, Shutdown, ctx, channel, calls, walk, media, supply, Stands, Submits
<1>6. WaveAgree'
  BY DEF WaveAgree, Steady, Shutdown
<1>7. BodyArchived'
  BY DEF BodyArchived, Steady, Shutdown
<1>. QED
  BY <1>1, <1>2, <1>3, <1>4, <1>5, <1>6, <1>7

LEMMA RestartKeeps ==
    ASSUME IInv, Restart
    PROVE  IInv'
<1>. USE EmptyItem, KindAssumption DEF IInv
<1>1. TypeOK'
  <2>1. n' \in [visits : Nat, cancels : Nat, stops : Nat, evictions : Nat]
    BY Counts DEF TypeOK, Restart
  <2>2. wave' \in [L2s -> Waves]
    BY DEF Restart, Waves, NoWave
  <2>3. at' \in [Workers -> Stages] /\ got' \in [Workers -> Results]
    BY DEF Restart, Stages, Results
  <2>. QED
    BY <2>1, <2>2, <2>3, Parts DEF TypeOK, Restart, Phases
<1>2. OwnersAgree'
  BY Parts, Fields DEF OwnersAgree, Holds, Phases, Restart, ctx, channel, calls, walk, media, supply, Stands, Submits
<1>3. JobsAgree'
  BY Parts, Fields DEF JobsAgree, Holds, Out, Apt, L1s, L2s, Restart, ctx, channel, calls, walk, media, supply, Stands, Submits
<1>4. WalkAgree'
  BY Parts, Fields DEF Passes, WalkAgree, JobsAgree, OwnersAgree, Answers, Out, Holds, L1s, Restart, ctx, channel, calls, walk, media, supply, Stands, Submits
<1>5. CursorBehind'
  BY Parts, Fields DEF Passes, CursorBehind, WalkAgree, Pages, L1s, Restart, ctx, channel, calls, walk, media, supply, Stands, Submits
<1>6. WaveAgree' /\ BodyArchived'
  <2>1. n'.stops # 0
    BY Counts DEF Restart
  <2>. QED
    BY <2>1 DEF WaveAgree, BodyArchived, Steady
<1>. QED
  BY <1>1, <1>2, <1>3, <1>4, <1>5, <1>6

-----------------------------------------------------------------------------
\* What a function of the loop leaves behind, whatever kind of item it ran: an
\* answer, and an archive, a cache and a budget that only moved the right way.
Grows ==
    /\ walked' \in [L1s -> SUBSET (Pages \X BOOLEAN)]
    /\ \A v \in L1s : walked[v] \subseteq walked'[v]
    /\ cached' \in SUBSET Images /\ cached \subseteq cached'
    /\ known' \in SUBSET Pasted
    /\ mediaDone' \in BOOLEAN /\ (mediaDone' => mediaDone)
    /\ token' = token /\ left' \in 0 .. Cap /\ busy' = busy

Fits(r) ==
    /\ r = "more" => item.by \in L1s /\ item.job[2] < LastPage
                     /\ \E taken \in BOOLEAN : <<item.job[2], taken>> \in walked'[item.by]
    /\ item.by \in L2s /\ r # "fail" => item.job[2] \in cached'

LEMMA Supplies ==
    ASSUME TypeOK
    PROVE  /\ UNCHANGED supply =>
                token' = token /\ left' \in 0 .. Cap /\ busy' = busy
           /\ Usable /\ Spends =>
                token' = token /\ left' \in 0 .. Cap /\ busy' = busy
BY Counts DEF TypeOK, supply, Usable, Spends

\* Every function ends in an answer that fits what it left in the archive.
LEMMA Outcome ==
    ASSUME IInv, Runs
    PROVE  \E r \in Results : Ends(r) /\ Grows /\ Fits(r)
<1>1. /\ item.by \in Workers /\ item.job \in Jobs /\ Apt(item.by, item.job)
  BY Parts, Fields DEF IInv, Runs, JobsAgree, OwnersAgree
<1>2. TypeOK
  BY DEF IInv
<1>3. ASSUME walked' = walked, cached' = cached, known' = known, mediaDone' = mediaDone,
             token' = token, left' \in 0 .. Cap, busy' = busy
      PROVE  Grows
  BY <1>2, <1>3, Parts DEF Grows
<1>4. ASSUME NEW p, item.by \in L1s, item.job[2] = p, ListingFetched(item.by, p)
      PROVE  \E r \in Results : Ends(r) /\ Grows /\ Fits(r)
  <2>1. p \in Pages /\ item.by \notin L2s
    BY <1>1, <1>4, JobTypes DEF Apt, L1s, L2s
  <2>2. Grows /\ \E taken \in BOOLEAN : <<p, taken>> \in walked'[item.by]
    BY <1>2, <1>4, <2>1, Parts, Supplies DEF ListingFetched, Grows
  <2>3. CASE p < LastPage /\ Ends("more")
    BY <1>4, <2>1, <2>2, <2>3 DEF Fits, Results
  <2>4. CASE Ends("last")
    BY <2>1, <2>2, <2>4 DEF Fits, Results
  <2>. QED
    BY <1>4, <2>3, <2>4 DEF ListingFetched
<1>5. ASSUME ListingFails
      PROVE  Ends("fail") /\ Grows
  BY <1>2, <1>3, <1>5, Supplies DEF ListingFails
<1>6. ASSUME NEW i, item.by \in L2s, item.job[2] = i, ImageFetched(i)
      PROVE  Ends("ok") /\ Grows /\ Fits("ok")
  <2>1. i \in Images
    BY <1>1, <1>6, JobTypes DEF Apt
  <2>. QED
    BY <1>2, <1>6, <2>1, Parts, Supplies DEF ImageFetched, Grows, Fits
<1>7. ASSUME Unfetched
      PROVE  Ends("fail") /\ Grows
  BY <1>2, <1>3, <1>7, Supplies DEF Unfetched
<1>8. ASSUME ThreadFetched
      PROVE  Ends("ok") /\ Grows
  BY <1>2, <1>8, Parts, Supplies DEF ThreadFetched, Grows, Rearmed
<1>9. ASSUME ThreadFails
      PROVE  Ends("fail") /\ Grows
  BY <1>2, <1>3, <1>9, Supplies DEF ThreadFails
<1>10. ASSUME AboutFetched
       PROVE  (Ends("icon") \/ Ends("bare")) /\ Grows
  BY <1>2, <1>3, <1>10, Supplies, BudgetAssumption DEF AboutFetched
<1>11. ASSUME IconFetched
       PROVE  Ends("ok") /\ Grows
  BY <1>2, <1>3, <1>11, Supplies DEF IconFetched
<1>12. Fits("fail") /\ (item.by \notin L2s => Fits("ok") /\ Fits("icon") /\ Fits("bare"))
  BY DEF Fits
<1>13. {"fail", "ok", "icon", "bare"} \subseteq Results
  BY DEF Results
<1>14. CASE Kind[item.by] = "L1"
  BY <1>1, <1>4, <1>5, <1>12, <1>13, <1>14 DEF Runs, L1s
<1>15. CASE Kind[item.by] = "L2"
  BY <1>1, <1>6, <1>7, <1>12, <1>13, <1>15 DEF Runs, L2s
<1>16. CASE Kind[item.by] = "L3"
  BY <1>8, <1>9, <1>12, <1>13, <1>16 DEF Runs, L2s
<1>17. CASE Kind[item.by] = "L4"
  BY <1>7, <1>10, <1>11, <1>12, <1>13, <1>17 DEF Runs, L2s
<1>. QED
  BY <1>14, <1>15, <1>16, <1>17 DEF Runs

\* Runs: close(item.done) answers the one submitter that waits for the item.
LEMMA RunsKeeps ==
    ASSUME IInv, Runs
    PROVE  IInv'
<1>. USE EmptyItem, KindAssumption DEF IInv
<1>1. PICK r \in Results : Ends(r) /\ Grows /\ Fits(r)
  BY Outcome
<1>2. /\ phase = "running" /\ phase' = "cooldown" /\ item' = Empty
      /\ UNCHANGED <<root, cancelled, queue, at, job, page, saved, wave, fetching, icon, n>>
  BY <1>1 DEF Runs, Ends, Closes, ctx
<1>3. /\ item.by \in Workers /\ item \in Items /\ Apt(item.by, item.job)
      /\ closed' = [closed EXCEPT ![item.by] = item.owned \/ @]
      /\ got' = [got EXCEPT ![item.by] = IF item.owned THEN r ELSE @]
  BY <1>1, <1>2, Parts DEF JobsAgree, OwnersAgree, Ends, Closes
<1>4. \A v \in Workers :
        /\ closed'[v] = (closed[v] \/ Holds(item, v))
        /\ got'[v] = IF Holds(item, v) THEN r ELSE got[v]
  BY <1>3, Parts, Fields DEF Holds
<1>5. TypeOK'
  <2>1. closed' \in [Workers -> BOOLEAN] /\ got' \in [Workers -> Results]
    BY <1>3, Parts, Fields
  <2>2. UNCHANGED <<root, cancelled, queue, at, job, page, saved, wave, fetching, icon, n>>
    BY <1>2
  <2>. QED
    BY <1>1, <1>2, <2>1, <2>2 DEF TypeOK, Grows, Phases
<1>6. OwnersAgree'
  <2>1. ASSUME NEW v \in Workers
        PROVE  /\ (at[v] = "waiting" /\ ~closed'[v]) = (Holds(queue, v) \/ Holds(item', v))
               /\ ~(Holds(queue, v) /\ Holds(item', v))
    BY <1>2, <1>4 DEF OwnersAgree
  <2>. QED
    BY <1>2, <2>1 DEF OwnersAgree, Holds
<1>7. JobsAgree'
  <2>1. \A v \in Workers : at[v] = "sending" => ~closed'[v]
    BY <1>4 DEF JobsAgree, OwnersAgree
  <2>. QED
    BY <1>2, <2>1 DEF JobsAgree, Holds, Apt, Out
<1>8. WalkAgree'
  <2>1. ASSUME NEW v \in L1s, Answers(v)', got'[v] = "more"
        PROVE  page[v] < LastPage /\ Passes(v, page[v])'
    <3>1. v \in Workers
      BY DEF L1s
    <3>2. CASE Holds(item, v)
      <4>1. r = "more" /\ item.by = v /\ item.job = job[v] /\ at[v] = "waiting"
        BY <1>4, <2>1, <3>1, <3>2 DEF Holds, JobsAgree, OwnersAgree
      <4>2. item.job[2] = page[v]
        BY <4>1, Parts, JobTypes DEF Passes, WalkAgree, Out
      <4>. QED
        BY <1>1, <1>2, <4>1, <4>2 DEF Fits, Passes
    <3>3. CASE ~Holds(item, v)
      BY <1>1, <1>2, <1>4, <2>1, <3>1, <3>3 DEF Passes, WalkAgree, Answers, Grows
    <3>. QED
      BY <3>2, <3>3
  <2>2. \A v \in L1s : at[v] \in Out => job[v] = Listing(page[v])
    BY DEF Passes, WalkAgree
  <2>. QED
    BY <1>2, <2>1, <2>2 DEF Passes, WalkAgree, Answers, Out, Listing
<1>9. CursorBehind'
  BY <1>1, <1>2 DEF Passes, CursorBehind, Grows
<1>10. WaveAgree'
  <2>1. ASSUME Steady, NEW v \in L2s, Answers(v)', got'[v] # "fail"
        PROVE  job[v][2] \in cached'
    <3>1. v \in Workers
      BY DEF L2s
    <3>2. CASE Holds(item, v)
      BY <1>1, <1>4, <2>1, <3>1, <3>2 DEF Holds, JobsAgree, Fits
    <3>3. CASE ~Holds(item, v)
      BY <1>1, <1>2, <1>4, <2>1, <3>1, <3>3 DEF WaveAgree, Answers, Grows
    <3>. QED
      BY <3>2, <3>3
  <2>2. ASSUME Steady, NEW v \in L2s, wave[v].ok,
               at[v] \in (Out \ {"left"}) \union {"working"}
        PROVE  Body \subseteq wave[v].todo \union wave[v].frozen \union cached'
    BY <1>1, <2>2 DEF WaveAgree, Grows
  <2>. QED
    BY <1>2, <2>1, <2>2 DEF WaveAgree, Steady, Answers, Out
<1>11. BodyArchived'
  BY <1>1, <1>2 DEF BodyArchived, Steady, Grows
<1>. QED
  BY <1>5, <1>6, <1>7, <1>8, <1>9, <1>10, <1>11

LEMMA InitHolds ==
    ASSUME Init
    PROVE  IInv
<1>. USE EmptyItem, KindAssumption
<1>1. TypeOK
  <2>1. n \in [visits : Nat, cancels : Nat, stops : Nat, evictions : Nat]
    BY DEF Init
  <2>2. /\ left \in 0 .. Cap
        /\ page \in [L1s -> Pages] /\ saved \in [L1s -> Pages]
    BY BudgetAssumption, PageAssumption DEF Init, Pages
  <2>3. wave \in [L2s -> Waves] /\ job \in [Workers -> Jobs]
    BY JobTypes DEF Init, Waves, NoWave
  <2>. QED
    BY <2>1, <2>2, <2>3 DEF TypeOK, Init, Stages, Phases, Results
<1>2. OwnersAgree /\ JobsAgree
  <2>1. /\ queue = Empty /\ item = Empty /\ phase = "idle"
        /\ \A w \in Workers : at[w] \in {"off", "idle"}
    BY DEF Init
  <2>. QED
    BY <2>1 DEF OwnersAgree, JobsAgree, Out
<1>3. WalkAgree /\ WaveAgree
  <2>1. root /\ \A w \in Workers : at[w] \in {"off", "idle"}
    BY DEF Init
  <2>. QED
    BY <2>1 DEF Passes, WalkAgree, WaveAgree, Answers, Out, L1s, L2s
<1>4. CursorBehind /\ BodyArchived
  BY PageAssumption DEF Passes, CursorBehind, BodyArchived, Steady, Init
<1>. QED
  BY <1>1, <1>2, <1>3, <1>4 DEF IInv

LEMMA StutterKeeps ==
    ASSUME IInv, UNCHANGED vars
    PROVE  IInv'
<1>. USE DEF IInv, vars, ctx, channel, calls, walk, media, supply
<1>1. TypeOK'
  BY DEF TypeOK
<1>2. OwnersAgree' /\ JobsAgree'
  BY DEF OwnersAgree, JobsAgree, Holds, Apt
<1>3. WalkAgree' /\ CursorBehind'
  BY DEF Passes, WalkAgree, Answers, CursorBehind
<1>4. WaveAgree' /\ BodyArchived' = BodyArchived
  BY DEF WaveAgree, Steady, Answers, BodyArchived, ctx
<1>. QED
  BY <1>1, <1>2, <1>3, <1>4

LEMMA NextKeeps ==
    ASSUME IInv, [Next]_vars
    PROVE  IInv'
<1>1. ASSUME NEW w \in Workers, WorkerStep(w) PROVE IInv'
  <2>1. CASE Send(w) \/ Wakes(w) \/ Leaves(w)
    BY <2>1, Sends, WakesKeeps, LeavesKeeps
  <2>2. CASE L1Step(w)
    BY <2>2, L1StartsKeeps, L1EndsKeeps, L1SavesKeeps, L1ExitsKeeps DEF L1Step
  <2>3. CASE L2Step(w)
    BY <2>3, L2StartsKeeps, L2SkipsKeeps, L2FreezesKeeps, L2SubmitsKeeps,
       L2DownloadedKeeps, L2RechecksKeeps, L2MarksKeeps, L2UnwindsKeeps DEF L2Step
  <2>4. CASE L3Step(w)
    BY <2>4, L3StartsKeeps, L3EndsKeeps DEF L3Step
  <2>5. CASE L4Step(w)
    BY <2>5, L4StartsKeeps, L4JudgesKeeps, L4DownloadsKeeps, L4SavesKeeps,
       L4GivesUpKeeps DEF L4Step
  <2>. QED
    BY <1>1, <2>1, <2>2, <2>3, <2>4, <2>5 DEF WorkerStep
<1>2. CASE LoopStep
  BY <1>2, Takes, BudgetKeeps, CheckKeeps, PauseKeeps, RunsKeeps, CooldownKeeps,
     StopKeeps DEF LoopStep
<1>3. CASE Environment
  <2>1. ASSUME NEW b \in BOOLEAN, Visit(b) PROVE IInv'
    BY <2>1, VisitKeeps
  <2>2. ASSUME NEW i \in Images, VisitorFetches(i) \/ VisitorFetched(i) \/ Evicts(i)
        PROVE  IInv'
    BY <2>2, FetchesKeeps, FetchedKeeps, EvictsKeeps
  <2>. QED
    BY <1>3, <2>1, <2>2, QuietKeeps, ResetsKeeps, ArrivesKeeps, ExpiresKeeps
       DEF Environment
<1>4. CASE Launch \/ Reload \/ Shutdown \/ Restart
  BY <1>4, LaunchKeeps, ReloadKeeps, ShutdownKeeps, RestartKeeps
<1>. QED
  BY <1>1, <1>2, <1>3, <1>4, StutterKeeps DEF Next

\* The strengthening of the properties is an invariant of the dispatcher.
LEMMA Invariant == Spec => []IInv
<1>1. Init => IInv
  BY InitHolds
<1>2. IInv /\ [Next]_vars => IInv'
  BY NextKeeps
<1>. QED
  BY <1>1, <1>2, PTL DEF Spec

\* Every variable keeps its type, whatever the workers, the length of the
\* listings, the window and the bounds.
THEOREM TypeCorrect == Spec => []TypeOK
<1>1. IInv => TypeOK
  BY DEF IInv
<1>. QED
  BY <1>1, Invariant, PTL

\* A submitter waits exactly for the one item of its own that the channel or
\* the loop holds (submit and dispatchLoop), through cancellations and restarts.
THEOREM OwnersAlwaysAgree == Spec => []OwnersAgree
<1>1. IInv => OwnersAgree
  BY DEF IInv
<1>. QED
  BY <1>1, Invariant, PTL

\* The cursor of a listing never passes a page that the walk has not fetched
\* and handed to the archive (runOneSubFetch), in memory and in the stored
\* bucket state.
THEOREM CursorNeverAhead == Spec => []CursorBehind
<1>1. IInv => CursorBehind
  BY DEF IInv
<1>. QED
  BY <1>1, Invariant, PTL

\* While the process is not stopped and nothing is evicted, a post marked done
\* has its own images on disk (runL2Wave), however waves, visitors and settings
\* saves interleave.
THEOREM DoneMeansArchived == Spec => []BodyArchived
<1>1. IInv => BodyArchived
  BY DEF IInv
<1>. QED
  BY <1>1, Invariant, PTL

\* What the dispatcher's run checks, together: items, cursors and done marks
\* (submit, bucketLoop, runL2Wave).
THEOREM WorkStaysAccounted == Spec => []WorkAccounted
<1>1. OwnersAgree /\ CursorBehind /\ BodyArchived => WorkAccounted
  BY DEF WorkAccounted
<1>. QED
  BY <1>1, OwnersAlwaysAgree, CursorNeverAhead, DoneMeansArchived, PTL

=============================================================================
