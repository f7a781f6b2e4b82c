---------------------------- MODULE RedditProofs ----------------------------
(***************************************************************************)
(* Proofs about what is asked of Reddit and what is read of the posts it   *)
(* gave. HRLimit, for every number of visitors, background fetches and     *)
(* tiers and every window and threshold: Covered adds to the types that a  *)
(* script in flight is at most Lag old and that a cooldown key outlives a  *)
(* full window from the last trip; Capped relates what a window has        *)
(* counted to the calls that may still add to it: once the threshold is    *)
(* reached the key covers the rest of the window, so only requests that    *)
(* were let through before it can, each with the calls it has left. And,   *)
(* for every set of subreddits, that a restart keeps a bucket's schedule   *)
(* and that the ledger of the subreddits is truthful. Of the archive:      *)
(* nobody is shown what his preferences hide, the pages of a search divide *)
(* its matches, and a sweep of the random walk hands out each post once.   *)
(* Of a search, whatever the listings: folding accounts for every post,    *)
(* and nothing on one of the visitor's pages repeats what another has.     *)
(***************************************************************************)
EXTENDS HRLimit, BucketSchedule, SubLedger, Listings, RandomWalk,
        SearchSession, FiniteSetTheorems, WellFoundedInduction, TLAPS

-----------------------------------------------------------------------------
(* HRLimit: what a window lets through.                                    *)

Fresh == \A c \in Callers : act[c].pc = "record" => act[c].age <= Lag
Covered == TypeOK /\ BackoffShown /\ Fresh /\ \A t \in Tiers : held[t] <= cooldown[t]

\* The calls of requests let through that the running window may still count,
\* and those that only the last one may: the k-th of c is <<c, k>>.
Pairs == HR \X (1..Calls)
Under(t) == {p \in Pairs : \/ act[p[1]].pc \in {"clear", "call"} /\ p[2] > spent[p[1]]
                           \/ act[p[1]].pc = "record" /\ p[2] > spent[p[1]] + 1
                           \/ act[p[1]].pc = "record" /\ ~Late(p[1], t) /\ p[2] > spent[p[1]]}
Behind(t) == {p \in Pairs : act[p[1]].pc = "record" /\ Late(p[1], t) /\ p[2] = spent[p[1]] + 1}
Limit(t) == Threshold[t] + Cardinality(Pairs) - 1

Running(t) ==
    \/ cur[t] < Threshold[t]
    \/ cooldown[t] >= Window[t] - pos[t] /\ mine[t] + Cardinality(Under(t)) <= Limit(t)
Past(t) == prev[t] < Threshold[t] \/ was[t] + Cardinality(Behind(t)) <= Limit(t)
Capped == \A t \in Tiers : mine[t] <= cur[t] /\ was[t] <= prev[t] /\ Running(t) /\ Past(t)

IInv == Covered /\ Capped

-----------------------------------------------------------------------------
(* Types, and a key that outlives the window.                               *)

LEMMA Sizes ==
    ASSUME NEW t \in Tiers
    PROVE  /\ Window[t] \in Nat /\ Window[t] > 0 /\ Threshold[t] \in Nat /\ Threshold[t] > 0
           /\ Lag \in Nat /\ Lag <= Window[t]
BY TiersAssumption

LEMMA Bounds == MinBackoff \in Nat /\ MaxBackoff \in Nat /\ 0 < MinBackoff /\ MinBackoff <= MaxBackoff
BY BackoffAssumption

LEMMA Parts ==
    ASSUME TypeOK
    PROVE  /\ up \in BOOLEAN /\ act \in [Callers -> Act] /\ spent \in [Callers -> 0..Calls - 1]
           /\ pos \in [Tiers -> Nat] /\ \A t \in Tiers : pos[t] < Window[t]
           /\ cur \in [Tiers -> Nat] /\ prev \in [Tiers -> Nat] /\ cooldown \in [Tiers -> Nat]
           /\ mine \in [Tiers -> Nat] /\ was \in [Tiers -> Nat]
           /\ held \in [Tiers -> Nat]
           /\ backoff \in 0..MaxBackoff /\ probe \in 0..MaxBackoff
BY DEF TypeOK

LEMMA AtType ==
    ASSUME NEW p \in Places, NEW a \in Nat
    PROVE  At(p, a) \in Act /\ At(p, a).pc = p /\ At(p, a).age = a
BY DEF At, Act

LEMMA GrownType == ASSUME backoff \in 0..MaxBackoff PROVE Grown \in 0..MaxBackoff
BY Bounds DEF Grown, Least

LEMMA Sent ==
    ASSUME act \in [Callers -> Act], NEW c \in Callers, NEW p \in Places, Goto(c, p)
    PROVE  /\ act' \in [Callers -> Act] /\ act'[c].pc = p /\ act'[c].age = 0
           /\ \A d \in Callers : d # c => act'[d] = act[d]
<1>1. At(p, 0) \in Act /\ At(p, 0).pc = p /\ At(p, 0).age = 0  BY AtType
<1>2. act' = [act EXCEPT ![c] = At(p, 0)]  BY DEF Goto
<1>q. QED BY <1>1, <1>2

\* Nothing but one goroutine's place changes.
Moves(c, p) == Goto(c, p) /\ UNCHANGED <<pos, redis, ghosts>>

LEMMA MovesCovered ==
    ASSUME Covered, NEW c \in Callers, NEW p \in Places, Moves(c, p), up' \in BOOLEAN,
           spent' \in [Callers -> 0..Calls - 1],
           backoff' \in 0..MaxBackoff, probe' \in 0..MaxBackoff, probe' <= backoff'
    PROVE  Covered'
<1>1. TypeOK /\ BackoffShown /\ Fresh /\ \A t \in Tiers : held[t] <= cooldown[t]  BY DEF
    Covered
<1>2. UNCHANGED <<pos, cur, prev, cooldown, mine, was, held>>  BY DEF Moves,
    redis, ghosts
<1>3. act \in [Callers -> Act] /\ Goto(c, p)  BY <1>1, Parts DEF Moves
<1>4. /\ act' \in [Callers -> Act] /\ act'[c].pc = p /\ act'[c].age = 0
      /\ \A d \in Callers : d # c => act'[d] = act[d]  BY <1>3, Sent
<1>5. TypeOK'  BY <1>1, <1>2, <1>4 DEF TypeOK
<1>6. Fresh'
  <2> SUFFICES ASSUME NEW d \in Callers, act'[d].pc = "record" PROVE act'[d].age <= Lag
      BY DEF Fresh
  <2>1. CASE d = c  BY <2>1, <1>4, TiersAssumption
  <2>2. CASE d # c  BY <2>2, <1>4, <1>1 DEF Fresh
  <2>q. QED BY <2>1, <2>2
<1>7. BackoffShown'  BY DEF BackoffShown
<1>8. \A t \in Tiers : held'[t] <= cooldown'[t]  BY <1>1, <1>2
<1>q. QED BY <1>5, <1>6, <1>7, <1>8 DEF Covered

LEMMA StampType ==
    ASSUME Covered, NEW c \in Callers, act[c].pc = "record", NEW t \in Tiers
    PROVE  /\ act[c].age \in Nat /\ act[c].age <= Lag
           /\ Stamp(c, t) \in Nat /\ Stamp(c, t) < Window[t]
           /\ Count(c, t) \in Nat /\ TTL(c, t) \in Nat
           /\ TTL(c, t) >= Window[t] /\ TTL(c, t) >= Window[t] - pos[t]
<1>1. TypeOK /\ act[c].age <= Lag  BY DEF Covered, Fresh
<1>2. /\ pos[t] \in Nat /\ pos[t] < Window[t] /\ cur[t] \in Nat /\ prev[t] \in Nat
      /\ act[c] \in Act  BY <1>1, Parts
<1>3. act[c].age \in Nat  BY <1>2 DEF Act
<1>4. Window[t] \in Nat /\ Window[t] > 0 /\ Lag \in Nat /\ Lag <= Window[t]  BY Sizes
<1>5. CASE Late(c, t)  BY <1>5, <1>1, <1>2, <1>3, <1>4 DEF Late, Stamp, Count, TTL
<1>6. CASE ~Late(c, t)  BY <1>6, <1>1, <1>2, <1>3, <1>4 DEF Late, Stamp, Count, TTL
<1>q. QED BY <1>5, <1>6

\* What GoesOn leaves: the request is answered, or has one call more behind it.
LEMMA WentOn ==
    ASSUME TypeOK, NEW c \in Callers, GoesOn(c)
    PROVE  /\ act' \in [Callers -> Act] /\ spent' \in [Callers -> 0..Calls - 1]
           /\ act'[c].pc \in {"idle", "call"} /\ act'[c].age = 0
           /\ act'[c].pc = "call" => spent'[c] = spent[c] + 1
           /\ \A d \in Callers : d # c => act'[d] = act[d] /\ spent'[d] = spent[d]
<1>1. act \in [Callers -> Act] /\ spent \in [Callers -> 0..Calls - 1]  BY Parts
<1>2. Calls \in Nat /\ Calls > 0  BY SetsAssumption
<1>3. "idle" \in Places /\ "call" \in Places  BY DEF Places
<1>4. CASE Goto(c, "idle") /\ spent' = [spent EXCEPT ![c] = 0]
  <2>1. /\ act' \in [Callers -> Act] /\ act'[c].pc = "idle" /\ act'[c].age = 0
        /\ \A d \in Callers : d # c => act'[d] = act[d]  BY <1>1, <1>3, <1>4, Sent
  <2>2. spent' \in [Callers -> 0..Calls - 1] /\ \A d \in Callers : d # c => spent'[d] = spent[d]
    BY <1>1, <1>2, <1>4
  <2>q. QED BY <2>1, <2>2
<1>5. CASE /\ spent[c] + 1 < Calls /\ Goto(c, "call")
           /\ spent' = [spent EXCEPT ![c] = spent[c] + 1]
  <2>1. /\ act' \in [Callers -> Act] /\ act'[c].pc = "call" /\ act'[c].age = 0
        /\ \A d \in Callers : d # c => act'[d] = act[d]  BY <1>1, <1>3, <1>5, Sent
  <2>2. spent[c] \in 0..Calls - 1 /\ spent[c] + 1 \in 0..Calls - 1  BY <1>1, <1>2, <1>5
  <2>3. /\ spent' \in [Callers -> 0..Calls - 1] /\ spent'[c] = spent[c] + 1
        /\ \A d \in Callers : d # c => spent'[d] = spent[d]  BY <1>1, <1>5, <2>2
  <2>q. QED BY <2>1, <2>3
<1>q. QED BY <1>4, <1>5 DEF GoesOn

LEMMA RecordCovered == ASSUME Covered, NEW c \in Callers, Record(c) PROVE Covered'
<1>1. TypeOK /\ BackoffShown /\ Fresh /\ \A t \in Tiers : held[t] <= cooldown[t]  BY DEF
    Covered
<1>2. act[c].pc = "record"  BY DEF Record
<1>3. \A t \in Tiers : /\ Count(c, t) \in Nat /\ TTL(c, t) \in Nat /\ TTL(c, t) >= Window[t]
  BY <1>2, StampType
<1>4. /\ cur' \in [Tiers -> Nat] /\ prev' \in [Tiers -> Nat]
  BY <1>1, <1>3, Parts DEF Record
<1>5. cooldown' \in [Tiers -> Nat] /\ held' \in [Tiers -> Nat]
  BY <1>1, <1>3, Parts, Sizes DEF Record
<1>7. mine' \in [Tiers -> Nat] /\ was' \in [Tiers -> Nat]  BY <1>1, Parts DEF Record
<1>8. UNCHANGED <<up, pos, backoff, probe>>  BY DEF Record
<1>9. /\ act' \in [Callers -> Act] /\ act'[c].pc # "record"
      /\ \A d \in Callers : d # c => act'[d] = act[d]
      /\ spent' \in [Callers -> 0..Calls - 1]
  <2>1. GoesOn(c)  BY DEF Record
  <2>q. QED BY <2>1, <1>1, WentOn
<1>10. TypeOK'  BY <1>1, <1>4, <1>5, <1>7, <1>8, <1>9 DEF TypeOK
<1>11. Fresh'
  <2> SUFFICES ASSUME NEW d \in Callers, act'[d].pc = "record" PROVE act'[d].age <= Lag
      BY DEF Fresh
  <2>1. d # c  BY <1>9
  <2>q. QED BY <2>1, <1>9, <1>1 DEF Fresh
<1>12. BackoffShown'  BY <1>1, <1>8 DEF BackoffShown
<1>13. ASSUME NEW t \in Tiers PROVE held'[t] <= cooldown'[t]
  <2>1. /\ cooldown'[t] = IF Trips(c, t) THEN TTL(c, t) ELSE cooldown[t]
        /\ held'[t] = IF Trips(c, t) THEN Window[t] ELSE held[t]  BY DEF Record
  <2>q. QED BY <2>1, <1>1, <1>3
<1>q. QED BY <1>10, <1>11, <1>12, <1>13 DEF Covered

LEMMA DownType == \A n \in Nat : Down(n) \in Nat /\ Down(n) <= n /\ (n > 0 => Down(n) = n - 1)
BY DEF Down

LEMMA TickedAct ==
    ASSUME Covered, Tick
    PROVE  /\ act' \in [Callers -> Act]
           /\ \A c \in Callers : /\ act'[c].pc = act[c].pc
                                 /\ act[c].pc = "record" => /\ act[c].age < Lag
                                                            /\ act'[c].age = act[c].age + 1
<1> DEFINE aged(c) == CASE act[c].pc = "record" -> act[c].age + 1
                        [] act[c].pc \in {"probe", "ping", "failed"} ->
                               Least(act[c].age + 1, MaxBackoff)
                        [] OTHER -> 0
<1>1. \A c \in Callers : act[c] \in Act  BY Parts DEF Covered
<1>2. \A c \in Callers : act[c].pc \in Places /\ act[c].age \in Nat  BY <1>1 DEF Act
<1>3. ASSUME NEW c \in Callers PROVE aged(c) \in Nat
  <2>1. CASE act[c].pc = "record"  BY <2>1, <1>2
  <2>2. CASE act[c].pc \in {"probe", "ping", "failed"}  BY <2>2, <1>2, Bounds DEF Least
  <2>3. CASE act[c].pc \notin {"record", "probe", "ping", "failed"}  BY <2>3
  <2>q. QED BY <2>1, <2>2, <2>3
<1>4. act' = [c \in Callers |-> At(act[c].pc, aged(c))]  BY DEF Tick
<1>5. ASSUME NEW c \in Callers
      PROVE  At(act[c].pc, aged(c)) \in Act /\ act'[c].pc = act[c].pc /\ act'[c].age = aged(c)
  BY <1>2, <1>3, <1>4, AtType
<1>6. act' \in [Callers -> Act]  BY <1>4, <1>5
<1>7. ASSUME NEW c \in Callers, act[c].pc = "record"
      PROVE  act[c].age < Lag /\ act'[c].age = act[c].age + 1
  BY <1>5, <1>7 DEF Tick
<1>q. QED BY <1>5, <1>6, <1>7

LEMMA TickCovered == ASSUME Covered, Tick PROVE Covered'
<1>1. TypeOK /\ BackoffShown /\ Fresh /\ \A t \in Tiers : held[t] <= cooldown[t]  BY DEF
    Covered
<1>2. /\ act' \in [Callers -> Act]
      /\ \A c \in Callers : /\ act'[c].pc = act[c].pc
                            /\ act[c].pc = "record" => /\ act[c].age < Lag
                                                       /\ act'[c].age = act[c].age + 1
  BY TickedAct
<1>3. UNCHANGED <<up, backoff, spent>> /\ probe' = Down(probe)  BY DEF Tick
<1>4. probe' \in 0..MaxBackoff /\ probe' <= backoff'
  BY <1>1, <1>3, Parts, Bounds DEF BackoffShown, Down
<1>5. pos' \in [Tiers -> Nat] /\ \A t \in Tiers : pos'[t] < Window[t]
  <2>1. pos \in [Tiers -> Nat] /\ \A t \in Tiers : pos[t] < Window[t]  BY <1>1, Parts
  <2>2. pos' = [t \in Tiers |-> IF Ends(t) THEN 0 ELSE pos[t] + 1]  BY DEF Tick
  <2>3. ASSUME NEW t \in Tiers PROVE pos'[t] \in Nat /\ pos'[t] < Window[t]
    <3>1. pos'[t] = IF pos[t] + 1 = Window[t] THEN 0 ELSE pos[t] + 1  BY <2>2 DEF Ends
    <3>2. pos[t] \in Nat /\ pos[t] < Window[t] /\ Window[t] \in Nat /\ Window[t] > 0
      BY <2>1, Sizes
    <3>q. QED BY <3>1, <3>2
  <2>4. pos' \in [Tiers -> Nat]  BY <2>1, <2>2
  <2>q. QED BY <2>3, <2>4
<1>6. cur' \in [Tiers -> Nat] /\ prev' \in [Tiers -> Nat]  BY <1>1, Parts DEF Tick
<1>7. mine' \in [Tiers -> Nat] /\ was' \in [Tiers -> Nat]  BY <1>1, Parts DEF Tick
<1>8. cooldown' \in [Tiers -> Nat] /\ held' \in [Tiers -> Nat]
  BY <1>1, Parts, DownType DEF Tick
<1>9. TypeOK'  BY <1>1, <1>2, <1>3, <1>4, <1>5, <1>6, <1>7, <1>8 DEF TypeOK
<1>10. Fresh'
  <2> SUFFICES ASSUME NEW d \in Callers, act'[d].pc = "record" PROVE act'[d].age <= Lag
      BY DEF Fresh
  <2>1. act[d].pc = "record" /\ act[d].age < Lag /\ act'[d].age = act[d].age + 1  BY <1>2
  <2>2. act[d].age \in Nat  BY <1>1, Parts DEF Act
  <2>q. QED BY <2>1, <2>2, TiersAssumption
<1>11. ASSUME NEW t \in Tiers PROVE held'[t] <= cooldown'[t]
  <2>1. held'[t] = Down(held[t]) /\ cooldown'[t] = Down(cooldown[t])  BY DEF Tick
  <2>q. QED BY <2>1, <1>1, Parts DEF Down
<1>12. BackoffShown'  BY <1>4 DEF BackoffShown
<1>q. QED BY <1>9, <1>10, <1>11, <1>12 DEF Covered

LEMMA AdmitCovered ==
    ASSUME Covered, NEW c \in Callers, Admit(c) \/ Poll(c) \/ Fetch(c) \/ AdmitStep(c)
    PROVE  Covered'
<1>1. TypeOK /\ probe <= backoff  BY DEF Covered, BackoffShown
<1>2. /\ up \in BOOLEAN /\ act \in [Callers -> Act] /\ backoff \in 0..MaxBackoff
      /\ probe \in 0..MaxBackoff /\ spent \in [Callers -> 0..Calls - 1]  BY <1>1, Parts
<1>3. act[c] \in Act /\ act[c].age \in Nat  BY <1>2 DEF Act
<1>4. ASSUME NEW p \in Places, Moves(c, p), UNCHANGED <<up, backoff, probe, spent>> PROVE
    Covered'
  BY <1>1, <1>2, <1>4, MovesCovered
<1>5. CASE Admit(c)  BY <1>4, <1>5 DEF Admit, Moves, Places, redis, ghosts
<1>6. CASE Poll(c)  BY <1>4, <1>6 DEF Poll, Moves, Places, redis, ghosts
<1>7. CASE Fetch(c)  BY <1>4, <1>7 DEF Fetch, Moves, Places, redis, ghosts
<1>8. CASE MGet(c)
  <2> DEFINE p == IF \A t \in Tiers : cooldown[t] = 0 THEN "clear" ELSE "closed"
  <2>1. p \in Places  BY DEF Places
  <2>2. Goto(c, p)  BY <1>8 DEF MGet
  <2>3. UNCHANGED <<pos, redis, ghosts>> /\ UNCHANGED <<up, backoff, probe, spent>>  BY <1>8
      DEF MGet
  <2>4. Moves(c, p)  BY <2>2, <2>3 DEF Moves
  <2>q. QED BY <2>1, <2>3, <2>4, <1>4
<1>9. CASE Ping(c)  BY <1>4, <1>9 DEF Ping, Moves, Places, redis, ghosts
<1>10. CASE Errs(c)
  <2>1. act' = [act EXCEPT ![c].pc = "failed"]  BY <1>10 DEF Errs
  <2>2. UNCHANGED <<up, pos, cur, prev, cooldown, backoff, probe, spent, mine, was, held>>
    BY <1>10 DEF Errs, redis, ghosts
  <2>3. [act[c] EXCEPT !.pc = "failed"] \in Act /\ [act[c] EXCEPT !.pc = "failed"].pc = "failed"
    BY <1>3 DEF Act, Places
  <2>4. act' = [act EXCEPT ![c] = [act[c] EXCEPT !.pc = "failed"]]  BY <2>1
  <2>5. act' \in [Callers -> Act] /\ act'[c].pc = "failed"
        /\ \A d \in Callers : d # c => act'[d] = act[d]  BY <2>3, <2>4, <1>2
  <2>6. TypeOK'  BY <1>1, <2>2, <2>5 DEF TypeOK
  <2>7. Fresh'  BY <2>5 DEF Covered, Fresh
  <2>q. QED BY <2>2, <2>6, <2>7, <1>1 DEF Covered, BackoffShown
<1>11. CASE FailClosed(c)
  <2>1. Goto(c, "idle") /\ UNCHANGED <<up, pos, redis, spent, ghosts>>  BY <1>11 DEF FailClosed
  <2>2. backoff' = Grown /\ probe' = Less(Grown, act[c].age)  BY <1>11 DEF FailClosed
  <2>3. Grown \in 0..MaxBackoff  BY <1>2, GrownType
  <2>4. probe' \in 0..MaxBackoff /\ probe' <= backoff'  BY <2>2, <2>3, <1>3, Bounds DEF
      Less
  <2>5. Moves(c, "idle") /\ "idle" \in Places /\ up' \in BOOLEAN  BY <2>1, <1>2 DEF
      Moves, Places
  <2>q. QED BY <1>2, <2>1, <2>2, <2>3, <2>4, <2>5, MovesCovered
<1>12. CASE Recover(c)
  <2>1. UNCHANGED <<up, pos, redis, spent, ghosts>> /\ backoff' = 0 /\ probe' = 0  BY <1>12 DEF
      Recover
  <2>2. PICK p \in {"call", "idle"} : Goto(c, p)  BY <1>12 DEF Recover
  <2>3. p \in Places /\ Moves(c, p) /\ up' \in BOOLEAN  BY <2>1, <2>2, <1>2 DEF Moves,
      Places
  <2>4. backoff' \in 0..MaxBackoff /\ probe' \in 0..MaxBackoff /\ probe' <= backoff'  BY
      <2>1, Bounds
  <2>q. QED BY <1>2, <2>1, <2>3, <2>4, MovesCovered
<1>q. QED BY <1>5, <1>6, <1>7, <1>8, <1>9, <1>10, <1>11, <1>12 DEF AdmitStep

LEMMA NextCovered == ASSUME Covered, [Next]_vars PROVE Covered'
<1>1. TypeOK /\ probe <= backoff  BY DEF Covered, BackoffShown
<1>2. up \in BOOLEAN /\ backoff \in 0..MaxBackoff /\ probe \in 0..MaxBackoff  BY <1>1,
    Parts
<1>3. CASE Outage
  <2>1. UNCHANGED <<pos, cur, prev, cooldown, backoff, probe, act, spent, mine, was, held>>
    BY <1>3 DEF Outage, redis, ghosts
  <2>2. up' \in BOOLEAN  BY <1>2, <1>3 DEF Outage
  <2>q. QED BY <2>1, <2>2 DEF Covered, TypeOK, BackoffShown, Fresh
<1>4. CASE Tick  BY <1>4, TickCovered
<1>5. ASSUME NEW c \in Callers, Admit(c) \/ Poll(c) \/ Fetch(c) \/ AdmitStep(c) PROVE
    Covered'
  BY <1>5, AdmitCovered
<1>6. ASSUME NEW c \in Callers, Called(c) \/ RecordFails(c) PROVE Covered'
  <2>1. UNCHANGED <<up, pos, redis, backoff, probe, ghosts>>  BY <1>6 DEF Called,
      RecordFails
  <2>2. PICK p \in {"record", "idle", "call"} : Goto(c, p)  BY <1>6 DEF Called, RecordFails,
      GoesOn
  <2>3. spent' \in [Callers -> 0..Calls - 1]
    <3>1. CASE Called(c)  BY <3>1, <1>1, Parts DEF Called
    <3>2. CASE RecordFails(c)  BY <3>2, <1>1, WentOn DEF RecordFails
    <3>q. QED BY <1>6, <3>1, <3>2
  <2>4. p \in Places /\ Moves(c, p)  BY <2>1, <2>2 DEF Moves, Places
  <2>q. QED BY <2>1, <2>3, <2>4, <1>1, <1>2, MovesCovered
<1>7. ASSUME NEW c \in Callers, Record(c) PROVE Covered'  BY <1>7, RecordCovered
<1>8. CASE UNCHANGED vars
  BY <1>8 DEF vars, redis, ghosts, Covered, TypeOK, BackoffShown, Fresh
<1>q. QED BY <1>3, <1>4, <1>5, <1>6, <1>7, <1>8 DEF Next, RecordStep

LEMMA InitCovered == Init => Covered
<1> SUFFICES ASSUME Init PROVE Covered  OBVIOUS
<1>1. Zero \in [Tiers -> Nat] /\ \A t \in Tiers : Zero[t] = 0  BY DEF Zero
<1>2. At("idle", 0) \in Act /\ At("idle", 0).pc = "idle"  BY AtType DEF Places
<1>3. act \in [Callers -> Act] /\ \A c \in Callers : act[c].pc = "idle"  BY <1>2 DEF Init
<1>4. spent \in [Callers -> 0..Calls - 1]  BY SetsAssumption DEF Init
<1>5. TypeOK  BY <1>1, <1>3, <1>4, Sizes, Bounds DEF Init, TypeOK
<1>q. QED BY <1>1, <1>3, <1>5 DEF Init, Covered, BackoffShown, Fresh

\* The types, the ages of the scripts and the keys that outlive the window
\* (Manager and recordScript).
THEOREM Keys == Spec => []Covered
<1>1. Init => Covered  BY InitCovered
<1>2. Covered /\ [Next]_vars => Covered'  BY NextCovered
<1>q. QED BY <1>1, <1>2, PTL DEF Spec

\* The countdown that the banner shows never exceeds the backoff (failClosed, recover).
THEOREM Countdown == Spec => []BackoffShown
<1>1. Covered => BackoffShown  BY DEF Covered
<1>q. QED BY <1>1, Keys, PTL

\* Only MGET lets a request through.
LEMMA ByMGet ==
    ASSUME Covered, Next, NEW c \in HR, Admitted(c)
    PROVE  \A t \in Tiers : cooldown[t] = 0
<1>1. c \in Callers /\ act[c].pc = "probe" /\ act'[c].pc = "clear"  BY DEF Callers,
    Admitted, Asked
<1>2. act \in [Callers -> Act]  BY Parts DEF Covered
<1>3. \A d \in Callers, p \in Places :
         Goto(d, p) => act'[d].pc = p /\ \A e \in Callers : e # d => act'[e] = act[e]
  BY <1>2, Sent
<1>4. ~Outage  BY <1>1 DEF Outage
<1>5. ~Tick
  <2>1. Tick => act'[c].pc = act[c].pc  BY <1>1, TickedAct
  <2>q. QED BY <2>1, <1>1
<1>6. ASSUME NEW d \in Callers, Next, NEW p \in Places, Goto(d, p) PROVE d = c /\ p =
    "clear"
  BY <1>1, <1>3, <1>6
<1>7. ASSUME NEW d \in Callers,
             Admit(d) \/ Poll(d) \/ Fetch(d) \/ Ping(d) \/ FailClosed(d) \/ Called(d)
                \/ Record(d) \/ RecordFails(d)
      PROVE  FALSE
  <2>1. PICK p \in Places \ {"clear"} : Goto(d, p)
    BY <1>7 DEF Admit, Poll, Fetch, Ping, FailClosed, Called, Record, RecordFails, GoesOn, Places
  <2>q. QED BY <2>1, <1>6
<1>8. ASSUME NEW d \in Callers, Recover(d) PROVE FALSE
  <2>1. PICK p \in Places \ {"clear"} : Goto(d, p)  BY <1>8 DEF Recover, Places
  <2>q. QED BY <2>1, <1>6
<1>9. ASSUME NEW d \in Callers, Errs(d) PROVE FALSE
  <2>1. act' = [act EXCEPT ![d].pc = "failed"]  BY <1>9 DEF Errs
  <2>2. act[d] \in Act  BY <1>2
  <2>3. act'[d].pc = "failed" /\ \A e \in Callers : e # d => act'[e] = act[e]  BY <2>1,
      <2>2, <1>2 DEF Act
  <2>q. QED BY <2>3, <1>1
<1>10. PICK d \in Callers : MGet(d)
  BY <1>4, <1>5, <1>7, <1>8, <1>9 DEF Next, AdmitStep, RecordStep
<1>11. CASE \A t \in Tiers : cooldown[t] = 0  BY <1>11
<1>12. CASE ~\A t \in Tiers : cooldown[t] = 0
  <2>1. Goto(d, "closed") /\ "closed" \in Places  BY <1>10, <1>12 DEF MGet, Places
  <2>q. QED BY <2>1, <1>6
<1>q. QED BY <1>11, <1>12

\* Redis lets no visitor through within a full window of a tier's last trip
\* (recordScript's TTL), for every lag of the scripts up to a window.
THEOREM NoneInWindow == Spec => WindowHeld
<1>1. Covered /\ [Next]_vars =>
        [\A c \in HR : Admitted(c) => \A t \in Tiers : held[t] = 0]_vars
  <2> SUFFICES ASSUME Covered, Next, NEW c \in HR, Admitted(c), NEW t \in Tiers PROVE
      held[t] = 0
    OBVIOUS
  <2>1. cooldown[t] = 0 /\ held[t] <= cooldown[t]  BY ByMGet DEF Covered
  <2>2. held[t] \in Nat  BY Parts DEF Covered
  <2>q. QED BY <2>1, <2>2
<1>q. QED BY <1>1, Keys, PTL DEF Spec, WindowHeld

-----------------------------------------------------------------------------
(* What a window counts.                                                    *)

LEMMA Visitors ==
    /\ IsFiniteSet(Pairs) /\ Cardinality(Pairs) \in Nat
    /\ Cardinality(Pairs) = Calls * Cardinality(HR)
    /\ \A S \in SUBSET Pairs : /\ IsFiniteSet(S) /\ Cardinality(S) \in Nat
                               /\ Cardinality(S) <= Cardinality(Pairs)
<1>1. IsFiniteSet(HR) /\ Cardinality(HR) \in Nat  BY SetsAssumption, FS_CardinalityType
<1>2. Calls \in Nat /\ Calls > 0  BY SetsAssumption
<1>3. IsFiniteSet(1..Calls) /\ Cardinality(1..Calls) = Calls  BY <1>2, FS_Interval
<1>4. IsFiniteSet(Pairs) /\ Cardinality(Pairs) = Cardinality(HR) * Cardinality(1..Calls)
  BY <1>1, <1>3, FS_Product DEF Pairs
<1>5. Cardinality(Pairs) = Calls * Cardinality(HR)  BY <1>1, <1>2, <1>3, <1>4
<1>q. QED BY <1>4, <1>5, FS_CardinalityType, FS_Subset

LEMMA Fewer ==
    ASSUME NEW S \in SUBSET Pairs, NEW T \in SUBSET S
    PROVE  Cardinality(T) <= Cardinality(S) /\ Cardinality(T) \in Nat /\ Cardinality(S) \in Nat
BY Visitors, FS_Subset

LEMMA OneLess ==
    ASSUME NEW S \in SUBSET Pairs, NEW q \in S, NEW T \in SUBSET (S \ {q})
    PROVE  /\ Cardinality(T) <= Cardinality(S) - 1
           /\ Cardinality(T) \in Nat /\ Cardinality(S) \in Nat
<1>1. IsFiniteSet(S) /\ Cardinality(S) \in Nat  BY Visitors
<1>2. Cardinality(S \ {q}) = Cardinality(S) - 1  BY <1>1, FS_RemoveElement
<1>3. IsFiniteSet(S \ {q})  BY <1>1, FS_RemoveElement
<1>4. Cardinality(T) <= Cardinality(S \ {q}) /\ Cardinality(T) \in Nat
  BY <1>3, FS_Subset, FS_CardinalityType
<1>q. QED BY <1>1, <1>2, <1>4

LEMMA Subsets == ASSUME NEW t \in Tiers PROVE Under(t) \in SUBSET Pairs /\ Behind(t) \in SUBSET Pairs
BY DEF Under, Behind

\* What is needed of a pair.
LEMMA PairType ==
    ASSUME NEW q \in Pairs
    PROVE  q[1] \in HR /\ q[1] \in Callers /\ q[2] \in 1..Calls /\ q = <<q[1], q[2]>>
BY DEF Pairs, Callers

\* A step that counts nothing and puts nobody under way keeps the cap.
LEMMA StaysCapped ==
    ASSUME Covered, Capped, UNCHANGED <<pos, cur, prev, cooldown, mine, was>>,
           \A t \in Tiers : \/ cur[t] < Threshold[t]
                            \/ Under(t)' \in SUBSET Under(t),
           \A t \in Tiers : Behind(t)' \in SUBSET Behind(t)
    PROVE  Capped'
<1> SUFFICES ASSUME NEW t \in Tiers
             PROVE  (mine[t] <= cur[t] /\ was[t] <= prev[t] /\ Running(t) /\ Past(t))'
  BY DEF Capped
<1>1. mine[t] <= cur[t] /\ was[t] <= prev[t] /\ Running(t) /\ Past(t)  BY DEF Capped
<1>2. mine[t] \in Nat /\ was[t] \in Nat /\ Limit(t) \in Int /\ Limit(t)' = Limit(t)
  BY Parts, Sizes, Visitors DEF Covered, Limit
<1>3. Behind(t) \in SUBSET Pairs /\ Under(t) \in SUBSET Pairs  BY Subsets
<1>4. Past(t)'
  <2>1. CASE prev[t] < Threshold[t]  BY <2>1 DEF Past
  <2>2. CASE was[t] + Cardinality(Behind(t)) <= Limit(t)
    <3>1. /\ Cardinality(Behind(t)') <= Cardinality(Behind(t))
          /\ Cardinality(Behind(t)') \in Nat /\ Cardinality(Behind(t)) \in Nat  BY <1>3,
              Fewer
    <3>2. was'[t] + Cardinality(Behind(t)') <= Limit(t)  BY <2>2, <3>1, <1>2
    <3>q. QED BY <3>2, <1>2 DEF Past
  <2>q. QED BY <1>1, <2>1, <2>2 DEF Past
<1>5. Running(t)'
  <2>1. CASE cur[t] < Threshold[t]  BY <2>1 DEF Running
  <2>2. CASE ~(cur[t] < Threshold[t])
    <3>1. Under(t)' \in SUBSET Under(t)  BY <2>2
    <3>2. /\ Cardinality(Under(t)') <= Cardinality(Under(t))
          /\ Cardinality(Under(t)') \in Nat /\ Cardinality(Under(t)) \in Nat  BY <1>3,
              <3>1, Fewer
    <3>3. cooldown[t] >= Window[t] - pos[t] /\ mine[t] + Cardinality(Under(t)) <= Limit(t)
      BY <1>1, <2>2 DEF Running
    <3>4. mine'[t] + Cardinality(Under(t)') <= Limit(t)  BY <3>2, <3>3, <1>2
    <3>q. QED BY <3>3, <3>4, <1>2 DEF Running
  <2>q. QED BY <2>1, <2>2
<1>q. QED BY <1>1, <1>4, <1>5

\* One goroutine goes from where it is to p, which is not the record of a late
\* script, and is under way only if it was before.
LEMMA MovesCapped ==
    ASSUME Covered, Capped, NEW c \in Callers, NEW p \in Places, Moves(c, p),
           UNCHANGED spent,
           p \in {"clear", "call", "record"} =>
              \/ act[c].pc \in {"clear", "call"}
              \/ c \notin HR
              \/ \A t \in Tiers : cooldown[t] = 0
    PROVE  Capped'
<1>1. TypeOK  BY DEF Covered
<1>2. act \in [Callers -> Act] /\ UNCHANGED <<pos, cur, prev, cooldown, mine, was>>
  BY <1>1, Parts DEF Moves, redis, ghosts
<1>3. /\ act'[c].pc = p /\ act'[c].age = 0
      /\ \A d \in Callers : d # c => act'[d] = act[d]  BY <1>2, Sent DEF Moves
<1>4. ASSUME NEW t \in Tiers PROVE ~(Late(c, t)') /\ \A d \in Callers : d # c => Late(d,
    t)' = Late(d, t)
  <2>1. pos'[t] \in Nat  BY <1>1, <1>2, Parts
  <2>q. QED BY <2>1, <1>2, <1>3 DEF Late
<1>5. ASSUME NEW t \in Tiers, NEW q \in Pairs, q[1] # c
      PROVE  act'[q[1]] = act[q[1]] /\ Late(q[1], t)' = Late(q[1], t)
  BY <1>3, <1>4, <1>5, PairType
<1>6. ASSUME NEW t \in Tiers PROVE Behind(t)' \in SUBSET Behind(t)
  <2> SUFFICES ASSUME NEW q \in Pairs, q \in Behind(t)' PROVE q \in Behind(t)
    BY DEF Behind
  <2>1. act'[q[1]].pc = "record" /\ Late(q[1], t)' /\ q[2] = spent[q[1]] + 1  BY DEF Behind
  <2>2. q[1] # c  BY <2>1, <1>4
  <2>q. QED BY <2>1, <2>2, <1>5 DEF Behind
<1>7. ASSUME NEW t \in Tiers PROVE cur[t] < Threshold[t] \/ Under(t)' \in SUBSET Under(t)
  <2>1. ASSUME NEW q \in Pairs, q \in Under(t)', q[1] # c PROVE q \in Under(t)
    <3>1. act'[q[1]] = act[q[1]] /\ Late(q[1], t)' = Late(q[1], t)  BY <2>1, <1>5
    <3>q. QED BY <2>1, <3>1 DEF Under
  <2>2. ASSUME NEW q \in Pairs, q \in Under(t)', q[1] = c, ~(cur[t] < Threshold[t])
        PROVE  q \in Under(t)
    <3>1. cooldown[t] >= Window[t] - pos[t]  BY <2>2 DEF Capped, Running
    <3>2. pos[t] \in Nat /\ pos[t] < Window[t] /\ Window[t] \in Nat  BY <1>1, Parts, Sizes
    <3>3. cooldown[t] # 0 /\ cooldown[t] \in Nat  BY <3>1, <3>2, <1>1, Parts
    <3>4. act'[c].pc \in {"clear", "call", "record"}  BY <2>2 DEF Under
    <3>5. c \in HR  BY <2>2, PairType
    <3>6. act[c].pc \in {"clear", "call"}  BY <3>3, <3>4, <3>5, <1>3
    <3>7. spent[c] \in Nat /\ q[2] \in Nat  BY <2>2, <1>1, Parts, PairType, SetsAssumption
    <3>8. q[2] > spent[c]  BY <2>2, <3>7 DEF Under
    <3>q. QED BY <3>6, <3>8, <2>2 DEF Under
  <2>3. Under(t)' \in SUBSET Pairs  BY DEF Under
  <2>q. QED BY <2>1, <2>2, <2>3
<1>q. QED BY <1>2, <1>6, <1>7, StaysCapped

\* A script that runs: the window it counts for has room, or it trips.
LEMMA RecordCapped == ASSUME Covered, Capped, NEW c \in Callers, Record(c) PROVE Capped'
<1> SUFFICES ASSUME NEW t \in Tiers
             PROVE  (mine[t] <= cur[t] /\ was[t] <= prev[t] /\ Running(t) /\ Past(t))'
  BY DEF Capped
<1>1. TypeOK  BY DEF Covered
<1>2. mine[t] <= cur[t] /\ was[t] <= prev[t] /\ Running(t) /\ Past(t)  BY DEF Capped
<1>3. /\ mine[t] \in Nat /\ was[t] \in Nat /\ cur[t] \in Nat /\ prev[t] \in Nat
      /\ cooldown[t] \in Nat /\ Threshold[t] \in Nat /\ Threshold[t] > 0
      /\ Cardinality(Pairs) \in Nat /\ Limit(t)' = Limit(t)
      /\ pos'[t] = pos[t] /\ pos[t] \in Nat /\ pos[t] < Window[t] /\ Window[t] \in Nat
  BY <1>1, Parts, Sizes, Visitors DEF Limit, Record
<1>4. act[c].pc = "record" /\ Count(c, t) \in Nat /\ TTL(c, t) >= Window[t] - pos[t]
  <2>1. act[c].pc = "record"  BY DEF Record
  <2>q. QED BY <2>1, StampType
<1>5. /\ act'[c].pc \in {"idle", "call"} /\ (act'[c].pc = "call" => spent'[c] = spent[c] + 1)
      /\ \A d \in Callers : d # c => act'[d] = act[d] /\ spent'[d] = spent[d]
  <2>1. GoesOn(c)  BY DEF Record
  <2>q. QED BY <2>1, <1>1, WentOn
<1> DEFINE q == <<c, spent[c] + 1>>
<1>0. spent[c] \in 0..Calls - 1 /\ Calls \in Nat  BY <1>1, Parts, SetsAssumption
<1>17. c \in HR => q \in Pairs  BY <1>0 DEF Pairs
<1>6. \A d \in Callers : d # c => Late(d, t)' = Late(d, t)  BY <1>3, <1>5 DEF Late
<1>7. ASSUME NEW p \in Pairs
      PROVE  /\ p[1] # c => /\ act'[p[1]] = act[p[1]] /\ spent'[p[1]] = spent[p[1]]
                            /\ Late(p[1], t)' = Late(p[1], t) /\ p # q
             /\ p[1] = c => p[2] \in Nat /\ (p = q <=> p[2] = spent[c] + 1)
  BY <1>5, <1>6, PairType
<1> HIDE DEF q
<1>8. Under(t)' \in SUBSET (Under(t) \ {q}) /\ Behind(t)' \in SUBSET (Behind(t) \ {q})
  <2>1. ASSUME NEW p \in Pairs, p \in Under(t)' PROVE p \in Under(t) \ {q}
    <3>1. CASE p[1] # c  BY <2>1, <3>1, <1>7 DEF Under
    <3>2. CASE p[1] = c
      <4>1. act'[c].pc = "call" /\ p[2] > spent'[c]  BY <2>1, <3>2, <1>5 DEF Under
      <4>2. p[2] > spent[c] + 1  BY <4>1, <1>5
      <4>3. p # q  BY <4>2, <3>2, <1>7, <1>0
      <4>q. QED BY <4>2, <4>3, <3>2, <1>4 DEF Under
    <3>q. QED BY <3>1, <3>2
  <2>2. ASSUME NEW p \in Pairs, p \in Behind(t)' PROVE p \in Behind(t) \ {q}
    <3>1. p[1] # c  BY <2>2, <1>5 DEF Behind
    <3>q. QED BY <2>2, <3>1, <1>7 DEF Behind
  <2>3. Under(t)' \in SUBSET Pairs /\ Behind(t)' \in SUBSET Pairs  BY DEF Under, Behind
  <2>q. QED BY <2>1, <2>2, <2>3
<1>9. Under(t) \in SUBSET Pairs /\ Behind(t) \in SUBSET Pairs  BY Subsets
<1>18. c \in HR => (IF Late(c, t) THEN q \in Behind(t) ELSE q \in Under(t))
  <2> SUFFICES ASSUME c \in HR PROVE IF Late(c, t) THEN q \in Behind(t) ELSE q \in Under(t)
    OBVIOUS
  <2>1. q \in Pairs /\ q[1] = c /\ q[2] = spent[c] + 1  BY <1>17 DEF q
  <2>q. QED BY <2>1, <1>0, <1>4 DEF Under, Behind
<1>10. /\ Cardinality(Under(t)') <= Cardinality(Under(t)) /\ Cardinality(Under(t)') \in Nat
       /\ Cardinality(Behind(t)') <= Cardinality(Behind(t)) /\ Cardinality(Behind(t)') \in Nat
       /\ Cardinality(Under(t)) \in Nat /\ Cardinality(Behind(t)) \in Nat
       /\ Cardinality(Under(t)') <= Cardinality(Pairs) /\ Cardinality(Behind(t)') <= Cardinality(Pairs)
  <2>1. Under(t)' \in SUBSET Under(t) /\ Behind(t)' \in SUBSET Behind(t)  BY <1>8
  <2>2. Under(t)' \in SUBSET Pairs /\ Behind(t)' \in SUBSET Pairs  BY <1>8, <1>9
  <2>q. QED BY <2>1, <2>2, <1>9, Fewer, Visitors
<1>11. /\ cur'[t] = IF Late(c, t) THEN cur[t] ELSE Count(c, t)
       /\ prev'[t] = IF Late(c, t) THEN Count(c, t) ELSE prev[t]
       /\ cooldown'[t] = IF Trips(c, t) THEN TTL(c, t) ELSE cooldown[t]
       /\ mine'[t] = IF c \in HR /\ ~Late(c, t) THEN mine[t] + 1 ELSE mine[t]
       /\ was'[t] = IF c \in HR /\ Late(c, t) THEN was[t] + 1 ELSE was[t]
  BY <1>1, Parts DEF Record
<1>12. Count(c, t) = 1 + IF Late(c, t) THEN prev[t] ELSE cur[t]  BY DEF Count
<1>13. Trips(c, t) <=> Count(c, t) >= Threshold[t]  BY DEF Trips
<1>14. cooldown'[t] >= Window[t] - pos[t] \/ cooldown'[t] = cooldown[t]  BY <1>4, <1>11
<1>15. CASE Late(c, t)
  <2>1. cur'[t] = cur[t] /\ mine'[t] = mine[t] /\ prev'[t] = prev[t] + 1
    BY <1>3, <1>11, <1>12, <1>15
  <2>2. Running(t)'
    <3>1. CASE cur[t] < Threshold[t]  BY <3>1, <2>1 DEF Running
    <3>2. CASE cooldown[t] >= Window[t] - pos[t] /\ mine[t] + Cardinality(Under(t)) <= Limit(t)
      <4>1. mine'[t] + Cardinality(Under(t)') <= Limit(t)
        BY <3>2, <2>1, <1>3, <1>10 DEF Limit
      <4>2. cooldown'[t] >= Window[t] - pos[t]  BY <3>2, <1>14
      <4>q. QED BY <4>1, <4>2, <1>3 DEF Running
    <3>q. QED BY <3>1, <3>2, <1>2 DEF Running
  <2>3. Past(t)'
    <3>1. CASE c \in HR
      <4>1. was'[t] = was[t] + 1 /\ q \in Behind(t)  BY <3>1, <1>11, <1>15, <1>18
      <4>2. Cardinality(Behind(t)') <= Cardinality(Behind(t)) - 1
            /\ Cardinality(Behind(t)') <= Cardinality(Pairs) - 1
        <5>1. Behind(t)' \in SUBSET (Pairs \ {q})  BY <1>8, <1>9
        <5>q. QED BY <5>1, <4>1, <3>1, <1>8, <1>9, <1>17, OneLess
      <4>3. was'[t] + Cardinality(Behind(t)') <= Limit(t)
        <5>1. CASE prev[t] < Threshold[t]  BY <5>1, <4>1, <4>2, <1>2, <1>3, <1>10 DEF
            Limit
        <5>2. CASE was[t] + Cardinality(Behind(t)) <= Limit(t)
          BY <5>2, <4>1, <4>2, <1>3, <1>10 DEF Limit
        <5>q. QED BY <5>1, <5>2, <1>2 DEF Past
      <4>q. QED BY <4>3, <1>3 DEF Past
    <3>2. CASE c \notin HR
      <4>1. was'[t] = was[t]  BY <3>2, <1>11
      <4>2. was'[t] + Cardinality(Behind(t)') <= Limit(t)
        <5>1. CASE prev[t] < Threshold[t]  BY <5>1, <4>1, <1>2, <1>3, <1>10 DEF Limit
        <5>2. CASE was[t] + Cardinality(Behind(t)) <= Limit(t)
          BY <5>2, <4>1, <1>3, <1>10 DEF Limit
        <5>q. QED BY <5>1, <5>2, <1>2 DEF Past
      <4>q. QED BY <4>2, <1>3 DEF Past
    <3>q. QED BY <3>1, <3>2
  <2>4. mine'[t] <= cur'[t] /\ was'[t] <= prev'[t]  BY <2>1, <1>2, <1>3, <1>11
  <2>q. QED BY <2>2, <2>3, <2>4
<1>16. CASE ~Late(c, t)
  <2>1. prev'[t] = prev[t] /\ was'[t] = was[t] /\ cur'[t] = cur[t] + 1  BY <1>11, <1>12,
      <1>16, <1>3
  <2>2. Past(t)'
    <3>1. CASE prev[t] < Threshold[t]  BY <3>1, <2>1 DEF Past
    <3>2. CASE was[t] + Cardinality(Behind(t)) <= Limit(t)
      <4>1. was'[t] + Cardinality(Behind(t)') <= Limit(t)  BY <3>2, <2>1, <1>3, <1>10
          DEF Limit
      <4>q. QED BY <4>1, <1>3 DEF Past
    <3>q. QED BY <3>1, <3>2, <1>2 DEF Past
  <2>3. Running(t)'
    <3>0. CASE ~Trips(c, t)  BY <3>0, <1>11, <1>13, <1>16, <1>4, <1>3 DEF Running
    <3>1. CASE Trips(c, t) /\ c \in HR
      <4>1. mine'[t] = mine[t] + 1 /\ q \in Under(t)  BY <3>1, <1>11, <1>16, <1>18
      <4>2. Cardinality(Under(t)') <= Cardinality(Under(t)) - 1
            /\ Cardinality(Under(t)') <= Cardinality(Pairs) - 1
        <5>1. Under(t)' \in SUBSET (Pairs \ {q})  BY <1>8, <1>9
        <5>q. QED BY <5>1, <4>1, <3>1, <1>8, <1>9, <1>17, OneLess
      <4>3. mine'[t] + Cardinality(Under(t)') <= Limit(t)
        <5>1. CASE cur[t] < Threshold[t]  BY <5>1, <4>1, <4>2, <1>2, <1>3, <1>10 DEF Limit
        <5>2. CASE mine[t] + Cardinality(Under(t)) <= Limit(t)
          BY <5>2, <4>1, <4>2, <1>3, <1>10 DEF Limit
        <5>q. QED BY <5>1, <5>2, <1>2 DEF Running
      <4>q. QED BY <4>3, <3>1, <1>3, <1>4, <1>11 DEF Running
    <3>2. CASE Trips(c, t) /\ c \notin HR
      <4>1. mine'[t] = mine[t]  BY <3>2, <1>11
      <4>2. mine'[t] + Cardinality(Under(t)') <= Limit(t)
        <5>1. CASE cur[t] < Threshold[t]  BY <5>1, <4>1, <1>2, <1>3, <1>10 DEF Limit
        <5>2. CASE mine[t] + Cardinality(Under(t)) <= Limit(t)
          BY <5>2, <4>1, <1>3, <1>10 DEF Limit
        <5>q. QED BY <5>1, <5>2, <1>2 DEF Running
      <4>q. QED BY <4>2, <3>2, <1>3, <1>4, <1>11 DEF Running
    <3>q. QED BY <3>0, <3>1, <3>2
  <2>4. mine'[t] <= cur'[t] /\ was'[t] <= prev'[t]  BY <2>1, <1>2, <1>3, <1>11
  <2>q. QED BY <2>2, <2>3, <2>4
<1>q. QED BY <1>15, <1>16

LEMMA TickCapped == ASSUME Covered, Capped, Tick PROVE Capped'
<1> SUFFICES ASSUME NEW t \in Tiers
             PROVE  (mine[t] <= cur[t] /\ was[t] <= prev[t] /\ Running(t) /\ Past(t))'
  BY DEF Capped
<1>1. TypeOK /\ Fresh  BY DEF Covered
<1>2. mine[t] <= cur[t] /\ was[t] <= prev[t] /\ Running(t) /\ Past(t)  BY DEF Capped
<1>3. /\ mine[t] \in Nat /\ was[t] \in Nat /\ cur[t] \in Nat /\ prev[t] \in Nat
      /\ cooldown[t] \in Nat /\ Threshold[t] \in Nat /\ Threshold[t] > 0
      /\ Cardinality(Pairs) \in Nat /\ Limit(t)' = Limit(t) /\ Limit(t) \in Int
      /\ pos[t] \in Nat /\ pos[t] < Window[t] /\ Window[t] \in Nat
      /\ Lag \in Nat /\ Lag <= Window[t]
  BY <1>1, Parts, Sizes, Visitors DEF Limit
<1>4. /\ pos'[t] = IF Ends(t) THEN 0 ELSE pos[t] + 1
      /\ cur'[t] = IF Ends(t) THEN 0 ELSE cur[t]
      /\ prev'[t] = IF Ends(t) THEN cur[t] ELSE prev[t]
      /\ mine'[t] = IF Ends(t) THEN 0 ELSE mine[t]
      /\ was'[t] = IF Ends(t) THEN mine[t] ELSE was[t]
      /\ cooldown'[t] = Down(cooldown[t])
  BY DEF Tick
<1>5. HR \subseteq Callers /\ spent' = spent  BY DEF Callers, Tick
<1>6. ASSUME NEW c \in HR
      PROVE  /\ act'[c].pc = act[c].pc /\ act[c].age \in Nat
             /\ act[c].pc = "record" => act[c].age < Lag
             /\ act[c].pc = "record" => act'[c].age = act[c].age + 1
  <2>1. c \in Callers /\ act[c].age \in Nat  BY <1>1, <1>5, Parts DEF Act
  <2>q. QED BY <2>1, TickedAct
<1>7. Under(t) \in SUBSET Pairs /\ Behind(t) \in SUBSET Pairs  BY Subsets
<1>8. Under(t)' \in SUBSET Pairs /\ Behind(t)' \in SUBSET Pairs  BY DEF Under, Behind
<1>9. CASE ~Ends(t)
  <2>1. UNCHANGED <<cur[t], prev[t], mine[t], was[t]>> /\ pos'[t] = pos[t] + 1  BY <1>4,
      <1>9
  <2>2. \A c \in HR : act[c].pc = "record" => (Late(c, t)' <=> Late(c, t))
    <3> SUFFICES ASSUME NEW c \in HR, act[c].pc = "record" PROVE Late(c, t)' <=> Late(c,
        t)
      OBVIOUS
    <3>1. act'[c].age = act[c].age + 1 /\ act[c].age \in Nat  BY <1>6
    <3>2. Late(c, t)' <=> act'[c].age > pos'[t]  BY DEF Late
    <3>3. Late(c, t) <=> act[c].age > pos[t]  BY DEF Late
    <3>q. QED BY <3>1, <3>2, <3>3, <2>1, <1>3
  <2>3. Under(t)' \in SUBSET Under(t) /\ Behind(t)' \in SUBSET Behind(t)
    <3>1. ASSUME NEW q \in Pairs, q \in Under(t)' PROVE q \in Under(t)
      BY <3>1, <1>5, <1>6, <2>2, PairType DEF Under
    <3>2. ASSUME NEW q \in Pairs, q \in Behind(t)' PROVE q \in Behind(t)
      BY <3>2, <1>5, <1>6, <2>2, PairType DEF Behind
    <3>q. QED BY <3>1, <3>2, <1>8
  <2>4. /\ Cardinality(Under(t)') <= Cardinality(Under(t)) /\ Cardinality(Under(t)') \in Nat
        /\ Cardinality(Behind(t)') <= Cardinality(Behind(t)) /\ Cardinality(Behind(t)') \in Nat
        /\ Cardinality(Under(t)) \in Nat /\ Cardinality(Behind(t)) \in Nat
    BY <1>7, <2>3, Fewer
  <2>5. Running(t)'
    <3>1. CASE cur[t] < Threshold[t]  BY <3>1, <2>1 DEF Running
    <3>2. CASE cooldown[t] >= Window[t] - pos[t] /\ mine[t] + Cardinality(Under(t)) <= Limit(t)
      <4>1. mine'[t] + Cardinality(Under(t)') <= Limit(t)  BY <3>2, <2>1, <2>4, <1>3
      <4>2. cooldown'[t] >= Window[t] - pos'[t]  BY <3>2, <2>1, <1>3, <1>4 DEF Down
      <4>q. QED BY <4>1, <4>2, <1>3 DEF Running
    <3>q. QED BY <3>1, <3>2, <1>2 DEF Running
  <2>6. Past(t)'
    <3>1. CASE prev[t] < Threshold[t]  BY <3>1, <2>1 DEF Past
    <3>2. CASE was[t] + Cardinality(Behind(t)) <= Limit(t)
      <4>1. was'[t] + Cardinality(Behind(t)') <= Limit(t)  BY <3>2, <2>1, <2>4, <1>3
      <4>q. QED BY <4>1, <1>3 DEF Past
    <3>q. QED BY <3>1, <3>2, <1>2 DEF Past
  <2>q. QED BY <2>1, <2>5, <2>6, <1>2
<1>10. CASE Ends(t)
  <2>1. /\ cur'[t] = 0 /\ mine'[t] = 0 /\ prev'[t] = cur[t] /\ was'[t] = mine[t]
        /\ pos[t] + 1 = Window[t]  BY <1>4, <1>10 DEF Ends
  <2>2. Behind(t)' \in SUBSET Under(t)
    <3>1. ASSUME NEW q \in Pairs, q \in Behind(t)' PROVE q \in Under(t)
      <4> DEFINE d == q[1]
      <4>0. d \in HR /\ d \in Callers /\ q[2] \in Nat  BY PairType, SetsAssumption
      <4>1. act[d].pc = "record" /\ act[d].age \in Nat /\ act[d].age < Lag /\ q[2] = spent[d] + 1
        BY <3>1, <4>0, <1>5, <1>6 DEF Behind
      <4>2. ~Late(d, t)  BY <4>1, <2>1, <1>3 DEF Late
      <4>3. spent[d] \in Nat  BY <4>0, <1>1, Parts, SetsAssumption
      <4>4. q[2] > spent[d]  BY <4>1, <4>3
      <4>q. QED BY <4>1, <4>2, <4>4 DEF Under
    <3>q. QED BY <3>1, <1>8
  <2>3. /\ Cardinality(Behind(t)') <= Cardinality(Under(t)) /\ Cardinality(Behind(t)') \in Nat
        /\ Cardinality(Under(t)) \in Nat
    BY <1>7, <2>2, Fewer
  <2>4. Past(t)'
    <3>1. CASE cur[t] < Threshold[t]  BY <3>1, <2>1 DEF Past
    <3>2. CASE mine[t] + Cardinality(Under(t)) <= Limit(t)
      <4>1. was'[t] + Cardinality(Behind(t)') <= Limit(t)  BY <3>2, <2>1, <2>3, <1>3
      <4>q. QED BY <4>1, <1>3 DEF Past
    <3>q. QED BY <3>1, <3>2, <1>2 DEF Running
  <2>5. Running(t)'  BY <2>1, <1>3 DEF Running
  <2>q. QED BY <2>1, <2>4, <2>5, <1>2
<1>q. QED BY <1>9, <1>10

LEMMA NextCapped == ASSUME Covered, Capped, [Next]_vars PROVE Capped'
<1>1. TypeOK /\ act \in [Callers -> Act]  BY Parts DEF Covered
<1>2. CASE Outage \/ UNCHANGED vars
  <2>1. UNCHANGED <<pos, cur, prev, cooldown, act, spent, mine, was>>
    BY <1>2 DEF Outage, vars, redis, ghosts
  <2>q. QED BY <2>1 DEF Capped, Running, Past, Under, Behind, Late, Limit
<1>3. CASE Tick  BY <1>3, TickCapped
<1>4. ASSUME NEW c \in Callers, Record(c) PROVE Capped'  BY <1>4, RecordCapped
<1>5. ASSUME NEW c \in Callers, NEW p \in Places \ {"clear", "call", "record"}, Moves(c,
    p), UNCHANGED spent
      PROVE  Capped'
  BY <1>5, MovesCapped
<1>6. ASSUME NEW c \in Callers,
             Admit(c) \/ Poll(c) \/ Ping(c) \/ FailClosed(c)
      PROVE  Capped'
  <2>1. PICK p \in {"probe", "ping", "pong", "idle"} : Goto(c, p)
    BY <1>6 DEF Admit, Poll, Ping, FailClosed
  <2>2. UNCHANGED <<pos, redis, spent, ghosts>>
    BY <1>6 DEF Admit, Poll, Ping, FailClosed
  <2>3. p \in Places \ {"clear", "call", "record"} /\ Moves(c, p)  BY <2>1, <2>2 DEF
      Places, Moves
  <2>q. QED BY <2>2, <2>3, <1>5
<1>7. ASSUME NEW c \in Callers, Fetch(c) PROVE Capped'
  <2>1. c \notin HR  BY <1>7, SetsAssumption DEF Fetch
  <2>2. Moves(c, "call") /\ "call" \in Places /\ UNCHANGED spent  BY <1>7 DEF Fetch, Moves, Places
  <2>q. QED BY <2>1, <2>2, MovesCapped
<1>8. ASSUME NEW c \in Callers, Called(c) PROVE Capped'
  <2>1. act[c].pc = "call"  BY <1>8 DEF Called
  <2>2. Moves(c, "record") /\ "record" \in Places /\ UNCHANGED spent  BY <1>8 DEF Called, Moves, Places
  <2>q. QED BY <2>1, <2>2, MovesCapped
<1>9. ASSUME NEW c \in Callers, Recover(c) PROVE Capped'
  <2>1. UNCHANGED <<pos, redis, spent, ghosts>>  BY <1>9 DEF Recover
  <2>2. CASE act[c].pc = "clear" /\ Goto(c, "call")
    <3>1. Moves(c, "call") /\ "call" \in Places  BY <2>1, <2>2 DEF Moves, Places
    <3>q. QED BY <3>1, <2>1, <2>2, MovesCapped
  <2>3. CASE Goto(c, "idle")
    <3>1. Moves(c, "idle") /\ "idle" \in Places \ {"clear", "call", "record"}
      BY <2>1, <2>3 DEF Moves, Places
    <3>q. QED BY <2>1, <3>1, <1>5
  <2>q. QED BY <2>2, <2>3, <1>9 DEF Recover
<1>10. ASSUME NEW c \in Callers, MGet(c) PROVE Capped'
  <2>1. UNCHANGED <<pos, redis, spent, ghosts>>  BY <1>10 DEF MGet
  <2>2. CASE \A t \in Tiers : cooldown[t] = 0
    <3>1. Goto(c, "clear")  BY <2>2, <1>10 DEF MGet
    <3>2. Moves(c, "clear") /\ "clear" \in Places  BY <2>1, <3>1 DEF Moves, Places
    <3>q. QED BY <3>2, <2>1, <2>2, MovesCapped
  <2>3. CASE ~\A t \in Tiers : cooldown[t] = 0
    <3>1. Goto(c, "closed")  BY <2>3, <1>10 DEF MGet
    <3>2. Moves(c, "closed") /\ "closed" \in Places \ {"clear", "call", "record"}
      BY <2>1, <3>1 DEF Moves, Places
    <3>q. QED BY <2>1, <3>2, <1>5
  <2>q. QED BY <2>2, <2>3
<1>11. ASSUME NEW c \in Callers, Errs(c) PROVE Capped'
  <2>1. UNCHANGED <<pos, cur, prev, cooldown, spent, mine, was>>  BY <1>11 DEF Errs, redis,
      ghosts
  <2>2. act' = [act EXCEPT ![c].pc = "failed"] /\ act[c] \in Act  BY <1>1, <1>11 DEF Errs
  <2>3. act'[c].pc = "failed" /\ \A d \in Callers : d # c => act'[d] = act[d]
    BY <2>2, <1>1 DEF Act
  <2>5. ASSUME NEW t \in Tiers
        PROVE  Under(t)' \in SUBSET Under(t) /\ Behind(t)' \in SUBSET Behind(t)
    <3>1. \A d \in Callers : d # c => Late(d, t)' = Late(d, t)  BY <2>1, <2>3 DEF Late
    <3>2. ASSUME NEW q \in Pairs, q \in Under(t)' PROVE q \in Under(t)
      <4>1. q[1] # c  BY <3>2, <2>3 DEF Under
      <4>q. QED BY <3>2, <4>1, <3>1, <2>1, <2>3, PairType DEF Under
    <3>3. ASSUME NEW q \in Pairs, q \in Behind(t)' PROVE q \in Behind(t)
      <4>1. q[1] # c  BY <3>3, <2>3 DEF Behind
      <4>q. QED BY <3>3, <4>1, <3>1, <2>1, <2>3, PairType DEF Behind
    <3>4. Under(t)' \in SUBSET Pairs /\ Behind(t)' \in SUBSET Pairs  BY DEF Under, Behind
    <3>q. QED BY <3>2, <3>3, <3>4
  <2>q. QED BY <2>1, <2>5, StaysCapped
\* A script that fails: its call is counted nowhere.
<1>12. ASSUME NEW c \in Callers, RecordFails(c) PROVE Capped'
  <2>1. UNCHANGED <<pos, cur, prev, cooldown, mine, was>>  BY <1>12 DEF RecordFails, redis,
      ghosts
  <2>2. /\ act'[c].pc \in {"idle", "call"} /\ (act'[c].pc = "call" => spent'[c] = spent[c] + 1)
        /\ \A d \in Callers : d # c => act'[d] = act[d] /\ spent'[d] = spent[d]
    BY <1>1, <1>12, WentOn DEF RecordFails
  <2>3. act[c].pc = "record" /\ spent[c] \in Nat  BY <1>1, <1>12, Parts, SetsAssumption DEF
      RecordFails
  <2>4. ASSUME NEW t \in Tiers
        PROVE  Under(t)' \in SUBSET Under(t) /\ Behind(t)' \in SUBSET Behind(t)
    <3>1. \A d \in Callers : d # c => Late(d, t)' = Late(d, t)  BY <2>1, <2>2 DEF Late
    <3>2. ASSUME NEW q \in Pairs, q \in Under(t)' PROVE q \in Under(t)
      <4>1. CASE q[1] # c  BY <3>2, <4>1, <3>1, <2>2, PairType DEF Under
      <4>2. CASE q[1] = c
        <5>1. q[2] > spent[c] + 1  BY <3>2, <4>2, <2>2 DEF Under
        <5>q. QED BY <5>1, <4>2, <2>3 DEF Under
      <4>q. QED BY <4>1, <4>2
    <3>3. ASSUME NEW q \in Pairs, q \in Behind(t)' PROVE q \in Behind(t)
      <4>1. q[1] # c  BY <3>3, <2>2 DEF Behind
      <4>q. QED BY <3>3, <4>1, <3>1, <2>2, PairType DEF Behind
    <3>4. Under(t)' \in SUBSET Pairs /\ Behind(t)' \in SUBSET Pairs  BY DEF Under, Behind
    <3>q. QED BY <3>2, <3>3, <3>4
  <2>q. QED BY <2>1, <2>4, StaysCapped
<1>q. QED BY <1>2, <1>3, <1>4, <1>6, <1>7, <1>8, <1>9, <1>10, <1>11, <1>12 DEF Next, AdmitStep,
    RecordStep

LEMMA InitCapped == Init => Capped
<1> SUFFICES ASSUME Init, NEW t \in Tiers
             PROVE  mine[t] <= cur[t] /\ was[t] <= prev[t] /\ Running(t) /\ Past(t)
  BY DEF Capped
<1>1. cur[t] = 0 /\ prev[t] = 0 /\ mine[t] = 0 /\ was[t] = 0  BY DEF Init, Zero
<1>q. QED BY <1>1, Sizes DEF Running, Past

\* The inductive invariant: keys that outlive the window, and who may still add
\* to what the running window and the last one have counted.
THEOREM Invariance == Spec => []IInv
<1>1. Init => IInv  BY InitCovered, InitCapped DEF IInv
<1>2. IInv /\ [Next]_vars => IInv'  BY NextCovered, NextCapped DEF IInv
<1>q. QED BY <1>1, <1>2, PTL DEF Spec

\* The cap is exceeded by no more than what the requests under way may still call
\* (shouldDegrade asks before the first call, recordUpstream counts after each),
\* for every number of visitors and of calls that a request makes.
THEOREM CapHolds == Spec => []Overshoot
<1>1. IInv => Overshoot
  <2> SUFFICES ASSUME IInv, NEW t \in Tiers
               PROVE  /\ mine[t] < Threshold[t] + Calls * Cardinality(HR)
                      /\ was[t] < Threshold[t] + Calls * Cardinality(HR)
    BY DEF Overshoot
  <2>1. TypeOK /\ mine[t] <= cur[t] /\ was[t] <= prev[t] /\ Running(t) /\ Past(t)
    BY DEF IInv, Covered, Capped
  <2>2. /\ mine[t] \in Nat /\ was[t] \in Nat /\ cur[t] \in Nat /\ prev[t] \in Nat
        /\ Threshold[t] \in Nat
        /\ Cardinality(Pairs) \in Nat /\ Cardinality(Pairs) = Calls * Cardinality(HR)
    BY <2>1, Parts, Sizes, Visitors
  <2>3. Cardinality(Under(t)) \in Nat /\ Cardinality(Behind(t)) \in Nat  BY Subsets,
      Visitors
  <2>4. mine[t] < Threshold[t] + Calls * Cardinality(HR)
    <3>1. CASE cur[t] < Threshold[t]  BY <3>1, <2>1, <2>2
    <3>2. CASE mine[t] + Cardinality(Under(t)) <= Limit(t)  BY <3>2, <2>2, <2>3 DEF Limit
    <3>q. QED BY <3>1, <3>2, <2>1 DEF Running
  <2>5. was[t] < Threshold[t] + Calls * Cardinality(HR)
    <3>1. CASE prev[t] < Threshold[t]  BY <3>1, <2>1, <2>2
    <3>2. CASE was[t] + Cardinality(Behind(t)) <= Limit(t)  BY <3>2, <2>2, <2>3 DEF Limit
    <3>q. QED BY <3>1, <3>2, <2>1 DEF Past
  <2>q. QED BY <2>4, <2>5
<1>q. QED BY <1>1, Invariance, PTL

\* No window overruns its cap by more than what was under way, and a trip holds
\* for a full window (recordScript), for every cap, window and lag.
THEOREM CapStaysKept == Spec => CapKept
<1>1. Overshoot' /\ [\A c \in HR : Admitted(c) => \A t \in Tiers : held[t] = 0]_vars
      => [/\ Overshoot'
          /\ \A c \in HR : Admitted(c) => \A t \in Tiers : held[t] = 0]_vars
  OBVIOUS
<1>q. QED BY <1>1, CapHolds, NoneInWindow, PTL DEF WindowHeld, CapKept

-----------------------------------------------------------------------------
(* BucketSchedule: the wall clock of a bucket and its restarts.            *)

\* What is left of a time never grows as time passes.
LEMMA TimeShrinks ==
  ASSUME NEW t \in Int
  PROVE  Later(t) \in Int /\ Later(t) <= t
  BY BSAssumption DEF Later

\* A step leaves a loop that runs and the persisted time together, and keeps
\* what AnchorKept says of it.
LEMMA AnchorStep ==
  ASSUME Anchored, [BSNext]_bsVars
  PROVE  /\ Anchored'
         /\ (bsRun.pc = "off" /\ bsRun'.pc = "wait" /\ bsSaved.due # None)
              => bsRun'.due = bsSaved.due
         /\ (bsSaved.due # None /\ bsSaved'.due > bsSaved.due) => bsRun.pc = "l5"
<1> DEFINE Kept == /\ (bsRun.pc = "off" /\ bsRun'.pc = "wait" /\ bsSaved.due # None)
                        => bsRun'.due = bsSaved.due
                   /\ (bsSaved.due # None /\ bsSaved'.due > bsSaved.due) => bsRun.pc = "l5"
<1> SUFFICES Anchored' /\ Kept
  OBVIOUS
<1> USE BSAssumption DEF Anchored, BSTypeOK, RunType, SavedType
<1>1. CASE Launch
  <2> DEFINE pruned == PruneCursors(bsSaved.cursor, bsConf)
  <2> SUFFICES ASSUME NEW due \in Anchor,
                      bsRun' = [Off EXCEPT !.pc = "wait", !.subs = bsConf, !.due = due,
                                           !.cursor = pruned],
                      IF bsSaved.due = None THEN SaveBucketState(due, pruned)
                                            ELSE UNCHANGED bsSaved
               PROVE  Anchored' /\ Kept
    BY <1>1 DEF Launch
  <2>1. due \in Int /\ (bsSaved.due # None => due = bsSaved.due)
    BY DEF Anchor
  <2>2. pruned \in [BSSubs -> 0 .. BSPages - 1]
    BY DEF PruneCursors
  <2> HIDE DEF pruned
  <2>3. bsRun' = [pc |-> "wait", subs |-> bsConf, due |-> due, period |-> 0, left |-> {},
                  cursor |-> pruned, sleep |-> 0]
    BY DEF Off
  <2>4. bsRun' \in RunType /\ bsRun'.left \subseteq bsRun'.subs /\ bsRun'.due = due
    <3>1. bsConf \in SUBSET BSSubs /\ due \in Int /\ pruned \in [BSSubs -> 0 .. BSPages - 1]
      BY <2>1, <2>2
    <3>2. bsRun' \in RunType
      BY ONLY <3>1, <2>3 DEF RunType
    <3>q. QED
      <4>1. bsRun'.left = {} /\ bsRun'.due = due
        BY ONLY <2>3
      <4>q. QED
        BY ONLY <3>2, <4>1
  <2>5. bsSaved' \in SavedType /\ bsSaved'.due = due
    BY <2>1, <2>2 DEF SaveBucketState, SavedType
  <2>6. BSTypeOK'
    BY <1>1, <2>4, <2>5 DEF Launch
  <2>q. QED
    BY <1>1, <2>1, <2>3, <2>4, <2>5, <2>6 DEF Launch
<1>2. CASE StopBuckets \/ Crash
  BY <1>2 DEF StopBuckets, Crash, Off
<1>3. CASE StartRound
  <2>1. Cardinality(bsRun.subs) \in Nat
    BY FS_Subset, FS_CardinalityType DEF RunType
  <2> SUFFICES ASSUME NEW p \in CyclePeriod(Cardinality(bsRun.subs)),
                      bsRun' = [bsRun EXCEPT !.pc = "turn", !.period = p, !.left = bsRun.subs]
               PROVE  Anchored' /\ Kept
    BY <1>3 DEF StartRound
  <2>2. p \in Int
    BY <2>1 DEF CyclePeriod
  <2>3. bsRun' \in RunType /\ bsRun'.left = bsRun'.subs /\ bsRun'.due = bsRun.due
    BY <2>2 DEF RunType
  <2>q. QED
    BY <1>3, <2>3 DEF StartRound
<1>4. ASSUME NEW s \in BSSubs, NEW result \in {"page", "failed"}, Turn(s, result)
      PROVE  Anchored' /\ Kept
  <2>1. CursorAfter(s, result) \in [BSSubs -> 0 .. BSPages - 1]
    BY DEF CursorAfter
  <2>0. SubGap(bsRun.period, Cardinality(bsRun.subs)) \in Int
    <3>1. Cardinality(bsRun.subs) \in Nat /\ Cardinality(bsRun.subs) # 0
      BY <1>4, FS_Subset, FS_CardinalityType, FS_EmptySet DEF Turn
    <3>q. QED
      BY <3>1 DEF SubGap
  <2> DEFINE pc == IF Left(s, result) = {} THEN "l5" ELSE "gap"
             sleep == IF Left(s, result) = {} THEN 0
                      ELSE SubGap(bsRun.period, Cardinality(bsRun.subs))
  <2>2. bsRun' = [bsRun EXCEPT !.left = Left(s, result), !.cursor = CursorAfter(s, result),
                               !.pc = pc, !.sleep = sleep]
    BY <1>4 DEF Turn
  <2>3. pc \in {"l5", "gap"} /\ sleep \in Int /\ Left(s, result) \subseteq BSSubs
    BY <2>0 DEF Left
  <2> HIDE DEF pc, sleep
  <2>3a. Left(s, result) \subseteq bsRun.subs
    BY DEF Left
  <2> DEFINE left == Left(s, result)
             cursor == CursorAfter(s, result)
  <2> HIDE DEF left, cursor
  <2>4. bsRun' = [bsRun EXCEPT !.left = left, !.cursor = cursor, !.pc = pc, !.sleep = sleep]
    BY <2>2 DEF left, cursor
  <2>5. left \in SUBSET BSSubs /\ left \subseteq bsRun.subs /\ cursor \in [BSSubs -> 0 .. BSPages - 1]
    BY <2>1, <2>3, <2>3a DEF left, cursor
  <2>6. bsRun' \in RunType
    BY <2>3, <2>4, <2>5 DEF RunType
  <2>7. bsRun'.left = left /\ bsRun'.due = bsRun.due /\ bsRun'.subs = bsRun.subs
    BY <2>4 DEF RunType
  <2>8. bsSaved' = [due |-> bsRun.due, cursor |-> cursor] /\ bsRun.due \in Int
    BY <1>4 DEF Turn, SaveBucketState, cursor, RunType
  <2>9. bsSaved' \in SavedType /\ bsSaved'.due = bsRun.due
    BY <2>5, <2>8 DEF SavedType
  <2>10. BSTypeOK'
    BY <1>4, <2>5, <2>6, <2>7, <2>9 DEF Turn
  <2>q. QED
    <3>1. bsRun.pc = "turn" /\ (bsRun.pc # "off" => bsSaved.due = bsRun.due) /\ bsRun.due \in Int
      BY <1>4, <2>8 DEF Turn
    <3>q. QED
      BY ONLY <3>1, <2>7, <2>9, <2>10 DEF Anchored
<1>5. CASE NextTurn
  BY <1>5 DEF NextTurn
<1>6. CASE EndRound
  <2>1. bsRun' = [bsRun EXCEPT !.pc = "wait", !.due = NextAnchor(bsRun.due, bsRun.period)]
    BY <1>6 DEF EndRound
  <2>2. NextAnchor(bsRun.due, bsRun.period) \in Int
    BY DEF NextAnchor
  <2>q. QED
    BY <1>6, <2>1, <2>2 DEF EndRound, SaveBucketState
<1>7. CASE TimePasses
  <2>1. Later(bsRun.due) \in Int
    BY TimeShrinks
  <2>2. bsSaved.due # None => Later(bsSaved.due) \in Int /\ Later(bsSaved.due) <= bsSaved.due
    BY TimeShrinks
  <2> DEFINE sleep == IF bsRun.sleep > 0 THEN bsRun.sleep - 1 ELSE bsRun.sleep
  <2>3. sleep \in Int /\ bsRun' = [bsRun EXCEPT !.due = Later(bsRun.due), !.sleep = sleep]
    BY <1>7 DEF TimePasses
  <2> HIDE DEF sleep
  <2>4. BSTypeOK'
    BY <1>7, <2>1, <2>2, <2>3 DEF TimePasses
  <2>5. bsSaved'.due = IF bsSaved.due = None THEN None ELSE Later(bsSaved.due)
    BY <1>7 DEF TimePasses
  <2>q. QED
    BY <2>1, <2>2, <2>3, <2>4, <2>5
<1>8. ASSUME NEW subs \in SUBSET BSSubs, Reconfigure(subs) PROVE Anchored' /\ Kept
  BY <1>8 DEF Reconfigure
<1>9. CASE UNCHANGED bsVars
  BY <1>9 DEF bsVars
<1>q. QED
  BY <1>1, <1>2, <1>3, <1>4, <1>5, <1>6, <1>7, <1>8, <1>9 DEF BSNext, Turns

\* The inductive invariant of a bucket, for every set of subreddits: the loop
\* that waits and the row in the database agree on when the next round is due.
THEOREM ScheduleInvariance == BSSpec => []Anchored
<1>1. BSInit => Anchored
  BY BSAssumption DEF BSInit, Anchored, BSTypeOK, RunType, SavedType, Off
<1>2. Anchored /\ [BSNext]_bsVars => Anchored'
  BY AnchorStep
<1>3. QED
  BY <1>1, <1>2, PTL DEF BSSpec

\* A restart, an overdue schedule or another list never puts a round off.
THEOREM RestartKeepsAnchor == BSSpec => AnchorKept
<1>1. Anchored /\ [BSNext]_bsVars
        => [/\ (bsRun.pc = "off" /\ bsRun'.pc = "wait" /\ bsSaved.due # None)
                 => bsRun'.due = bsSaved.due
            /\ (bsSaved.due # None /\ bsSaved'.due > bsSaved.due) => bsRun.pc = "l5"]_bsVars
  BY AnchorStep
<1>2. QED
  BY <1>1, ScheduleInvariance, PTL DEF BSSpec, AnchorKept

-----------------------------------------------------------------------------
(* SubLedger: the row of a subreddit.                                      *)

RowType == [status : {"none", "unknown", "live"} \cup Graves, fails : 0 .. 3, nsfw : NSFW]

\* What the statements make of a row.
LEMMA MarkLiveRow ==
  ASSUME SLTypeOK, NEW s \in SLSubs, MarkLive(s)
  PROVE  /\ slRow' \in [SLSubs -> RowType]
         /\ slRow'[s].status = "live" /\ slRow'[s].fails = 0
         /\ \A t \in SLSubs : /\ slRow'[t].nsfw = slRow[t].nsfw
                              /\ t # s => slRow'[t] = slRow[t]
<1>1. slRow' = [slRow EXCEPT ![s].status = "live", ![s].fails = 0]
  BY DEF MarkLive
<1>2. slRow' \in [SLSubs -> RowType]
  <2> DEFINE live == "live"
             none == 0
  <2>1. live \in {"none", "unknown", "live"} \cup Graves /\ none \in 0 .. 3
    OBVIOUS
  <2>2. slRow' = [slRow EXCEPT ![s].fails = none, ![s].status = live]
    BY <1>1 DEF SLTypeOK
  <2> HIDE DEF live, none
  <2>q. QED
    BY <2>1, <2>2 DEF SLTypeOK, RowType
<1>3. /\ slRow'[s].status = "live" /\ slRow'[s].fails = 0
      /\ \A t \in SLSubs : /\ slRow'[t].nsfw = slRow[t].nsfw
                           /\ t # s => slRow'[t] = slRow[t]
  BY <1>1 DEF SLTypeOK
<1>q. QED
  BY <1>2, <1>3

\* A failure adds one to the misses of a live row and never takes 18+ back.
LEMMA FailureRow ==
  ASSUME SLTypeOK, NEW s \in SLSubs, NEW reason \in SLReasons, RecordFailure(s, reason)
  PROVE  /\ slRow' \in [SLSubs -> RowType]
         /\ slRow'[s].fails = IF slRow[s].fails < 3 THEN slRow[s].fails + 1 ELSE 3
         /\ slRow'[s].status \in Graves => slRow'[s].fails = 3
         /\ \A t \in SLSubs : /\ slRow'[t].nsfw = slRow[t].nsfw
                              /\ t # s => slRow'[t] = slRow[t]
<1> DEFINE n == IF slRow[s].fails < 3 THEN slRow[s].fails + 1 ELSE 3
           status == IF n < 3 THEN "unknown"
                     ELSE IF reason \in {"private", "quarantined"} THEN reason ELSE "dead"
<1>1. slRow' = [slRow EXCEPT ![s].fails = n, ![s].status = status]
  BY DEF RecordFailure
<1>2. n \in 0 .. 3 /\ status \in Graves \cup {"unknown"} /\ (status \in Graves => n = 3)
  BY DEF SLTypeOK, Graves
<1>3. n = IF slRow[s].fails < 3 THEN slRow[s].fails + 1 ELSE 3
  OBVIOUS
<1> HIDE DEF n, status
<1>4. slRow' \in [SLSubs -> RowType]
  <2>1. slRow \in [SLSubs -> RowType] /\ slRow[s] \in RowType
    BY DEF SLTypeOK, RowType
  <2>2. [[slRow[s] EXCEPT !.fails = n] EXCEPT !.status = status] \in RowType
    BY <1>2, <2>1 DEF RowType
  <2>q. QED
    BY <1>1, <2>1, <2>2
<1>5. slRow'[s].fails = n /\ slRow'[s].status = status
  BY <1>1 DEF SLTypeOK
<1>6. \A t \in SLSubs : /\ slRow'[t].nsfw = slRow[t].nsfw
                        /\ t # s => slRow'[t] = slRow[t]
  BY <1>1 DEF SLTypeOK
<1>q. QED
  BY <1>2, <1>3, <1>4, <1>5, <1>6

\* What the listing says of 18+ is written once seen, and stays.
LEMMA NSFWRow ==
  ASSUME SLTypeOK, NEW s \in SLSubs, NEW v \in BOOLEAN, SetNSFW(s, v)
  PROVE  /\ slRow' \in [SLSubs -> RowType]
         /\ (slRow[s].nsfw = TRUE \/ v = TRUE) => slRow'[s].nsfw = TRUE
         /\ slRow'[s].fails = slRow[s].fails
         /\ slRow'[s].status \in Graves => slRow[s].status \in Graves
         /\ \A t \in SLSubs : t # s => slRow'[t] = slRow[t]
<1> DEFINE mark == (slRow[s].nsfw = TRUE) \/ v
           status == IF slRow[s].status = "none" THEN "unknown" ELSE slRow[s].status
<1>1. slRow' = [slRow EXCEPT ![s].nsfw = mark, ![s].status = status]
  BY DEF SetNSFW
<1>2. mark \in BOOLEAN /\ ((slRow[s].nsfw = TRUE \/ v = TRUE) => mark = TRUE)
  OBVIOUS
<1>3. status \in {"unknown", "live"} \cup Graves /\ (status \in Graves => slRow[s].status \in Graves)
  BY DEF SLTypeOK, Graves
<1> HIDE DEF mark, status
<1>4. slRow' \in [SLSubs -> RowType]
  <2>1. mark \in NSFW
    BY <1>2 DEF NSFW
  <2>q. QED
    BY <1>1, <1>3, <2>1 DEF SLTypeOK, RowType
<1>5. /\ slRow'[s].nsfw = mark /\ slRow'[s].status = status /\ slRow'[s].fails = slRow[s].fails
      /\ \A t \in SLSubs : t # s => slRow'[t] = slRow[t]
  BY <1>1 DEF SLTypeOK
<1>q. QED
  BY <1>2, <1>3, <1>4, <1>5

\* A success starts the count over, a failure adds to it, in both books.
LEMMA OutcomeStep ==
  ASSUME LedgerCounts, NEW s \in SLSubs,
         Succeeds(s) \/ \E reason \in SLReasons : Fails(s, reason)
  PROVE  /\ slRow' \in [SLSubs -> RowType] /\ slBad' \in [SLSubs -> 0 .. 3]
         /\ \A t \in SLSubs : /\ slRow'[t].fails = slBad'[t]
                              /\ slRow'[t].status \in Graves => slRow'[t].fails = 3
                              /\ slRow'[t].nsfw = slRow[t].nsfw
<1> USE DEF LedgerCounts
<1>1. CASE Succeeds(s)
  <2>1. slBad' \in [SLSubs -> 0 .. 3] /\ slBad'[s] = 0
        /\ \A t \in SLSubs : t # s => slBad'[t] = slBad[t]
    BY <1>1 DEF Succeeds, SLTypeOK
  <2>q. QED
    BY <1>1, <2>1, MarkLiveRow DEF Succeeds, Graves
<1>2. ASSUME NEW reason \in SLReasons, Fails(s, reason)
      PROVE  /\ slRow' \in [SLSubs -> RowType] /\ slBad' \in [SLSubs -> 0 .. 3]
             /\ \A t \in SLSubs : /\ slRow'[t].fails = slBad'[t]
                                  /\ slRow'[t].status \in Graves => slRow'[t].fails = 3
                                  /\ slRow'[t].nsfw = slRow[t].nsfw
  <2>1. /\ slBad' \in [SLSubs -> 0 .. 3]
        /\ slBad'[s] = IF slBad[s] < 3 THEN slBad[s] + 1 ELSE 3
        /\ \A t \in SLSubs : t # s => slBad'[t] = slBad[t]
    BY <1>2 DEF Fails, SLTypeOK
  <2>q. QED
    BY <1>2, <2>1, FailureRow DEF Fails
<1>q. QED
  BY <1>1, <1>2

\* Every step keeps the two books together and the marks in the table.
LEMMA LedgerStep ==
  ASSUME LedgerCounts, [SLNext]_slVars PROVE LedgerCounts'
<1> USE SLAssumption DEF LedgerCounts
<1> DEFINE Counts == \A s \in SLSubs : /\ slRow[s].fails = slBad[s]
                                       /\ slRow[s].status \in Graves => slRow[s].fails = 3
<1>1. ASSUME NEW s \in SLSubs, L1Fetch(s) \/ ProbeSub(s) \/ LateLive(s) PROVE LedgerCounts'
  <2>1. Succeeds(s) \/ \E reason \in SLReasons : Fails(s, reason)
    BY <1>1 DEF L1Fetch, ProbeSub, LateLive
  <2>2. UNCHANGED <<slCrawl, slKnown, slWriting, slPosts, slHub, slFaults>> /\ slLate' \subseteq slLate
    BY <1>1 DEF L1Fetch, ProbeSub, LateLive
  <2>3. SLTypeOK'
    BY <2>1, <2>2, OutcomeStep DEF SLTypeOK, RowType
  <2>4. NSFWNotForgotten'
    BY <2>1, <2>2, OutcomeStep DEF NSFWNotForgotten, SLTypeOK
  <2>q. QED
    BY <2>1, <2>3, <2>4, OutcomeStep
<1>2. ASSUME NEW s \in SLSubs, PageFetch(s) PROVE LedgerCounts'
  <2>1. CASE UNCHANGED <<slRow, slBad>>
    BY <1>2, <2>1 DEF PageFetch, SLTypeOK, NSFWNotForgotten
  <2>2. CASE \E reason \in SLReasons : Fails(s, reason) /\ UNCHANGED slLate
    <3>1. UNCHANGED <<slCrawl, slLate, slKnown, slWriting, slPosts, slHub, slFaults>>
      BY <1>2, <2>2 DEF PageFetch
    <3>2. SLTypeOK'
      BY <2>2, <3>1, OutcomeStep DEF SLTypeOK, RowType
    <3>3. NSFWNotForgotten'
      BY <2>2, <3>1, OutcomeStep DEF NSFWNotForgotten, SLTypeOK
    <3>q. QED
      BY <2>2, <3>2, <3>3, OutcomeStep
  <2>q. QED
    BY <1>2, <2>1, <2>2 DEF PageFetch
<1>3. ASSUME NEW s \in SLSubs, ArchiveNSFW(s) PROVE LedgerCounts'
  BY <1>3 DEF ArchiveNSFW, SLTypeOK, NSFWNotForgotten
<1>4. ASSUME NEW s \in SLSubs, WriteNSFW(s) PROVE LedgerCounts'
  <2>1. SetNSFW(s, TRUE) /\ slWriting' = slWriting \ {s}
        /\ UNCHANGED <<slCrawl, slLate, slKnown, slPosts, slHub, slBad, slFaults>>
    BY <1>4 DEF WriteNSFW
  <2>2. SLTypeOK'
    BY <2>1, NSFWRow DEF SLTypeOK, RowType
  <2>3. NSFWNotForgotten'
    BY <2>1, NSFWRow DEF SLTypeOK, NSFWNotForgotten
  <2>4. Counts'
    BY <2>1, NSFWRow
  <2>q. QED
    BY <2>2, <2>3, <2>4
<1>5. ASSUME NEW s \in SLSubs, WriteNSFWFails(s) PROVE LedgerCounts'
  BY <1>5 DEF WriteNSFWFails, SLTypeOK, NSFWNotForgotten
<1>6. ASSUME NEW s \in SLSubs, HubWrites(s) PROVE LedgerCounts'
  <2>1. slHub[s] \in BOOLEAN
    BY <1>6 DEF HubWrites, SLTypeOK, NSFW
  <2>2. SetNSFW(s, slHub[s]) /\ slHub' = [slHub EXCEPT ![s] = None]
        /\ UNCHANGED <<slCrawl, slLate, slKnown, slWriting, slPosts, slBad, slFaults>>
    BY <1>6 DEF HubWrites
  <2>3. slHub' \in [SLSubs -> NSFW]
    BY <2>2 DEF SLTypeOK, NSFW
  <2>4. SLTypeOK'
    BY <2>1, <2>2, <2>3, NSFWRow DEF SLTypeOK, RowType
  <2>5. NSFWNotForgotten'
    BY <2>1, <2>2, NSFWRow DEF SLTypeOK, NSFWNotForgotten
  <2>6. Counts'
    BY <2>1, <2>2, NSFWRow
  <2>q. QED
    BY <2>4, <2>5, <2>6
<1>7. ASSUME NEW names \in SUBSET SLSubs, SaveCrawl(names) PROVE LedgerCounts'
  BY <1>7 DEF SaveCrawl, FilterUsableSubs, SLTypeOK, NSFWNotForgotten
<1>8. CASE HubLooks
  <2>1. slHub' \in [SLSubs -> NSFW]
    <3> DEFINE looks(s) == IF GetNSFWMap[s] = None THEN s \in slPosts ELSE None
    <3>1. slHub' = [s \in SLSubs |-> looks(s)]
      BY <1>8 DEF HubLooks
    <3>2. \A s \in SLSubs : (s \in slPosts) \in BOOLEAN
      OBVIOUS
    <3>3. \A s \in SLSubs : looks(s) \in NSFW
      BY <3>2, Zenon DEF NSFW
    <3> HIDE DEF looks
    <3>q. QED
      BY <3>1, <3>3
  <2>q. QED
    BY <1>8, <2>1 DEF HubLooks, SLTypeOK, NSFWNotForgotten
<1>9. CASE RestartLedger
  <2>1. slHub' \in [SLSubs -> NSFW]
    BY <1>9 DEF RestartLedger, NSFW
  <2>q. QED
    BY <1>9, <2>1 DEF RestartLedger, SLTypeOK, NSFWNotForgotten
<1>10. CASE UNCHANGED slVars
  BY <1>10 DEF slVars, SLTypeOK, NSFWNotForgotten
<1>q. QED
  BY <1>1, <1>2, <1>3, <1>4, <1>5, <1>6, <1>7, <1>8, <1>9, <1>10 DEF SLNext

\* The inductive invariant of the ledger: a row counts the failures in a row
\* that there were, a gravestone stands over three of them, and 18+ once said
\* is not forgotten (substatus.go RecordFailure, SetNSFW).
THEOREM LedgerInvariance == SLSpec => []LedgerCounts
<1>1. SLInit => LedgerCounts
  <2>1. SLInit => SLTypeOK
    BY SLAssumption DEF SLInit, SLTypeOK, NSFW, Graves
  <2>q. QED
    BY <2>1 DEF SLInit, LedgerCounts, NSFWNotForgotten, Graves
<1>2. LedgerCounts /\ [SLNext]_slVars => LedgerCounts'
  BY LedgerStep
<1>3. QED
  BY <1>1, <1>2, PTL DEF SLSpec

\* A subreddit is buried only over three failures in a row, and stays 18+ once
\* it was said to be, whatever fetches, probes and visits overlap.
THEOREM LedgerIsTruthful == SLSpec => []LedgerTruthful
<1>1. LedgerCounts => LedgerTruthful
  BY DEF LedgerCounts, LedgerTruthful, GravestoneEarned
<1>2. QED
  BY <1>1, LedgerInvariance, PTL

-----------------------------------------------------------------------------
(* Listings: what is shown, and the pages of a search.                     *)

\* The rows have the columns the orders compare.
OfRows(rows) == /\ IsFiniteSet(rows)
                /\ \A p \in rows : p.score \in Int /\ p.created \in Int /\ p.seen \in Int

LEMMA ListedTyped == OfRows(LSRows)
BY LSAssumption DEF LSAssumption, OfRows

LEMMA SomeRows ==
  ASSUME NEW rows, OfRows(rows), NEW some \in SUBSET rows
  PROVE  OfRows(some) /\ IsFiniteSet(some)
BY FS_Subset DEF OfRows

LEMMA LeastNatural ==
    ASSUME NEW Numbers \in SUBSET Nat, Numbers # {}
    PROVE  \E x \in Numbers : \A y \in Numbers : x =< y
<1> DEFINE LessThan == {ss \in Nat \X Nat : ss[1] < ss[2]}
<1>1. \A x, y \in Nat : y < x => <<y, x>> \in LessThan
  OBVIOUS
<1>2. IsWellFoundedOn(LessThan, Nat)
  BY NatLessThanWellFounded DEF OpToRel
<1> HIDE DEF LessThan
<1>3. PICK x \in Numbers : \A y \in Numbers : ~ (<<y, x>> \in LessThan)
  BY <1>2, WFMin
<1>4. ASSUME NEW y \in Numbers
      PROVE  x =< y
  <2>1. x \in Nat /\ y \in Nat
    OBVIOUS
  <2>2. ~(y < x)
    BY <2>1, <1>1, <1>3
  <2>3. QED
    BY <2>1, <2>2
<1>5. QED
  BY <1>4

\* The best row of a cluster is one of it: a finite set that is not empty has
\* a row that no other is better than, for one with the fewest better rows
\* has none.
LEMMA BestIsOne ==
  ASSUME NEW rows, OfRows(rows), rows # {}
  PROVE  Best(rows) \in rows /\ \A q \in rows : ~Better(q, Best(rows))
<1> DEFINE above(p) == {q \in rows : Better(q, p)}
           Counts == {Cardinality(above(p)) : p \in rows}
<1>1. ASSUME NEW p \in rows  PROVE  IsFiniteSet(above(p)) /\ Cardinality(above(p)) \in Nat
  BY FS_Subset, FS_CardinalityType DEF OfRows
<1>2. Counts \in SUBSET Nat /\ Counts # {}
  BY <1>1
<1>3. PICK n \in Counts : \A m \in Counts : n =< m
  BY <1>2, LeastNatural
<1>4. PICK p \in rows : n = Cardinality(above(p))
  OBVIOUS
<1>5. ASSUME NEW q \in rows, Better(q, p)  PROVE  FALSE
  <2>1. above(q) \subseteq above(p) /\ q \in above(p) /\ q \notin above(q)
    BY <1>5 DEF Better, OfRows
  <2>2. Cardinality(above(q)) =< Cardinality(above(p)) /\ Cardinality(above(q)) # Cardinality(above(p))
    BY <1>1, <2>1, FS_Subset
  <2>3. Cardinality(above(p)) =< Cardinality(above(q))
    BY <1>3, <1>4
  <2>4. QED
    BY <1>1, <2>2, <2>3
<1>6. \E x \in rows : \A q \in rows : ~Better(q, x)
  BY <1>5
<1>7. QED
  BY <1>6 DEF Best

LEMMA ClusterHasIt ==
  ASSUME NEW rows, NEW p \in rows
  PROVE  Cluster(rows, p) \in SUBSET rows /\ p \in Cluster(rows, p)
BY DEF Cluster

LEMMA BestInCluster ==
  ASSUME NEW rows, OfRows(rows), NEW p \in rows
  PROVE  Best(Cluster(rows, p)) \in Cluster(rows, p) /\ Best(Cluster(rows, p)) \in rows
<1>1. Cluster(rows, p) \in SUBSET rows /\ p \in Cluster(rows, p)
  BY ClusterHasIt
<1>2. OfRows(Cluster(rows, p)) /\ Cluster(rows, p) # {}
  BY <1>1, SomeRows
<1>3. QED
  BY <1>1, <1>2, BestIsOne

LEMMA FoldedSome ==
  ASSUME NEW rows, OfRows(rows)
  PROVE  Folded(rows) \in SUBSET rows
BY BestInCluster DEF Folded

\* What a page that lists posts is made of is rows of the archive.
LEMMA QueriesSome ==
  ASSUME NEW rows, OfRows(rows), NEW o, NEW sort, NEW limit, NEW offset, NEW now, NEW sub,
         NEW show
  PROVE  /\ ArchiveSearch(rows, o, sort, limit, offset).page \in SUBSET rows
         /\ ListHomepage(rows, o, sort, now, limit, offset) \in SUBSET rows
         /\ ListBySubreddit(rows, sub, limit, offset, show) \in SUBSET rows
         /\ OnPage(InSub(rows, sub, show), sort, limit, offset) \in SUBSET rows
<1> DEFINE in == {p \in rows : Satisfies(p, o)}
<1>1. Folded(in) \in SUBSET in
  BY SomeRows, FoldedSome
<1>2. ArchiveSearch(rows, o, sort, limit, offset).page = OnPage(Folded(in), sort, limit, offset)
  BY DEF ArchiveSearch
<1>3. OnPage(Folded(in), sort, limit, offset) \in SUBSET Folded(in)
  BY DEF OnPage
<1>4. ListHomepage(rows, o, sort, now, limit, offset) \in SUBSET rows
  BY DEF ListHomepage, OnPage
<1>5. QED
  BY <1>1, <1>2, <1>3, <1>4 DEF ListBySubreddit, OnPage, InSub

-----------------------------------------------------------------------------
LSRequest == [at : {"idle", "reads", "waits", "fetched", "failed", "shown"},
              page : LSPages \cup {None}, show : BOOLEAN, got : SUBSET LSRows]

LEMMA NothingTyped ==
  /\ Nothing \in LSRequest
  /\ \A page \in LSPages, show \in BOOLEAN :
       [Nothing EXCEPT !.at = "reads", !.page = page, !.show = show] \in LSRequest
  /\ \A show \in BOOLEAN, got \in SUBSET LSRows :
       [Nothing EXCEPT !.at = "shown", !.show = show, !.got = got] \in LSRequest
BY DEF Nothing, LSRequest

LEMMA FilterHides ==
  ASSUME NEW posts \in SUBSET LSRows, NEW show \in BOOLEAN
  PROVE  /\ FilterNSFW(posts, show) \in SUBSET LSRows
         /\ ~show => \A p \in FilterNSFW(posts, show) : ~p.nsfw
BY DEF FilterNSFW

\* What a step on one request has to show of it.
LEMMA OneRequest ==
  ASSUME HiddenStays, NEW v \in LSVisitors, NEW r \in LSRequest,
         r.at = "shown" /\ ~r.show => \A p \in r.got : ~p.nsfw,
         lsReq' = [lsReq EXCEPT ![v] = r]
  PROVE  lsReq' \in [LSVisitors -> LSRequest] /\ NSFWHidden'
BY DEF HiddenStays, LSTypeOK, NSFWHidden, LSRequest

LEMMA OpenHides ==
  ASSUME HiddenStays, NEW v \in LSVisitors, NEW page \in LSPages, OpenListing(v, page)
  PROVE  HiddenStays'
<1> DEFINE r == [Nothing EXCEPT !.at = "reads", !.page = page, !.show = lsShow]
<1>1. r \in LSRequest /\ r.at # "shown"
  BY NothingTyped DEF HiddenStays, LSTypeOK, Nothing
<1>2. lsReq' = [lsReq EXCEPT ![v] = r]
  BY DEF OpenListing
<1> HIDE DEF r
<1>3. lsReq' \in [LSVisitors -> LSRequest] /\ NSFWHidden'
  BY <1>1, <1>2, OneRequest
<1>4. LSTypeOK'
  BY <1>3, LSAssumption DEF OpenListing, HiddenStays, LSTypeOK, LSRequest, LSAssumption
<1>5. QED
  BY <1>3, <1>4 DEF OpenListing, HiddenStays

LEMMA ServeHides ==
  ASSUME HiddenStays, NEW v \in LSVisitors, ServeCached(v)
  PROVE  HiddenStays'
<1>1. PICK c \in lsCache : /\ c.key = ListingKey(v)
                           /\ lsReq' = [lsReq EXCEPT ![v].at = "shown", ![v].got = c.posts]
  BY DEF ServeCached
<1> DEFINE r == [lsReq[v] EXCEPT !.at = "shown", !.got = c.posts]
<1>2. lsReq[v] \in LSRequest /\ c.posts \in SUBSET LSRows
  BY DEF HiddenStays, LSTypeOK, LSRequest
<1>3. r \in LSRequest /\ r.show = lsReq[v].show /\ r.got = c.posts
  BY <1>2 DEF LSRequest
<1>4. c.key[3] = lsReq[v].show
  BY <1>1 DEF ListingKey, HtmlCacheKey
<1>5. ~r.show => \A p \in r.got : ~p.nsfw
  BY <1>3, <1>4 DEF HiddenStays
<1>6. lsReq' = [lsReq EXCEPT ![v] = r]
  BY <1>1
<1> HIDE DEF r
<1>7. lsReq' \in [LSVisitors -> LSRequest] /\ NSFWHidden'
  BY <1>3, <1>5, <1>6, OneRequest
<1>8. QED
  BY <1>7 DEF ServeCached, HiddenStays, LSTypeOK, LSRequest

LEMMA FetchHides ==
  ASSUME HiddenStays, NEW v \in LSVisitors, FetchListing(v) \/ Degrade(v)
  PROVE  HiddenStays'
<1>1. PICK at \in {"waits", "failed"} : lsReq' = [lsReq EXCEPT ![v].at = at]
  BY DEF FetchListing, Degrade
<1> DEFINE r == [lsReq[v] EXCEPT !.at = at]
<1>2. r \in LSRequest /\ r.at # "shown"
  BY DEF HiddenStays, LSTypeOK, LSRequest
<1>3. lsReq' = [lsReq EXCEPT ![v] = r]
  BY <1>1
<1> HIDE DEF r
<1>4. lsReq' \in [LSVisitors -> LSRequest] /\ NSFWHidden'
  BY <1>2, <1>3, OneRequest
<1>5. lsFlight' \in [LSPages -> SUBSET LSVisitors]
  BY DEF HiddenStays, LSTypeOK, FetchListing, Degrade
<1>6. QED
  BY <1>4, <1>5 DEF FetchListing, Degrade, HiddenStays, LSTypeOK, LSRequest

LEMMA LandHides ==
  ASSUME HiddenStays, NEW page \in LSPages, NEW posts \in SUBSET LSRows,
         LandListing(page, posts) \/ ListingFails(page)
  PROVE  HiddenStays'
<1>1. ASSUME NEW v \in LSVisitors
      PROVE  /\ lsReq'[v] \in LSRequest
             /\ lsReq'[v] = lsReq[v] \/ lsReq'[v].at # "shown"
  <2> DEFINE land == [lsReq[v] EXCEPT !.at = "fetched", !.got = posts]
             fail == [lsReq[v] EXCEPT !.at = "failed"]
  <2>1. lsReq[v] \in LSRequest
    BY DEF HiddenStays, LSTypeOK, LSRequest
  <2>2. /\ land \in LSRequest /\ land.at # "shown"
        /\ fail \in LSRequest /\ fail.at # "shown"
    BY <2>1 DEF LSRequest
  <2>3. lsReq'[v] \in {land, fail, lsReq[v]}
    BY DEF LandListing, ListingFails
  <2> HIDE DEF land, fail
  <2>4. QED
    BY <2>1, <2>2, <2>3
<1>2. lsReq' \in [LSVisitors -> LSRequest]
  <2>1. DOMAIN lsReq' = LSVisitors /\ lsReq' = [v \in LSVisitors |-> lsReq'[v]]
    BY DEF LandListing, ListingFails
  <2>2. QED
    BY <1>1, <2>1
<1>3. NSFWHidden'
  BY <1>1 DEF NSFWHidden, HiddenStays
<1>4. lsFlight' \in [LSPages -> SUBSET LSVisitors] /\ lsArch' \in SUBSET LSRows
  BY DEF HiddenStays, LSTypeOK, LandListing, ListingFails
<1>5. QED
  BY <1>2, <1>3, <1>4 DEF LandListing, ListingFails, HiddenStays, LSTypeOK, LSRequest

LEMMA RenderingHides ==
  ASSUME HiddenStays, NEW v \in LSVisitors, NEW posts \in SUBSET LSRows, RenderAndCache(v, posts),
         UNCHANGED <<lsArch, lsShow, lsUp, lsFlight, lsCache, lsFlush, lsLeft>>
  PROVE  HiddenStays'
<1> DEFINE cut == FilterNSFW(posts, lsReq[v].show)
           r == [lsReq[v] EXCEPT !.at = "shown", !.got = cut]
           put == [key |-> ListingKey(v), posts |-> cut]
<1>1. lsReq[v] \in LSRequest
  BY DEF HiddenStays, LSTypeOK, LSRequest
<1>2. cut \in SUBSET LSRows /\ (~lsReq[v].show => \A p \in cut : ~p.nsfw)
  BY <1>1, FilterHides DEF LSRequest
<1>3. lsReq' = [lsReq EXCEPT ![v] = r] /\ lsPuts' = lsPuts \cup {put}
  BY DEF RenderAndCache, Shown
<1>4. put.posts = cut /\ put.key[3] = lsReq[v].show
  BY DEF ListingKey, HtmlCacheKey
<1> HIDE DEF cut, put
<1>5. r \in LSRequest /\ r.show = lsReq[v].show /\ r.got = cut
  BY <1>1, <1>2 DEF LSRequest
<1> HIDE DEF r
<1>6. lsReq' \in [LSVisitors -> LSRequest] /\ NSFWHidden'
  BY <1>2, <1>3, <1>5, OneRequest
<1>7. LSTypeOK'
  BY <1>2, <1>3, <1>4, <1>6 DEF HiddenStays, LSTypeOK, LSRequest
<1>8. QED
  BY <1>2, <1>3, <1>4, <1>6, <1>7 DEF HiddenStays

LEMMA RenderHides ==
  ASSUME HiddenStays, NEW v \in LSVisitors, Render(v) \/ RenderFromArchive(v)
  PROVE  HiddenStays'
<1>1. CASE Render(v)
  <2>1. lsReq[v].got \in SUBSET LSRows
    BY DEF HiddenStays, LSTypeOK
  <2>2. QED
    BY <1>1, <2>1, RenderingHides DEF Render
<1>2. CASE RenderFromArchive(v)
  <2> DEFINE posts == ListBySubreddit(lsArch, lsReq[v].page.sub, LSLimit, 0, lsReq[v].show)
  <2>1. posts \in SUBSET LSRows
    BY ListedTyped, SomeRows, QueriesSome DEF HiddenStays, LSTypeOK
  <2>2. \/ RenderAndCache(v, posts)
        \/ lsReq' = [lsReq EXCEPT ![v] = Nothing] /\ UNCHANGED lsPuts
    BY <1>2 DEF RenderFromArchive
  <2>3. UNCHANGED <<lsArch, lsShow, lsUp, lsFlight, lsCache, lsFlush, lsLeft>>
    BY <1>2 DEF RenderFromArchive
  <2> HIDE DEF posts
  <2>4. CASE RenderAndCache(v, posts)
    BY <2>1, <2>3, <2>4, RenderingHides
  <2>5. CASE lsReq' = [lsReq EXCEPT ![v] = Nothing] /\ UNCHANGED lsPuts
    <3>1. Nothing \in LSRequest /\ Nothing.at # "shown"
      BY NothingTyped DEF Nothing
    <3>2. lsReq' \in [LSVisitors -> LSRequest] /\ NSFWHidden'
      BY <2>5, <3>1, OneRequest
    <3>3. QED
      BY <2>3, <2>5, <3>2 DEF HiddenStays, LSTypeOK, LSRequest
  <2>6. QED
    BY <2>2, <2>4, <2>5
<1>3. QED
  BY <1>1, <1>2

LEMMA ArchiveHides ==
  ASSUME HiddenStays, NEW v \in LSVisitors, NEW posts \in SUBSET LSRows, ArchivePage(v, posts)
  PROVE  HiddenStays'
<1> DEFINE cut == FilterNSFW(posts, lsShow)
           r == [Nothing EXCEPT !.at = "shown", !.show = lsShow, !.got = cut]
<1>1. cut \in SUBSET LSRows /\ lsShow \in BOOLEAN /\ (~lsShow => \A p \in cut : ~p.nsfw)
  BY FilterHides DEF HiddenStays, LSTypeOK
<1>2. lsReq' = [lsReq EXCEPT ![v] = r]
  BY DEF ArchivePage
<1> HIDE DEF cut
<1>3. r \in LSRequest /\ r.show = lsShow /\ r.got = cut
  BY <1>1, NothingTyped DEF Nothing
<1> HIDE DEF r
<1>4. lsReq' \in [LSVisitors -> LSRequest] /\ NSFWHidden'
  BY <1>1, <1>2, <1>3, OneRequest
<1>5. LSTypeOK'
  BY <1>4, LSAssumption DEF ArchivePage, HiddenStays, LSTypeOK, LSRequest, LSAssumption
<1>6. QED
  BY <1>4, <1>5 DEF ArchivePage, HiddenStays

LEMMA ArchivePagesHide ==
  ASSUME HiddenStays, NEW v \in LSVisitors, NEW q, NEW sort, NEW s,
         FrontPage(v, q, sort) \/ HubSearch(v, q, sort) \/ ArchiveSub(v, s)
  PROVE  HiddenStays'
<1>1. OfRows(lsArch) /\ lsArch \in SUBSET LSRows
  BY ListedTyped, SomeRows DEF HiddenStays, LSTypeOK
<1>2. \E posts \in SUBSET LSRows : ArchivePage(v, posts)
  BY <1>1, QueriesSome DEF FrontPage, HubSearch, ArchiveSub
<1>3. QED
  BY <1>2, ArchiveHides

LEMMA CacheHides ==
  ASSUME HiddenStays,
         \/ \E p \in lsPuts : CachePut(p)
         \/ \E c \in lsCache : CacheExpires(c)
         \/ InvalidateAllHTML
  PROVE  HiddenStays'
<1>1. lsCache' \cup lsPuts' \subseteq lsCache \cup lsPuts
  BY DEF CachePut, CacheExpires, InvalidateAllHTML
<1>2. UNCHANGED <<lsArch, lsShow, lsUp, lsReq, lsFlight, lsLeft>> /\ lsFlush' \in {FALSE, lsFlush}
  BY DEF CachePut, CacheExpires, InvalidateAllHTML
<1>3. QED
  BY <1>1, <1>2 DEF HiddenStays, LSTypeOK, NSFWHidden

LEMMA SaveHides ==
  ASSUME HiddenStays, SaveShown \/ Reach
  PROVE  HiddenStays'
<1>1. UNCHANGED <<lsArch, lsReq, lsFlight, lsCache, lsPuts>> /\ lsShow' \in BOOLEAN /\ lsUp' \in BOOLEAN
      /\ lsFlush' \in BOOLEAN
  BY DEF SaveShown, Reach, HiddenStays, LSTypeOK
<1>2. lsLeft' \in [asks : 0 .. LSAsks, saves : 0 .. LSSaves]
  BY LSAssumption DEF SaveShown, Reach, HiddenStays, LSTypeOK, LSAssumption
<1>3. QED
  BY <1>1, <1>2 DEF HiddenStays, LSTypeOK, NSFWHidden

\* What is rendered hides what its key hides, and so does what is shown
\* (HiddenStays), however requests, fetches, cache writes and saves interleave.
THEOREM HiddenInvariance == LSSpec => []HiddenStays
<1>1. LSInit => HiddenStays
  <2>1. Nothing \in LSRequest /\ Nothing.at = "idle"
    BY NothingTyped DEF Nothing
  <2> SUFFICES ASSUME LSInit  PROVE HiddenStays
    OBVIOUS
  <2>2. lsReq \in [LSVisitors -> LSRequest] /\ NSFWHidden
    BY <2>1 DEF LSInit, NSFWHidden
  <2>3. lsLeft \in [asks : 0 .. LSAsks, saves : 0 .. LSSaves]
    BY LSAssumption DEF LSInit, LSAssumption
  <2>4. QED
    BY <2>2, <2>3 DEF LSInit, HiddenStays, LSTypeOK, LSRequest
<1>2. HiddenStays /\ [LSNext]_lsVars => HiddenStays'
  <2> SUFFICES ASSUME HiddenStays, [LSNext]_lsVars  PROVE HiddenStays'
    OBVIOUS
  <2>1. ASSUME NEW v \in LSVisitors, NEW p \in LSPages, OpenListing(v, p)  PROVE HiddenStays'
    BY <2>1, OpenHides
  <2>2. ASSUME NEW v \in LSVisitors, ServeCached(v)  PROVE HiddenStays'
    BY <2>2, ServeHides
  <2>3. ASSUME NEW v \in LSVisitors, FetchListing(v) \/ Degrade(v)  PROVE HiddenStays'
    BY <2>3, FetchHides
  <2>4. ASSUME NEW v \in LSVisitors, Render(v) \/ RenderFromArchive(v)  PROVE HiddenStays'
    BY <2>4, RenderHides
  <2>5. ASSUME NEW v \in LSVisitors, NEW q, NEW sort, NEW s,
               FrontPage(v, q, sort) \/ HubSearch(v, q, sort) \/ ArchiveSub(v, s)
        PROVE  HiddenStays'
    BY <2>5, ArchivePagesHide
  <2>6. ASSUME NEW p \in LSPages, ListingFails(p)  PROVE HiddenStays'
    BY <2>6, LandHides
  <2>7. ASSUME NEW p \in LSPages, NEW n,
               LandListing(p, OnPage(InSub(LSRows, p.sub, TRUE), p.sort, n, 0))
        PROVE  HiddenStays'
    <3>1. OnPage(InSub(LSRows, p.sub, TRUE), p.sort, n, 0) \in SUBSET LSRows
      BY DEF OnPage, InSub
    <3>2. QED
      BY <2>7, <3>1, LandHides
  <2>8. ASSUME \/ \E p \in lsPuts : CachePut(p)
               \/ \E c \in lsCache : CacheExpires(c)
               \/ InvalidateAllHTML
        PROVE  HiddenStays'
    BY <2>8, CacheHides
  <2>9. ASSUME SaveShown \/ Reach  PROVE HiddenStays'
    BY <2>9, SaveHides
  <2>10. CASE UNCHANGED lsVars
    BY <2>10 DEF lsVars, HiddenStays, LSTypeOK, NSFWHidden
  <2>11. QED
    BY <2>1, <2>2, <2>3, <2>4, <2>5, <2>6, <2>7, <2>8, <2>9, <2>10 DEF LSNext
<1>3. QED
  BY <1>1, <1>2, PTL DEF LSSpec

\* No page that lists posts shows an NSFW one to a visitor who hides them
\* (NSFWHidden), for all rows, visitors, pages, queries and settings.
THEOREM NothingHiddenShown == LSSpec => []NSFWHidden
<1>1. HiddenStays => NSFWHidden
  BY DEF HiddenStays
<1>2. QED
  BY <1>1, HiddenInvariance, PTL

-----------------------------------------------------------------------------
\* The orders of the archive are orders.
LEMMA BeforeOrders ==
  ASSUME NEW rows, OfRows(rows), NEW sort, NEW p \in rows, NEW q \in rows, NEW r \in rows
  PROVE  /\ ~Before(sort, p, p)
         /\ Before(sort, p, q) /\ Before(sort, q, r) => Before(sort, p, r)
BY DEF Before, OfRows

LEMMA RankBounds ==
  ASSUME NEW rows, OfRows(rows), NEW sort, NEW p \in rows
  PROVE  Rank(rows, sort, p) \in Nat /\ Rank(rows, sort, p) < Cardinality(rows)
<1> DEFINE above == {q \in rows : Before(sort, q, p)}
<1>1. above \subseteq rows /\ p \notin above
  BY BeforeOrders
<1>2. IsFiniteSet(above) /\ Cardinality(above) =< Cardinality(rows) /\ Cardinality(above) # Cardinality(rows)
  BY <1>1, FS_Subset DEF OfRows
<1>3. Cardinality(above) \in Nat /\ Cardinality(rows) \in Nat
  BY <1>2, FS_CardinalityType DEF OfRows
<1>4. QED
  BY <1>2, <1>3 DEF Rank

\* What comes before another row has a smaller rank.
LEMMA RankOrders ==
  ASSUME NEW rows, OfRows(rows), NEW sort, NEW p \in rows, NEW q \in rows, Before(sort, p, q)
  PROVE  Rank(rows, sort, p) < Rank(rows, sort, q)
<1> DEFINE above(x) == {r \in rows : Before(sort, r, x)}
<1>1. above(p) \subseteq above(q) /\ p \in above(q) /\ p \notin above(p)
  BY BeforeOrders
<1>2. IsFiniteSet(above(p)) /\ IsFiniteSet(above(q))
  BY FS_Subset DEF OfRows
<1>3. Cardinality(above(p)) =< Cardinality(above(q)) /\ Cardinality(above(p)) # Cardinality(above(q))
  BY <1>1, <1>2, FS_Subset
<1>4. Cardinality(above(p)) \in Nat /\ Cardinality(above(q)) \in Nat
  BY <1>2, FS_CardinalityType
<1>5. Cardinality(above(p)) < Cardinality(above(q))
  BY <1>3, <1>4
<1>6. QED
  BY <1>5 DEF Rank

\* Without ties a rank is one row's.
LEMMA RankTells ==
  ASSUME NEW rows, OfRows(rows), NEW sort, NoTies(rows, sort),
         NEW p \in rows, NEW q \in rows, Rank(rows, sort, p) = Rank(rows, sort, q)
  PROVE  p = q
BY RankOrders, RankBounds DEF NoTies

\* A page holds no more rows than its limit.
LEMMA PageFits ==
  ASSUME NEW rows, OfRows(rows), NEW sort, NoTies(rows, sort), NEW limit \in Nat, NEW offset \in Nat
  PROVE  Cardinality(OnPage(rows, sort, limit, offset)) =< limit
<1> DEFINE page == OnPage(rows, sort, limit, offset)
           places == offset .. (offset + limit - 1)
           f == [p \in page |-> Rank(rows, sort, p)]
<1>1. \A p \in page : p \in rows /\ Rank(rows, sort, p) \in places
  BY RankBounds DEF OnPage
<1>2. f \in Injection(page, places)
  BY <1>1, RankTells DEF Injection, IsInjective
<1>3. IsFiniteSet(places) /\ Cardinality(places) = limit
  BY FS_Interval
<1>4. QED
  BY <1>2, <1>3, FS_Injection

\* Pages of one size that begin at different multiples of it share no row.
LEMMA PagesApart ==
  ASSUME NEW rows, OfRows(rows), NEW sort, NEW limit \in Nat, NEW i \in Nat, NEW j \in Nat, i # j
  PROVE  OnPage(rows, sort, limit, i * limit) \cap OnPage(rows, sort, limit, j * limit) = {}
<1>1. ASSUME NEW a \in Nat, NEW b \in Nat, a < b  PROVE a * limit + limit =< b * limit
  <2>1. (b - a - 1) \in Nat
    BY <1>1
  <2>2. (b - a - 1) * limit >= 0
    BY <2>1
  <2>3. (b - a - 1) * limit = b * limit - a * limit - limit
    OBVIOUS
  <2>4. a * limit \in Nat /\ b * limit \in Nat
    OBVIOUS
  <2>5. QED
    BY <2>2, <2>3, <2>4
<1>2. i * limit \in Nat /\ j * limit \in Nat
  OBVIOUS
<1>3. i * limit + limit =< j * limit \/ j * limit + limit =< i * limit
  BY <1>1
<1> DEFINE from == i * limit
           to == j * limit
<1> HIDE DEF from, to
<1>4. from \in Nat /\ to \in Nat /\ (from + limit =< to \/ to + limit =< from)
  BY <1>2, <1>3 DEF from, to
<1>5. OnPage(rows, sort, limit, from) \cap OnPage(rows, sort, limit, to) = {}
  BY <1>4, RankBounds DEF OnPage
<1>6. QED
  BY <1>5 DEF from, to

\* Every number is on one of the pages up to it.
LEMMA OnSomePage ==
  ASSUME NEW limit \in Nat \ {0}, NEW r \in Nat
  PROVE  \E i \in 0 .. r : i * limit =< r /\ r < i * limit + limit
<1> DEFINE Numbers == {m \in Nat : r < m * limit}
<1>1. r + 1 \in Numbers
  <2>1. (r + 1) * limit = r * limit + limit /\ r * limit >= r
    OBVIOUS
  <2>2. r * limit \in Nat
    OBVIOUS
  <2>3. QED
    BY <2>1, <2>2
<1>2. PICK m \in Numbers : \A n \in Numbers : m =< n
  BY <1>1, LeastNatural
<1>3. m # 0 /\ m =< r + 1
  BY <1>1, <1>2
<1>4. m - 1 \in 0 .. r /\ m - 1 \notin Numbers
  BY <1>2, <1>3
<1>5. m * limit = (m - 1) * limit + limit
  BY <1>2
<1>6. (m - 1) * limit \in Nat
  BY <1>4
<1>7. ~(r < (m - 1) * limit) /\ r < m * limit
  BY <1>2, <1>4
<1> DEFINE x == (m - 1) * limit
<1>8. x \in Nat /\ x =< r /\ r < x + limit
  BY <1>5, <1>6, <1>7
<1>9. QED
  BY <1>4, <1>8

\* The clusters of a set are apart, ...
LEMMA ClustersApart ==
  ASSUME NEW rows, NEW p \in rows, NEW q \in Cluster(rows, p)
  PROVE  Cluster(rows, q) = Cluster(rows, p)
BY DEF Cluster

\* ... so that there are as many rows that stand for one as there are of them.
LEMMA OneEach ==
  ASSUME NEW rows, OfRows(rows)
  PROVE  Cardinality({Cluster(rows, p) : p \in rows}) = Cardinality(Folded(rows))
<1> DEFINE C == {Cluster(rows, p) : p \in rows}
           f == [c \in C |-> Best(c)]
<1>1. \A c \in C : Best(c) \in Folded(rows)
  BY DEF Folded
<1>2. f \in Injection(C, Folded(rows))
  <2>1. ASSUME NEW p \in rows, NEW q \in rows,
               Best(Cluster(rows, p)) = Best(Cluster(rows, q))
        PROVE  Cluster(rows, p) = Cluster(rows, q)
    BY <2>1, BestInCluster, ClustersApart
  <2>2. \A a, b \in C : Best(a) = Best(b) => a = b
    BY <2>1
  <2>3. QED
    BY <1>1, <2>2 DEF Injection, IsInjective
<1>3. IsFiniteSet(Folded(rows))
  BY FoldedSome, FS_Subset DEF OfRows
<1>4. \A r \in Folded(rows) : \E c \in C : f[c] = r
  BY DEF Folded
<1>5. f \in Surjection(C, Folded(rows))
  BY <1>2, <1>4 DEF Surjection, Injection
<1>6. QED
  BY <1>2, <1>3, <1>5, FS_Injection

\* Together the pages show what stands for the clusters, each row on one page.
LEMMA PagesShowAll ==
  ASSUME NEW rows, OfRows(rows), NEW sort, NEW limit \in Nat \ {0}, NEW n \in Nat,
         Cardinality(rows) =< n
  PROVE  /\ \A p \in rows : \E i \in 0 .. n : p \in OnPage(rows, sort, limit, i * limit)
         /\ \A i \in 0 .. n : OnPage(rows, sort, limit, i * limit) \subseteq rows
<1>1. ASSUME NEW p \in rows
      PROVE  \E i \in 0 .. n : p \in OnPage(rows, sort, limit, i * limit)
  <2> DEFINE r == Rank(rows, sort, p)
  <2>1. r \in Nat /\ r < Cardinality(rows) /\ Cardinality(rows) \in Nat
    BY RankBounds, FS_CardinalityType DEF OfRows
  <2>2. PICK i \in 0 .. r : i * limit =< r /\ r < i * limit + limit
    BY <2>1, OnSomePage
  <2>3. i \in 0 .. n
    BY <2>1, <2>2
  <2>4. p \in OnPage(rows, sort, limit, i * limit)
    BY <2>2 DEF OnPage
  <2>5. QED
    BY <2>3, <2>4
<1>2. \A i \in 0 .. n : OnPage(rows, sort, limit, i * limit) \subseteq rows
  BY DEF OnPage
<1>3. QED
  BY <1>1, <1>2

LEMMA RowsPartition ==
  ASSUME NEW rows, OfRows(rows), NEW o, NEW sort, NoTies(rows, sort)
  PROVE  Partitions(rows, o, sort)
<1> DEFINE in == {p \in rows : Satisfies(p, o)}
           F == Folded(in)
           answers == {[no |-> i, said |-> ArchiveSearch(rows, o, sort, LSLimit, i * LSLimit)] :
                         i \in 0 .. Cardinality(rows)}
           shown == UNION {a.said.page : a \in answers}
           onDisk == CacheScoreSearch(rows, o, sort, LSScan, LSHeld, LSLimit, 0)
<1>1. OfRows(in) /\ in \in SUBSET rows
  BY SomeRows
<1>2. F \in SUBSET in /\ OfRows(F) /\ F \in SUBSET rows
  BY <1>1, FoldedSome, SomeRows
<1>3. NoTies(F, sort)
  BY <1>2 DEF NoTies
<1>4. LSLimit \in Nat \ {0}
  BY LSAssumption DEF LSAssumption
<1>5. /\ Cardinality(rows) \in Nat /\ IsFiniteSet(F) /\ Cardinality(F) \in Nat
      /\ Cardinality(F) =< Cardinality(rows)
  BY <1>2, FS_CardinalityType, FS_Subset DEF OfRows
<1>6. \A limit, offset : /\ ArchiveSearch(rows, o, sort, limit, offset).page = OnPage(F, sort, limit, offset)
                         /\ ArchiveSearch(rows, o, sort, limit, offset).total = Cardinality(F)
  BY <1>1, OneEach DEF ArchiveSearch
<1> HIDE DEF F, in
<1>7. \A a \in answers : /\ a.no \in 0 .. Cardinality(rows)
                         /\ a.said.page = OnPage(F, sort, LSLimit, a.no * LSLimit)
                         /\ a.said.total = Cardinality(F)
  BY <1>6
<1>8. shown = F
  <2> DEFINE n == Cardinality(rows)
             pages == {OnPage(F, sort, LSLimit, i * LSLimit) : i \in 0 .. n}
  <2>1. {a.said.page : a \in answers} = pages
    <3>1. \A a \in answers : a.said.page \in pages
      BY <1>7
    <3>2. ASSUME NEW i \in 0 .. n
          PROVE  \E a \in answers : a.said.page = OnPage(F, sort, LSLimit, i * LSLimit)
      <4> DEFINE b == [no |-> i, said |-> ArchiveSearch(rows, o, sort, LSLimit, i * LSLimit)]
      <4>1. b \in answers /\ b.no = i
        OBVIOUS
      <4>2. QED
        BY <4>1, <1>7
    <3>3. QED
      BY <3>1, <3>2
  <2>2. UNION pages = F
    <3> HIDE DEF n
    <3>1. n \in Nat /\ Cardinality(F) =< n
      BY <1>5 DEF n
    <3>2. /\ \A p \in F : \E i \in 0 .. n : p \in OnPage(F, sort, LSLimit, i * LSLimit)
          /\ \A i \in 0 .. n : OnPage(F, sort, LSLimit, i * LSLimit) \subseteq F
      BY <1>2, <1>4, <3>1, PagesShowAll
    <3>3. QED
      BY <3>2
  <2>3. QED
    BY <2>1, <2>2
<1>9. onDisk.total =< Cardinality(F) /\ \A p \in onDisk.page : p.id \in LSHeld
  <2> DEFINE kept == {p \in ArchiveSearch(rows, o, sort, LSScan, 0).page : p.id \in LSHeld}
  <2>1. kept \in SUBSET F
    BY <1>6 DEF OnPage
  <2>2. Cardinality(kept) =< Cardinality(F)
    BY <1>5, <2>1, FS_Subset
  <2>3. onDisk.total = Cardinality(kept) /\ onDisk.page \subseteq kept
    BY DEF CacheScoreSearch, OnPage
  <2>4. QED
    BY <2>2, <2>3
<1>10. \A a, b \in answers : a.no # b.no => a.said.page \cap b.said.page = {}
  <2>1. \A i, j \in Nat :
          i # j => OnPage(F, sort, LSLimit, i * LSLimit) \cap OnPage(F, sort, LSLimit, j * LSLimit) = {}
    BY <1>2, <1>4, PagesApart
  <2>2. \A a \in answers : a.no \in Nat
    BY <1>5, <1>7
  <2>3. QED
    BY ONLY <1>7, <2>1, <2>2
<1>11. \A a \in answers : Cardinality(a.said.page) =< LSLimit
  <2>1. ASSUME NEW i \in 0 .. Cardinality(rows)
        PROVE  Cardinality(OnPage(F, sort, LSLimit, i * LSLimit)) =< LSLimit
    <3>1. i * LSLimit \in Nat
      BY <1>4, <1>5
    <3>2. QED
      BY <1>2, <1>3, <1>4, <3>1, PageFits
  <2>2. QED
    BY <1>7, <2>1
<1>12. ASSUME NEW p \in rows, Satisfies(p, o)
       PROVE  \E r \in F : r = p \/ (p.key # None /\ r.key = p.key)
  <2>1. p \in in
    BY <1>12 DEF in
  <2>2. Best(Cluster(in, p)) \in Cluster(in, p) /\ Best(Cluster(in, p)) \in F
    BY <1>1, <2>1, BestInCluster DEF F, Folded
  <2>3. QED
    BY <2>2 DEF Cluster
<1> HIDE DEF answers, onDisk
<1>13. QED
  BY <1>7, <1>8, <1>9, <1>10, <1>11, <1>12 DEF Partitions, answers, onDisk

\* The pages of a search hold every matching cluster once and fit, and the
\* count beside them is theirs (PagesPartition), whatever the archive holds.
THEOREM ArchivePagesPartition == LSSpec => []PagesPartition
<1>1. HiddenStays => PagesPartition
  <2> SUFFICES ASSUME HiddenStays  PROVE PagesPartition
    OBVIOUS
  <2>1. OfRows(lsArch)
    BY ListedTyped, SomeRows DEF HiddenStays, LSTypeOK
  <2>2. QED
    BY <2>1, RowsPartition DEF PagesPartition
<1>2. QED
  BY <1>1, HiddenInvariance, PTL

-----------------------------------------------------------------------------
(* RandomWalk: the sweeps of /random.                                      *)

LEMMA SomeSequences ==
  ASSUME NEW X
  PROVE  /\ << >> \in Seq(X) /\ \A x \in X : <<x>> \in Seq(X)
         /\ \A s, t \in Seq(X) : s \o t \in Seq(X)
OBVIOUS

\* The stages of a query read pages of one post or more.
LEMMA StagesTyped ==
  ASSUME NEW q \in RWQueries
  PROVE  Stages(q) \in Seq(AllStages) /\ \A s \in Range(Stages(q)) : s.n \in Nat \ {0}
<1> DEFINE X == {Stage({k}, TRUE, q.score) : k \in {"video", "image", "gif"}}
                  \cup {Stage(Kinds({}), FALSE, q.score), Stage(q.media, TRUE, q.score),
                        Stage(Kinds(q.media), FALSE, q.score)}
<1>1. \A s \in X : s.n \in Nat \ {0}
  BY RWAssumption DEF Stage, RWAssumption
<1>2. \A k \in {"video", "image", "gif"} : Tried(q, k) \in Seq(X)
  <2> SUFFICES ASSUME NEW k \in {"video", "image", "gif"}  PROVE Tried(q, k) \in Seq(X)
    OBVIOUS
  <2>1. Stage({k}, TRUE, q.score) \in X
    OBVIOUS
  <2> HIDE DEF X
  <2>2. <<Stage({k}, TRUE, q.score)>> \in Seq(X) /\ << >> \in Seq(X)
    BY <2>1, SomeSequences
  <2>3. QED
    BY <2>2 DEF Tried
<1>3. /\ <<Stage(Kinds({}), FALSE, q.score)>> \in Seq(X) /\ <<Stage(q.media, TRUE, q.score)>> \in Seq(X)
      /\ <<Stage(Kinds(q.media), FALSE, q.score)>> \in Seq(X) /\ << >> \in Seq(X)
  OBVIOUS
<1> HIDE DEF X
<1>4. Stages(q) \in Seq(X)
  <2>1. Tried(q, "video") \o Tried(q, "image") \o Tried(q, "gif") \in Seq(X)
    BY <1>2
  <2> DEFINE all == Tried(q, "video") \o Tried(q, "image") \o Tried(q, "gif")
             first == IF q.media # {} THEN <<Stage(q.media, TRUE, q.score)>> ELSE << >>
  <2>2. all \o <<Stage(Kinds({}), FALSE, q.score)>> \in Seq(X)
    BY <1>3, <2>1, SomeSequences
  <2>3. first \in Seq(X)
    BY <1>3
  <2>4. first \o <<Stage(Kinds(q.media), FALSE, q.score)>> \in Seq(X)
    BY <1>3, <2>3, SomeSequences
  <2>5. Stages(q) \in {all \o <<Stage(Kinds({}), FALSE, q.score)>>,
                      first \o <<Stage(Kinds(q.media), FALSE, q.score)>>}
    BY DEF Stages
  <2>6. QED
    BY <2>2, <2>4, <2>5
<1>5. \A s \in Range(Stages(q)) : s \in X
  BY <1>4 DEF Range
<1>6. Stages(q) \in Seq(Range(Stages(q)))
  BY <1>4 DEF Range
<1>7. Range(Stages(q)) \subseteq AllStages
  BY DEF AllStages
<1>8. Stages(q) \in Seq(AllStages)
  BY <1>6, <1>7
<1>9. QED
  BY <1>1, <1>5, <1>8

LEMMA StageTyped ==
  ASSUME NEW s \in AllStages
  PROVE  s.n \in Nat \ {0} /\ Filter(s) \in Filters /\ Filter(s)[1] = s.kinds
BY StagesTyped DEF AllStages, Filters, Filter

\* What the page of a walk is: matching posts, all of them when it is short,
\* and of those it leaves out none has a key below one it holds.
Matching(s, low, high) ==
  {p \in DOMAIN rwKey : RWKind[p] \in s.kinds /\ low < rwKey[p] /\ rwKey[p] <= high}

LEMMA LeastKeys ==
  ASSUME RWTypeOK, NEW s, NEW low \in Int, NEW high \in Int, NEW n \in Nat
  PROVE  LET in == Matching(s, low, high)
             got == WalkPage(s, low, high, n)
         IN  /\ got \subseteq in /\ IsFiniteSet(got) /\ Cardinality(got) \in Nat
             /\ Cardinality(got) < n => got = in
             /\ \A p \in got, q \in in : rwKey[q] =< rwKey[p] => q \in got
<1> DEFINE in == Matching(s, low, high)
           got == WalkPage(s, low, high, n)
<1>1. got = {p \in in : Cardinality(Below(in, p)) < n}
  BY DEF WalkPage, Matching
<1>2. IsFiniteSet(in) /\ in \subseteq DOMAIN rwKey
  BY RWAssumption, FS_Subset DEF RWTypeOK, RWAssumption, Matching
<1>3. \A p \in in : rwKey[p] \in Nat
  BY <1>2, RWAssumption, FS_CardinalityType DEF RWTypeOK, ShuffleKeys, RWAssumption
<1> HIDE DEF in, got
<1>4. \A p \in in : IsFiniteSet(Below(in, p)) /\ Cardinality(Below(in, p)) \in Nat
  BY <1>2, FS_Subset, FS_CardinalityType DEF Below
<1>5. IsFiniteSet(got) /\ Cardinality(got) \in Nat /\ got \subseteq in
  BY <1>1, <1>2, FS_Subset, FS_CardinalityType
<1>6. ASSUME NEW p \in got, NEW q \in in, rwKey[q] =< rwKey[p]
      PROVE  q \in got
  <2>1. Below(in, q) \subseteq Below(in, p) /\ p \in in
    BY <1>3, <1>5, <1>6 DEF Below
  <2>2. Cardinality(Below(in, q)) =< Cardinality(Below(in, p))
    BY <1>4, <2>1, FS_Subset
  <2>3. QED
    BY <1>1, <1>4, <2>1, <2>2
<1>7. ASSUME got # in
      PROVE  Cardinality(got) >= n
  <2> DEFINE out == {rwKey[p] : p \in in \ got}
  <2>1. out \in SUBSET Nat /\ out # {}
    BY <1>3, <1>5, <1>7
  <2>2. PICK k \in out : \A m \in out : k =< m
    BY <2>1, LeastNatural
  <2>3. PICK p \in in \ got : rwKey[p] = k
    BY <2>2
  <2>4. Below(in, p) \subseteq got
    BY <1>3, <2>2, <2>3 DEF Below
  <2>5. Cardinality(Below(in, p)) >= n
    BY <1>1, <1>4, <2>3
  <2>6. Cardinality(Below(in, p)) =< Cardinality(got)
    BY <1>5, <2>4, FS_Subset
  <2>7. QED
    BY <1>4, <1>5, <2>3, <2>5, <2>6
<1>8. QED
  BY <1>5, <1>6, <1>7 DEF in, got

\* Every finite set of numbers that is not empty has a largest.
LEMMA Largest ==
  ASSUME NEW K \in SUBSET Nat, K # {}, NEW top \in Nat, \A k \in K : k =< top
  PROVE  \E k \in K : \A m \in K : m =< k
<1> DEFINE gaps == {top - k : k \in K}
<1>1. \A k \in K : top - k \in Nat
  OBVIOUS
<1>2. gaps \in SUBSET Nat /\ gaps # {}
  BY <1>1
<1>3. PICK g \in gaps : \A h \in gaps : g =< h
  BY <1>2, LeastNatural
<1>4. PICK k \in K : g = top - k
  OBVIOUS
<1>5. ASSUME NEW m \in K  PROVE m =< k
  <2>1. top - m \in gaps
    OBVIOUS
  <2>2. top - k =< top - m /\ k \in Nat /\ m \in Nat
    BY <1>3, <1>4, <2>1
  <2>3. QED
    BY <2>2
<1>6. QED
  BY <1>5

\* The last key of a page is one of its posts' and none of them has a larger.
LEMMA LastIsLargest ==
  ASSUME RWTypeOK, NEW got \in SUBSET DOMAIN rwKey, got # {}, NEW otherwise
  PROVE  /\ LastKey(got, otherwise) \in ShuffleKeys
         /\ \E p \in got : rwKey[p] = LastKey(got, otherwise)
         /\ \A p \in got : rwKey[p] =< LastKey(got, otherwise)
<1> DEFINE K == {rwKey[p] : p \in got}
<1>1. Cardinality(RWPosts) \in Nat
  BY RWAssumption, FS_CardinalityType DEF RWAssumption
<1>2. K \in SUBSET Nat /\ K # {} /\ (\A k \in K : k =< Top) /\ Top \in Nat /\ K \subseteq ShuffleKeys
  BY <1>1 DEF RWTypeOK, ShuffleKeys, Top
<1>3. \E k \in K : \A m \in K : m =< k
  BY <1>2, Largest
<1>4. \E k \in K : \A p \in got : rwKey[p] =< k
  BY <1>3
<1>5. LastKey(got, otherwise) \in K /\ \A p \in got : rwKey[p] =< LastKey(got, otherwise)
  BY <1>4 DEF LastKey
<1>6. QED
  BY <1>2, <1>5

-----------------------------------------------------------------------------
RWRequest == [stages : Seq(AllStages), page : Nat, rounds : Nat,
              walk : Walks \cup {None}, low : Int, got : SUBSET RWPosts]

\* Keys and origins are numbers, a key is no origin, and none is above Top.
LEMMA WalkNumbers ==
  /\ Origins \subseteq Nat /\ ShuffleKeys \subseteq Nat /\ Top \in Nat /\ 0 \in Origins
  /\ \A k \in ShuffleKeys : 0 < k /\ k =< Top
  /\ \A k \in ShuffleKeys, o \in Origins : k # o
<1>1. Cardinality(RWPosts) \in Nat
  BY RWAssumption, FS_CardinalityType DEF RWAssumption
<1>2. QED
  BY <1>1 DEF Origins, ShuffleKeys, Top

LEMMA WalkTyped ==
  ASSUME NEW w \in Walks
  PROVE  /\ w.origin \in Nat /\ w.cursor \in Nat
         /\ w.origin \in Origins /\ w.cursor \in Origins \cup ShuffleKeys
<1>1. w.origin \in Origins /\ w.cursor \in Origins \cup ShuffleKeys
  BY DEF Walks
<1>2. QED
  BY <1>1, WalkNumbers

LEMMA NoWalkTyped ==
  /\ NoWalk \in RWRequest /\ NoWalk.walk = None /\ NoWalk.stages = << >>
  /\ \A stages \in Seq(AllStages) : /\ [NoWalk EXCEPT !.stages = stages] \in RWRequest
                                    /\ [NoWalk EXCEPT !.stages = stages].walk = None
  /\ \A stages \in Seq(AllStages), page \in Nat, rounds \in Nat :
       /\ [NoWalk EXCEPT !.stages = stages, !.page = page, !.rounds = rounds] \in RWRequest
       /\ [NoWalk EXCEPT !.stages = stages, !.page = page, !.rounds = rounds].walk = None
<1>1. NoWalk \in RWRequest
  <2>1. << >> \in Seq(AllStages) /\ {} \in SUBSET RWPosts /\ None \in Walks \cup {None}
    BY SomeSequences
  <2>2. QED
    BY <2>1 DEF NoWalk, RWRequest
<1>2. NoWalk.walk = None /\ NoWalk.stages = << >>
  BY DEF NoWalk
<1>3. ASSUME NEW stages \in Seq(AllStages), NEW page \in Nat, NEW rounds \in Nat
      PROVE  /\ [NoWalk EXCEPT !.stages = stages] \in RWRequest
             /\ [NoWalk EXCEPT !.stages = stages].walk = None
             /\ [NoWalk EXCEPT !.stages = stages, !.page = page, !.rounds = rounds] \in RWRequest
             /\ [NoWalk EXCEPT !.stages = stages, !.page = page, !.rounds = rounds].walk = None
  BY <1>1, <1>2 DEF RWRequest
<1>4. QED
  BY <1>1, <1>2, <1>3

LEMMA AfterPageTyped ==
  ASSUME NEW r \in RWRequests, rwReq[r] \in RWRequest, rwReq[r].stages # << >>,
         NEW got, NEW done
  PROVE  AfterPage(r, got, done) \in RWRequest /\ AfterPage(r, got, done).walk = None
<1> DEFINE rounds == rwReq[r].rounds + (IF done THEN 1 ELSE 0)
           page == rwReq[r].page + 1
           stages == rwReq[r].stages
<1>1. /\ rounds \in Nat /\ page \in Nat /\ stages \in Seq(AllStages)
      /\ Tail(stages) \in Seq(AllStages)
  BY DEF RWRequest
<1>2. AfterPage(r, got, done) \in {NoWalk, [NoWalk EXCEPT !.stages = Tail(stages)],
         [NoWalk EXCEPT !.stages = stages, !.page = page, !.rounds = rounds]}
  BY DEF AfterPage
<1> DEFINE later == Tail(stages)
<1> HIDE DEF rounds, page, stages, later
<1>3. AfterPage(r, got, done) \in {NoWalk, [NoWalk EXCEPT !.stages = later],
         [NoWalk EXCEPT !.stages = stages, !.page = page, !.rounds = rounds]}
  BY <1>2 DEF later
<1>4. later \in Seq(AllStages)
  BY <1>1 DEF later
<1> DEFINE next == [NoWalk EXCEPT !.stages = later]
           same == [NoWalk EXCEPT !.stages = stages, !.page = page, !.rounds = rounds]
<1>5. /\ next \in RWRequest /\ next.walk = None
      /\ same \in RWRequest /\ same.walk = None
  BY <1>1, <1>4, NoWalkTyped
<1> HIDE DEF next, same
<1>6. AfterPage(r, got, done) \in {NoWalk, next, same}
  BY <1>3 DEF next, same
<1>7. QED
  BY <1>5, <1>6, NoWalkTyped

\* What is known of a request in a walk.
LEMMA WalkerTyped ==
  ASSUME WalksKept, NEW r \in RWRequests, rwReq[r].walk # None
  PROVE  LET s == rwReq[r].stages[1]
             f == Filter(s)
         IN  /\ rwReq[r] \in RWRequest /\ rwReq[r].stages # << >> /\ s \in AllStages
             /\ s.n \in Nat \ {0} /\ f \in Filters /\ f[1] = s.kinds
             /\ rwReq[r].walk = rwWalk[f] /\ rwWalk[f] \in Walks
             /\ rwLock[f] = r /\ ~rwWhole[f] /\ rwReq[r].got \subseteq DOMAIN rwKey
<1>1. rwReq[r] \in RWRequest /\ Walking(r)
  BY DEF WalksKept, RWTypeOK, RWRequest
<1>2. rwReq[r].stages \in Seq(AllStages) /\ rwReq[r].stages # << >>
  BY <1>1 DEF RWRequest, Walking
<1>3. rwReq[r].stages[1] \in AllStages
  BY <1>2
<1>4. QED
  BY <1>1, <1>2, <1>3, StageTyped DEF Walking, WalksKept, RWTypeOK

LEMMA AskKeeps ==
  ASSUME WalksKept, NEW r \in RWRequests, NEW q \in RWQueries, Ask(r, q)
  PROVE  WalksKept'
<1> DEFINE new == [NoWalk EXCEPT !.stages = Stages(q)]
<1>1. new \in RWRequest /\ new.walk = None
  BY StagesTyped, NoWalkTyped
<1>2. rwReq' = [rwReq EXCEPT ![r] = new]
  BY DEF Ask
<1> HIDE DEF new
<1>3. rwLeft' \in [asks : 0 .. RWAsks, faults : 0 .. RWFaults]
  <2>1. rwLeft \in [asks : 0 .. RWAsks, faults : 0 .. RWFaults] /\ RWAsks \in Nat
    BY RWAssumption DEF WalksKept, RWTypeOK, RWAssumption
  <2>2. rwLeft.asks > 0 /\ rwLeft' = [rwLeft EXCEPT !.asks = @ - 1]
    BY DEF Ask
  <2>3. QED
    BY <2>1, <2>2
<1>4. rwReq' \in [RWRequests -> RWRequest]
  BY <1>1, <1>2 DEF WalksKept, RWTypeOK, RWRequest
<1>5. RWTypeOK'
  BY <1>3, <1>4 DEF Ask, WalksKept, RWTypeOK, RWRequest
<1>6. SweepExact' /\ SweepsSoFar'
  BY DEF Ask, WalksKept, SweepExact, SweepsSoFar
<1>7. ASSUME NEW x \in RWRequests  PROVE Walking(x)'
  <2>1. CASE x = r
    BY <1>1, <1>2, <2>1 DEF Walking, WalksKept, RWTypeOK
  <2>2. CASE x # r
    <3>1. rwReq'[x] = rwReq[x]
      BY <1>2, <2>2 DEF WalksKept, RWTypeOK
    <3>2. QED
      BY <3>1 DEF Ask, WalksKept, Walking, Turned
  <2>3. QED
    BY <2>1, <2>2
<1>8. QED
  BY <1>5, <1>6, <1>7 DEF WalksKept

LEMMA EnterKeeps ==
  ASSUME WalksKept, NEW r \in RWRequests, Enter(r)
  PROVE  WalksKept'
<1> DEFINE s == rwReq[r].stages[1]
           f == Filter(s)
           new == [rwReq[r] EXCEPT !.walk = rwWalk[f], !.low = rwWalk[f].cursor, !.got = {}]
<1>1. rwReq[r] \in RWRequest /\ rwReq[r].stages # << >> /\ rwReq[r].walk = None
  BY DEF WalksKept, RWTypeOK, RWRequest, Enter
<1>2. s \in AllStages
  <2>1. rwReq[r].stages \in Seq(AllStages) /\ rwReq[r].stages # << >>
    BY <1>1 DEF RWRequest
  <2>2. QED
    BY <2>1
<1>3. f \in Filters
  BY <1>2, StageTyped
<1>4. rwWalk[f] \in Walks /\ rwWalk[f].cursor \in Int
  BY <1>3, WalkNumbers DEF WalksKept, RWTypeOK, Walks
<1>5. /\ rwReq' = [rwReq EXCEPT ![r] = new]
      /\ rwLock[f] = None /\ rwLock' = [rwLock EXCEPT ![f] = r]
      /\ UNCHANGED <<rwKey, rwWalk, rwSignal, rwWorker, rwLeft>>
  BY DEF Enter
<1>6. /\ new \in RWRequest /\ new.walk = rwWalk[f] /\ new.low = rwWalk[f].cursor /\ new.got = {}
      /\ new.stages = rwReq[r].stages
  BY <1>1, <1>4 DEF RWRequest
<1> HIDE DEF new, f
<1>7. /\ rwServed' \in [Filters -> [RWPosts -> 0 .. 2]] /\ rwWhole' \in [Filters -> BOOLEAN]
      /\ rwCut' \in [Filters -> BOOLEAN] /\ rwLate' \in [Filters -> SUBSET RWPosts]
      /\ \A g \in Filters : g # f => /\ rwServed'[g] = rwServed[g] /\ rwWhole'[g] = rwWhole[g]
                                     /\ rwCut'[g] = rwCut[g] /\ rwLate'[g] = rwLate[g]
      /\ ~rwWhole'[f] /\ SweepExact' /\ SweepsSoFar'
  <2>1. CASE rwWhole[f]
    <3>1. /\ rwServed' = [rwServed EXCEPT ![f] = [p \in RWPosts |-> 0]]
          /\ rwWhole' = [rwWhole EXCEPT ![f] = FALSE]
          /\ rwCut' = [rwCut EXCEPT ![f] = rwWalk[f].cursor # rwWalk[f].origin]
          /\ rwLate' = [rwLate EXCEPT ![f] = {}]
      BY <2>1 DEF Enter, Begins, f
    <3>2. /\ rwServed' \in [Filters -> [RWPosts -> 0 .. 2]] /\ rwWhole' \in [Filters -> BOOLEAN]
          /\ rwCut' \in [Filters -> BOOLEAN] /\ rwLate' \in [Filters -> SUBSET RWPosts]
      BY <1>3, <3>1 DEF WalksKept, RWTypeOK
    <3>3. \A g \in Filters : g # f => /\ rwServed'[g] = rwServed[g] /\ rwWhole'[g] = rwWhole[g]
                                      /\ rwCut'[g] = rwCut[g] /\ rwLate'[g] = rwLate[g]
      BY <3>1 DEF WalksKept, RWTypeOK
    <3>4. /\ \A p \in RWPosts : rwServed'[f][p] = 0
          /\ ~rwWhole'[f] /\ rwLate'[f] = {}
          /\ ~rwCut'[f] => rwWalk[f].cursor = rwWalk[f].origin
      BY <1>3, <3>1 DEF WalksKept, RWTypeOK
    <3>5. \A k \in Int : ~rwCut'[f] => ~Passed(rwWalk[f], k)
      BY <1>4, <3>4, WalkNumbers DEF Passed, Walks
    <3>6. \A p \in DOMAIN rwKey : p \in RWPosts /\ rwKey[p] \in Int
      BY WalkNumbers DEF WalksKept, RWTypeOK
    <3>7. ASSUME NEW g \in Filters
          PROVE  /\ \A p \in DOMAIN rwKey :
                      ~rwCut'[g] => /\ rwServed'[g][p] < 2
                                    /\ (rwWhole'[g] /\ RWKind[p] \in g[1] /\ p \notin rwLate'[g])
                                         => rwServed'[g][p] = 1
                 /\ \A p \in RWPosts \ DOMAIN rwKey : rwServed'[g][p] = 0
                 /\ \A p \in DOMAIN rwKey : ~rwCut'[g] /\ ~rwWhole'[g] =>
                      LET in == RWKind[p] \in g[1] /\ Passed(rwWalk[g], rwKey[p])
                      IN  /\ rwServed'[g][p] = 1 => in
                          /\ in /\ p \notin rwLate'[g] => rwServed'[g][p] = 1
      <4>1. CASE g = f
        BY <3>4, <3>5, <3>6, <4>1
      <4>2. CASE g # f
        BY <3>3, <4>2 DEF WalksKept, SweepExact, SweepsSoFar
      <4>3. QED
        BY <4>1, <4>2
    <3>8. SweepExact' /\ SweepsSoFar'
      BY <1>5, <3>7 DEF SweepExact, SweepsSoFar
    <3>9. QED
      BY <3>2, <3>3, <3>4, <3>8
  <2>2. CASE ~rwWhole[f]
    <3>1. UNCHANGED <<rwServed, rwWhole, rwCut, rwLate>>
      BY <2>2 DEF Enter, Begins, f
    <3>2. SweepExact' /\ SweepsSoFar'
      BY <1>5, <3>1 DEF WalksKept, SweepExact, SweepsSoFar
    <3>3. QED
      BY <2>2, <3>1, <3>2 DEF WalksKept, RWTypeOK
  <2>3. QED
    BY <2>1, <2>2
<1>8. RWTypeOK'
  <2>1. rwReq' \in [RWRequests -> RWRequest] /\ rwLock' \in [Filters -> RWRequests \cup {None}]
    BY <1>5, <1>6 DEF WalksKept, RWTypeOK, RWRequest
  <2>2. QED
    BY <1>5, <1>7, <2>1 DEF WalksKept, RWTypeOK, RWRequest
<1>9. ASSUME NEW x \in RWRequests  PROVE Walking(x)'
  <2>1. CASE x = r
    <3>1. rwReq'[x] = new /\ rwLock'[f] = r
      BY <1>3, <1>5, <2>1 DEF WalksKept, RWTypeOK
    <3>2. Filter(new.stages[1]) = f /\ new.stages # << >>
      BY <1>1, <1>6 DEF f
    <3>3. QED
      BY <1>5, <1>6, <1>7, <2>1, <3>1, <3>2 DEF Walking
  <2>2. CASE x # r /\ rwReq[x].walk # None
    <3> DEFINE g == Filter(rwReq[x].stages[1])
    <3>1. rwReq'[x] = rwReq[x] /\ rwLock[g] = x /\ x # None /\ g \in Filters
      BY <1>5, <2>2, WalkerTyped, RWAssumption DEF WalksKept, RWTypeOK, RWAssumption
    <3>2. g # f /\ rwLock'[g] = x
      BY <1>5, <3>1 DEF WalksKept, RWTypeOK
    <3>3. rwWhole'[g] = rwWhole[g] /\ rwCut'[g] = rwCut[g] /\ rwLate'[g] = rwLate[g]
      BY <1>7, <3>1, <3>2
    <3>4. Walking(x)
      BY DEF WalksKept
    <3>5. QED
      BY <1>5, <2>2, <3>1, <3>2, <3>3, <3>4 DEF Walking, Turned
  <2>3. CASE x # r /\ rwReq[x].walk = None
    BY <1>5, <2>3 DEF WalksKept, RWTypeOK, Walking
  <2>4. QED
    BY <2>1, <2>2, <2>3
<1>10. QED
  BY <1>7, <1>8, <1>9 DEF WalksKept

\* What happens to the sweep of a filter when one of its pages is handed out:
\* a page of keys not passed yet, up to which the cursor moves.
CloseSound(f, got, cursor, done) ==
  LET w == [rwWalk[f] EXCEPT !.cursor = cursor]
  IN  /\ \A p \in got : RWKind[p] \in f[1] /\ ~Passed(rwWalk[f], rwKey[p])
      /\ done => \A p \in DOMAIN rwKey \ rwLate[f] :
                   RWKind[p] \in f[1] => Passed(rwWalk[f], rwKey[p]) \/ p \in got
      /\ ~done => \A p \in DOMAIN rwKey :
                    RWKind[p] \in f[1] =>
                      /\ Passed(rwWalk[f], rwKey[p]) \/ p \in got => Passed(w, rwKey[p])
                      /\ Passed(w, rwKey[p]) /\ p \notin rwLate[f]
                           => Passed(rwWalk[f], rwKey[p]) \/ p \in got

LEMMA CloseKeeps ==
  ASSUME WalksKept, NEW r \in RWRequests, rwReq[r].walk # None,
         NEW got \in SUBSET DOMAIN rwKey, NEW cursor \in Origins \cup ShuffleKeys,
         NEW done \in BOOLEAN, Close(r, got, cursor, done),
         ~rwCut[Filter(rwReq[r].stages[1])] => CloseSound(Filter(rwReq[r].stages[1]), got, cursor, done)
  PROVE  WalksKept'
<1> DEFINE f == Filter(rwReq[r].stages[1])
           new == AfterPage(r, got, done)
           w == [rwWalk[f] EXCEPT !.cursor = cursor]
<1>1. /\ rwReq[r] \in RWRequest /\ rwReq[r].stages # << >> /\ f \in Filters
      /\ rwReq[r].walk = rwWalk[f] /\ rwWalk[f] \in Walks /\ rwLock[f] = r /\ ~rwWhole[f]
  BY WalkerTyped
<1>2. new \in RWRequest /\ new.walk = None
  BY <1>1, AfterPageTyped
<1>3. /\ rwReq' = [rwReq EXCEPT ![r] = new]
      /\ rwLock' = [rwLock EXCEPT ![f] = None]
      /\ rwSignal' = (rwSignal \/ done)
      /\ rwServed' = [rwServed EXCEPT ![f] = HandOuts(f, got)]
      /\ rwWhole' = [rwWhole EXCEPT ![f] = done]
      /\ UNCHANGED <<rwKey, rwWorker, rwLate>>
  BY DEF Close
<1>4. \/ /\ \E o \in Origins :
              rwWalk' = [rwWalk EXCEPT ![f] = IF done THEN [origin |-> o, cursor |-> o]
                                              ELSE [rwReq[r].walk EXCEPT !.cursor = cursor]]
         /\ UNCHANGED <<rwCut, rwLeft>>
      \/ /\ rwLeft.faults > 0 /\ rwLeft' = [rwLeft EXCEPT !.faults = @ - 1]
         /\ rwCut' = [rwCut EXCEPT ![f] = TRUE] /\ UNCHANGED rwWalk
  BY DEF Close
<1>5. ~rwCut[f] => CloseSound(f, got, cursor, done)
  OBVIOUS
<1>6. w \in Walks
  BY <1>1 DEF Walks
<1> HIDE DEF new, f, w
<1>7. /\ rwWalk \in [Filters -> Walks] /\ rwCut \in [Filters -> BOOLEAN]
      /\ rwLeft \in [asks : 0 .. RWAsks, faults : 0 .. RWFaults]
  BY DEF WalksKept, RWTypeOK
<1>8. /\ rwWalk' \in [Filters -> Walks] /\ rwCut' \in [Filters -> BOOLEAN]
      /\ rwLeft' \in [asks : 0 .. RWAsks, faults : 0 .. RWFaults]
      /\ \A g \in Filters : g # f => rwWalk'[g] = rwWalk[g] /\ rwCut'[g] = rwCut[g]
      /\ ~rwCut'[f] => ~rwCut[f] /\ (~done => rwWalk'[f] = w)
  <2>1. CASE UNCHANGED <<rwCut, rwLeft>> /\
             \E o \in Origins :
               rwWalk' = [rwWalk EXCEPT ![f] = IF done THEN [origin |-> o, cursor |-> o]
                                               ELSE [rwReq[r].walk EXCEPT !.cursor = cursor]]
    <3>1. PICK o \in Origins :
            rwWalk' = [rwWalk EXCEPT ![f] = IF done THEN [origin |-> o, cursor |-> o]
                                            ELSE [rwReq[r].walk EXCEPT !.cursor = cursor]]
      BY <2>1
    <3> DEFINE e == [origin |-> o, cursor |-> o]
               v == IF done THEN e ELSE w
    <3>2. e \in Walks
      BY DEF Walks
    <3>3. rwWalk' = [rwWalk EXCEPT ![f] = v]
      BY <1>1, <3>1 DEF w
    <3> HIDE DEF e
    <3>4. v \in Walks /\ (~done => v = w)
      BY <1>6, <3>2
    <3> HIDE DEF v
    <3>5. rwWalk' \in [Filters -> Walks] /\ (~done => rwWalk'[f] = w)
          /\ \A g \in Filters : g # f => rwWalk'[g] = rwWalk[g]
      BY <1>1, <1>7, <3>3, <3>4
    <3>6. QED
      BY <1>7, <2>1, <3>5
  <2>2. CASE /\ rwLeft.faults > 0 /\ rwLeft' = [rwLeft EXCEPT !.faults = @ - 1]
             /\ rwCut' = [rwCut EXCEPT ![f] = TRUE] /\ UNCHANGED rwWalk
    <3>1. rwLeft' \in [asks : 0 .. RWAsks, faults : 0 .. RWFaults]
      BY <1>7, <2>2, RWAssumption DEF RWAssumption
    <3>2. /\ rwCut' \in [Filters -> BOOLEAN] /\ rwCut'[f]
          /\ \A g \in Filters : g # f => rwCut'[g] = rwCut[g]
      BY <1>1, <1>7, <2>2
    <3>3. QED
      BY <1>7, <2>2, <3>1, <3>2
  <2>3. QED
    BY <1>4, <2>1, <2>2
<1>9. /\ rwServed' \in [Filters -> [RWPosts -> 0 .. 2]]
      /\ \A g \in Filters : g # f => rwServed'[g] = rwServed[g]
      /\ \A p \in RWPosts : /\ p \notin got => rwServed'[f][p] = rwServed[f][p]
                            /\ p \in got /\ rwServed[f][p] < 2
                                 => rwServed'[f][p] = rwServed[f][p] + 1
  <2> DEFINE c == HandOuts(f, got)
  <2>1. rwServed \in [Filters -> [RWPosts -> 0 .. 2]]
    BY DEF WalksKept, RWTypeOK
  <2>2. /\ c \in [RWPosts -> 0 .. 2]
        /\ \A p \in RWPosts : /\ p \notin got => c[p] = rwServed[f][p]
                              /\ p \in got /\ rwServed[f][p] < 2 => c[p] = rwServed[f][p] + 1
    BY <1>1, <2>1 DEF HandOuts
  <2>3. rwServed' = [rwServed EXCEPT ![f] = c]
    BY <1>3
  <2> HIDE DEF c
  <2>4. QED
    BY <1>1, <2>1, <2>2, <2>3
<1>10. /\ rwWhole' \in [Filters -> BOOLEAN] /\ rwWhole'[f] = done
       /\ rwLock' \in [Filters -> RWRequests \cup {None}] /\ rwLock'[f] = None
       /\ \A g \in Filters : g # f => rwWhole'[g] = rwWhole[g] /\ rwLock'[g] = rwLock[g]
       /\ rwReq' \in [RWRequests -> RWRequest] /\ rwReq'[r] = new
       /\ \A x \in RWRequests : x # r => rwReq'[x] = rwReq[x]
       /\ rwSignal' \in BOOLEAN
  BY <1>1, <1>2, <1>3 DEF WalksKept, RWTypeOK, RWRequest
<1>11. RWTypeOK'
  BY <1>3, <1>8, <1>9, <1>10 DEF WalksKept, RWTypeOK, RWRequest
<1>12. ASSUME NEW p \in DOMAIN rwKey, ~rwCut'[f]
       PROVE  /\ rwServed'[f][p] < 2
              /\ done /\ RWKind[p] \in f[1] /\ p \notin rwLate[f] => rwServed'[f][p] = 1
              /\ ~done /\ rwServed'[f][p] = 1 => RWKind[p] \in f[1] /\ Passed(w, rwKey[p])
              /\ ~done /\ RWKind[p] \in f[1] /\ Passed(w, rwKey[p]) /\ p \notin rwLate[f]
                   => rwServed'[f][p] = 1
  <2>1. ~rwCut[f] /\ CloseSound(f, got, cursor, done)
    BY <1>5, <1>8, <1>12
  <2>2. /\ rwServed[f][p] \in 0 .. 1 /\ p \in RWPosts
        /\ rwServed[f][p] = 1 => RWKind[p] \in f[1] /\ Passed(rwWalk[f], rwKey[p])
        /\ RWKind[p] \in f[1] /\ Passed(rwWalk[f], rwKey[p]) /\ p \notin rwLate[f]
             => rwServed[f][p] = 1
    BY <1>1, <2>1 DEF WalksKept, RWTypeOK, SweepExact, SweepsSoFar
  <2>3. CASE p \in got
    <3>1. rwServed[f][p] = 0
      BY <2>1, <2>2, <2>3 DEF CloseSound
    <3>2. rwServed'[f][p] = 1
      BY <1>9, <2>2, <2>3, <3>1
    <3>3. QED
      BY <2>1, <2>3, <3>2 DEF CloseSound, w
  <2>4. CASE p \notin got
    <3>1. rwServed'[f][p] = rwServed[f][p]
      BY <1>9, <2>2, <2>4
    <3>2. QED
      BY <2>1, <2>2, <2>4, <3>1 DEF CloseSound, w
  <2>5. QED
    BY <2>3, <2>4
<1>13. SweepExact' /\ SweepsSoFar'
  <2>1. ASSUME NEW g \in Filters
        PROVE  /\ \A p \in DOMAIN rwKey :
                    ~rwCut'[g] => /\ rwServed'[g][p] < 2
                                  /\ (rwWhole'[g] /\ RWKind[p] \in g[1] /\ p \notin rwLate[g])
                                       => rwServed'[g][p] = 1
               /\ \A p \in RWPosts \ DOMAIN rwKey : rwServed'[g][p] = 0
               /\ \A p \in DOMAIN rwKey : ~rwCut'[g] /\ ~rwWhole'[g] =>
                    LET in == RWKind[p] \in g[1] /\ Passed(rwWalk'[g], rwKey[p])
                    IN  /\ rwServed'[g][p] = 1 => in
                        /\ in /\ p \notin rwLate[g] => rwServed'[g][p] = 1
    <3>1. CASE g = f
      <4>1. \A p \in RWPosts \ DOMAIN rwKey : rwServed'[f][p] = 0
        BY <1>1, <1>9 DEF WalksKept, SweepsSoFar
      <4>2. QED
        BY <1>8, <1>10, <1>12, <3>1, <4>1
    <3>2. CASE g # f
      BY <1>8, <1>9, <1>10, <3>2 DEF WalksKept, SweepExact, SweepsSoFar
    <3>3. QED
      BY <3>1, <3>2
  <2>2. QED
    BY <1>3, <2>1 DEF SweepExact, SweepsSoFar
<1>14. ASSUME NEW x \in RWRequests  PROVE Walking(x)'
  <2>1. CASE x = r
    BY <1>2, <1>10, <2>1 DEF Walking
  <2>2. CASE x # r /\ rwReq[x].walk # None
    <3> DEFINE g == Filter(rwReq[x].stages[1])
    <3>1. rwReq'[x] = rwReq[x] /\ rwLock[g] = x /\ g \in Filters
      BY <1>10, <2>2, WalkerTyped
    <3>2. g # f /\ rwLock'[g] = x
      BY <1>1, <1>10, <2>2, <3>1
    <3>3. rwWhole'[g] = rwWhole[g] /\ rwCut'[g] = rwCut[g] /\ rwWalk'[g] = rwWalk[g]
      BY <1>8, <1>10, <3>1, <3>2
    <3>4. Walking(x)
      BY DEF WalksKept
    <3>5. QED
      BY <1>3, <2>2, <3>1, <3>2, <3>3, <3>4 DEF Walking, Turned
  <2>3. CASE x # r /\ rwReq[x].walk = None
    BY <1>10, <2>3 DEF Walking
  <2>4. QED
    BY <2>1, <2>2, <2>3
<1>15. QED
  BY <1>11, <1>13, <1>14 DEF WalksKept

\* What lies above the cursor of a walk that has not turned, ...
LEMMA AboveCursor ==
  ASSUME NEW w \in Walks, NEW k \in ShuffleKeys, w.cursor >= w.origin
  PROVE  /\ w.cursor < k => ~Passed(w, k)
         /\ ~Passed(w, k) => w.cursor < k \/ k < w.origin
         /\ \A c \in ShuffleKeys : w.cursor =< c =>
              (Passed([w EXCEPT !.cursor = c], k) <=> w.origin < k /\ k =< c)
BY WalkNumbers DEF Passed, Walks

LEMMA UpperKeeps ==
  ASSUME WalksKept, NEW r \in RWRequests, Upper(r)
  PROVE  WalksKept'
<1> DEFINE s == rwReq[r].stages[1]
           f == Filter(s)
           w == rwWalk[f]
           got == WalkPage(s, w.cursor, Top, s.n)
           in == Matching(s, w.cursor, Top)
<1>1. rwReq[r].walk # None
  BY DEF Upper
<1>2. /\ rwReq[r] \in RWRequest /\ rwReq[r].stages # << >> /\ s.n \in Nat \ {0} /\ f \in Filters
      /\ f[1] = s.kinds /\ rwReq[r].walk = w /\ w \in Walks /\ rwLock[f] = r /\ ~rwWhole[f]
  BY <1>1, WalkerTyped
<1>3. w.cursor >= w.origin /\ rwReq[r].low = w.cursor
  BY <1>2 DEF Upper
<1>4. /\ w.cursor \in Nat /\ w.origin \in Nat /\ Top \in Int
      /\ w.cursor \in Origins \cup ShuffleKeys
  BY <1>2, WalkNumbers, WalkTyped
<1>5. /\ got \subseteq in /\ IsFiniteSet(got) /\ Cardinality(got) \in Nat
      /\ Cardinality(got) < s.n => got = in
      /\ \A p \in got, q \in in : rwKey[q] =< rwKey[p] => q \in got
  <2>1. RWTypeOK
    BY DEF WalksKept
  <2>2. w.cursor \in Int /\ Top \in Int /\ s.n \in Nat
    BY <1>2, <1>4
  <2>3. QED
    BY <2>1, <2>2, LeastKeys
<1>6. \A p \in DOMAIN rwKey : rwKey[p] \in ShuffleKeys /\ p \in RWPosts
  BY DEF WalksKept, RWTypeOK
<1>7. /\ in \subseteq DOMAIN rwKey
      /\ \A p \in DOMAIN rwKey : p \in in <=> RWKind[p] \in f[1] /\ w.cursor < rwKey[p]
  BY <1>2, <1>6, WalkNumbers DEF Matching
<1>8. IF Cardinality(got) >= s.n \/ w.origin =< 0
      THEN Close(r, got, LastKey(got, w.cursor), Cardinality(got) < s.n)
      ELSE /\ rwReq' = [rwReq EXCEPT ![r].got = got, ![r].low = -1]
           /\ UNCHANGED <<rwKey, rwWalk, rwLock, rwSignal, rwWorker, rwServed,
                          rwWhole, rwLate, rwCut, rwLeft>>
  BY <1>2 DEF Upper
<1> HIDE DEF got, in, w, f
<1>9. CASE Cardinality(got) >= s.n \/ w.origin =< 0
  <2> DEFINE cursor == LastKey(got, w.cursor)
             done == Cardinality(got) < s.n
  <2>1. Close(r, got, cursor, done)
    BY <1>8, <1>9
  <2>2. got # {} => /\ cursor \in ShuffleKeys
                    /\ \E p \in got : rwKey[p] = cursor
                    /\ \A p \in got : rwKey[p] =< cursor
    BY <1>5, <1>7, LastIsLargest DEF WalksKept
  <2>3. got = {} => cursor = w.cursor
    BY DEF LastKey
  <2>4. ~done => got # {}
    BY <1>2, <1>5, FS_EmptySet
  <2> HIDE DEF cursor, done
  <2>5. cursor \in Origins \cup ShuffleKeys /\ done \in BOOLEAN
    BY <1>4, <2>2, <2>3 DEF done
  <2>6. CloseSound(f, got, cursor, done)
    <3>1. \A p \in got : RWKind[p] \in f[1] /\ ~Passed(w, rwKey[p])
      BY <1>2, <1>3, <1>5, <1>6, <1>7, AboveCursor
    <3>2. ASSUME done, NEW p \in DOMAIN rwKey, RWKind[p] \in f[1]
          PROVE  Passed(w, rwKey[p]) \/ p \in got
      <4>1. got = in
        BY <1>5, <3>2 DEF done
      <4>2. w.origin =< 0
        BY <1>2, <1>5, <1>9, <3>2 DEF done
      <4>3. w.cursor < rwKey[p] \/ Passed(w, rwKey[p])
        BY <1>2, <1>3, <1>4, <1>6, <4>2, AboveCursor, WalkNumbers
      <4>4. QED
        BY <1>7, <3>2, <4>1, <4>3
    <3>3. ASSUME ~done, NEW p \in DOMAIN rwKey, RWKind[p] \in f[1]
          PROVE  Passed(w, rwKey[p]) \/ p \in got <=> Passed([w EXCEPT !.cursor = cursor], rwKey[p])
      <4>1. PICK m \in got : rwKey[m] = cursor
        BY <2>2, <2>4, <3>3
      <4>2. w.cursor < cursor /\ cursor \in ShuffleKeys /\ m \in DOMAIN rwKey
        BY <1>5, <1>6, <1>7, <4>1
      <4>3. p \in got <=> w.cursor < rwKey[p] /\ rwKey[p] =< cursor
        BY <1>5, <1>7, <2>2, <2>4, <3>3, <4>1
      <4>4. Passed(w, rwKey[p]) <=> w.origin < rwKey[p] /\ rwKey[p] =< w.cursor
        BY <1>3 DEF Passed
      <4>5. Passed([w EXCEPT !.cursor = cursor], rwKey[p]) <=> w.origin < rwKey[p] /\ rwKey[p] =< cursor
        BY <1>2, <1>3, <1>4, <1>6, <4>2, AboveCursor, WalkNumbers
      <4>6. rwKey[p] \in Nat /\ cursor \in Nat
        BY <1>6, <4>2, WalkNumbers
      <4>7. QED
        BY <1>3, <1>4, <4>2, <4>3, <4>4, <4>5, <4>6
    <3>4. QED
      BY <3>1, <3>2, <3>3 DEF CloseSound, w
  <2>7. got \in SUBSET DOMAIN rwKey
    BY <1>5, <1>7
  <2>8. QED
    BY <1>1, <2>1, <2>5, <2>6, <2>7, CloseKeeps DEF f
<1>10. CASE ~(Cardinality(got) >= s.n \/ w.origin =< 0)
  <2> DEFINE new == [rwReq[r] EXCEPT !.got = got, !.low = -1]
  <2>1. rwReq' = [rwReq EXCEPT ![r] = new]
        /\ UNCHANGED <<rwKey, rwWalk, rwLock, rwSignal, rwWorker, rwServed,
                       rwWhole, rwLate, rwCut, rwLeft>>
    BY <1>8, <1>10
  <2>2. Cardinality(got) < s.n /\ w.origin > 0 /\ got = in
    BY <1>2, <1>4, <1>5, <1>10
  <2>3. got \in SUBSET RWPosts /\ got \subseteq DOMAIN rwKey
    BY <1>5, <1>6, <1>7
  <2>4. /\ new \in RWRequest /\ new.got = got /\ new.low = -1 /\ new.stages = rwReq[r].stages
        /\ new.walk = rwReq[r].walk
    <3> DEFINE turned == -1
               e == [rwReq[r] EXCEPT !.got = got, !.low = turned]
    <3>1. turned \in Int
      OBVIOUS
    <3> HIDE DEF turned
    <3>2. /\ e \in RWRequest /\ e.got = got /\ e.low = turned /\ e.stages = rwReq[r].stages
          /\ e.walk = rwReq[r].walk
      BY <1>2, <2>3, <3>1 DEF RWRequest
    <3>3. QED
      BY <3>2 DEF turned
  <2> HIDE DEF new
  <2>5. /\ rwReq' \in [RWRequests -> RWRequest] /\ rwReq'[r] = new
        /\ \A x \in RWRequests : x # r => rwReq'[x] = rwReq[x]
    BY <2>1, <2>4 DEF WalksKept, RWTypeOK, RWRequest
  <2>6. RWTypeOK' /\ SweepExact' /\ SweepsSoFar'
    BY <2>1, <2>5 DEF WalksKept, RWTypeOK, RWRequest, SweepExact, SweepsSoFar
  <2>7. ASSUME NEW x \in RWRequests  PROVE Walking(x)'
    <3>1. CASE x = r
      <4> PICK g, n, v : g = f /\ n = s.n /\ v = w
        OBVIOUS
      <4>1. Filter(rwReq'[x].stages[1]) = g /\ rwReq'[x].stages # << >> /\ rwReq'[x].walk = v
            /\ rwReq'[x].stages[1].n = n /\ rwReq'[x].got = got /\ rwReq'[x].low = -1
        BY <1>2, <2>4, <2>5, <3>1 DEF f
      <4>2. Turned(x, g)'
        <5>1. \A p \in got : RWKind[p] \in g[1] /\ v.cursor < rwKey[p]
          BY <1>7, <2>2
        <5>2. \A p \in DOMAIN rwKey : RWKind[p] \in g[1] /\ v.cursor < rwKey[p] => p \in got
          BY <1>7, <2>2
        <5>3. rwKey' = rwKey
          BY <2>1
        <5>4. v.cursor >= v.origin
          BY <1>3
        <5>5. QED
          BY <2>2, <4>1, <5>1, <5>2, <5>3, <5>4 DEF Turned
      <4>3. rwLock'[g] = x /\ rwWalk'[g] = v /\ ~rwWhole'[g] /\ DOMAIN rwKey' = DOMAIN rwKey
        BY <1>2, <2>1, <3>1 DEF w
      <4>4. QED
        BY <2>3, <4>1, <4>2, <4>3 DEF Walking
    <3>2. CASE x # r
      BY <2>1, <2>5, <3>2 DEF WalksKept, Walking, Turned
    <3>3. QED
      BY <3>1, <3>2
  <2>8. QED
    BY <2>6, <2>7 DEF WalksKept
<1>11. QED
  BY <1>9, <1>10

LEMMA LowerKeeps ==
  ASSUME WalksKept, NEW r \in RWRequests, Lower(r)
  PROVE  WalksKept'
<1> DEFINE s == rwReq[r].stages[1]
           f == Filter(s)
           w == rwWalk[f]
           drawn == rwReq[r].got
           from == rwReq[r].low
           need == s.n - Cardinality(drawn)
           low == WalkPage(s, from, w.origin, need)
           in == Matching(s, from, w.origin)
           cursor == LastKey(low, LastKey(drawn, w.cursor))
           done == Cardinality(low) < need
<1>1. rwReq[r].walk # None
  BY DEF Lower
<1>2. /\ rwReq[r] \in RWRequest /\ s.n \in Nat \ {0} /\ f \in Filters
      /\ f[1] = s.kinds /\ rwReq[r].walk = w /\ w \in Walks /\ drawn \subseteq DOMAIN rwKey
  BY <1>1, WalkerTyped
<1>3. /\ w.cursor \in Nat /\ w.origin \in Nat /\ w.origin \in Origins
      /\ w.cursor \in Origins \cup ShuffleKeys
  BY <1>2, WalkTyped
<1>4. /\ Close(r, drawn \cup low, cursor, done)
      /\ from = -1 \/ w.cursor < w.origin
  BY <1>2 DEF Lower
<1>5. \/ from = w.cursor /\ drawn = {}
      \/ from = -1 /\ Turned(r, f)
  BY <1>1 DEF WalksKept, Walking
<1>6. \A p \in DOMAIN rwKey : rwKey[p] \in ShuffleKeys /\ p \in RWPosts /\ rwKey[p] \in Nat
                              /\ rwKey[p] # w.origin
  BY <1>3, WalkNumbers DEF WalksKept, RWTypeOK
<1>7. \/ /\ from = w.cursor /\ w.cursor < w.origin /\ drawn = {}
      \/ /\ from = -1 /\ w.origin =< w.cursor /\ Cardinality(drawn) < s.n
         /\ ~rwCut[f] => /\ \A p \in drawn : RWKind[p] \in f[1] /\ w.cursor < rwKey[p]
                         /\ \A p \in DOMAIN rwKey \ rwLate[f] :
                              RWKind[p] \in f[1] /\ w.cursor < rwKey[p] => p \in drawn
  <2>1. CASE from = w.cursor /\ drawn = {}
    <3> DEFINE c == w.cursor
    <3>1. from = c /\ c \in Nat /\ (from = -1 \/ c < w.origin)
      BY <1>3, <1>4, <2>1
    <3> HIDE DEF c, from
    <3>2. c # -1
      BY <3>1
    <3>3. from = c /\ c < w.origin
      BY <3>1, <3>2
    <3>4. QED
      BY <2>1, <3>3 DEF c
  <2>2. CASE from = -1 /\ Turned(r, f)
    BY <1>2, <2>2 DEF Turned
  <2>3. QED
    BY <1>5, <2>1, <2>2
<1>8. need \in Nat \ {0} /\ from \in Int
  <2>1. IsFiniteSet(drawn) /\ Cardinality(drawn) \in Nat
    <3>1. drawn \in SUBSET RWPosts
      BY <1>2 DEF RWRequest
    <3>2. QED
      BY <3>1, RWAssumption, FS_Subset, FS_CardinalityType DEF RWAssumption
  <2>2. Cardinality(drawn) < s.n
    <3>1. CASE drawn = {}
      BY <1>2, <3>1, FS_EmptySet
    <3>2. CASE drawn # {}
      BY <1>7, <3>2
    <3>3. QED
      BY <3>1, <3>2
  <2>3. from \in Int
    <3>1. from = w.cursor \/ from = -1
      BY <1>7
    <3>2. QED
      BY <1>3, <3>1
  <2>4. s.n - Cardinality(drawn) \in Nat \ {0}
    BY <1>2, <2>1, <2>2
  <2>5. QED
    BY <2>3, <2>4
<1>9. /\ low \subseteq in /\ IsFiniteSet(low) /\ Cardinality(low) \in Nat
      /\ Cardinality(low) < need => low = in
      /\ \A p \in low, q \in in : rwKey[q] =< rwKey[p] => q \in low
  <2> HIDE DEF need, from, w
  <2>1. RWTypeOK
    BY DEF WalksKept
  <2>2. need \in Nat /\ w.origin \in Int
    BY <1>3, <1>8
  <2>3. QED
    BY <1>8, <2>1, <2>2, LeastKeys
<1>10. /\ in \subseteq DOMAIN rwKey
       /\ \A p \in DOMAIN rwKey :
            p \in in <=> RWKind[p] \in f[1] /\ from < rwKey[p] /\ rwKey[p] =< w.origin
  BY <1>2 DEF Matching
<1> HIDE DEF need, from, w, in, drawn, low
<1>11. low # {} => /\ cursor \in ShuffleKeys
                   /\ \E p \in low : rwKey[p] = cursor
                   /\ \A p \in low : rwKey[p] =< cursor
  BY <1>9, <1>10, LastIsLargest DEF WalksKept
<1>12. low = {} => cursor \in Origins \cup ShuffleKeys
  <2>1. LastKey(drawn, w.cursor) \in Origins \cup ShuffleKeys
    <3>1. CASE drawn = {}
      BY <1>3, <3>1 DEF LastKey
    <3>2. CASE drawn # {}
      BY <1>2, <3>2, LastIsLargest DEF WalksKept
    <3>3. QED
      BY <3>1, <3>2
  <2>2. QED
    BY <2>1 DEF LastKey
<1>13. ~done => low # {}
  BY <1>8, <1>9, FS_EmptySet
<1> HIDE DEF cursor, f
<1>14. cursor \in Origins \cup ShuffleKeys /\ done \in BOOLEAN
  BY <1>11, <1>12
<1>15. ASSUME ~rwCut[f]  PROVE CloseSound(f, drawn \cup low, cursor, done)
  <2>1. ASSUME NEW p \in drawn \cup low
        PROVE  RWKind[p] \in f[1] /\ ~Passed(w, rwKey[p])
    BY <1>2, <1>3, <1>6, <1>7, <1>9, <1>10, <1>15, <2>1 DEF Passed
  <2>2. ASSUME done, NEW p \in DOMAIN rwKey \ rwLate[f], RWKind[p] \in f[1]
        PROVE  Passed(w, rwKey[p]) \/ p \in drawn \cup low
    <3>1. low = in
      BY <1>9, <2>2
    <3>2. QED
      BY <1>3, <1>6, <1>7, <1>10, <1>15, <2>2, <3>1 DEF Passed
  <2>3. ASSUME ~done, NEW p \in DOMAIN rwKey, RWKind[p] \in f[1]
        PROVE  LET v == [w EXCEPT !.cursor = cursor]
               IN  /\ Passed(w, rwKey[p]) \/ p \in drawn \cup low => Passed(v, rwKey[p])
                   /\ Passed(v, rwKey[p]) /\ p \notin rwLate[f]
                        => Passed(w, rwKey[p]) \/ p \in drawn \cup low
    <3> DEFINE v == [w EXCEPT !.cursor = cursor]
    <3>1. PICK m \in low : rwKey[m] = cursor
      BY <1>11, <1>13, <2>3
    <3>2. from < cursor /\ cursor < w.origin /\ cursor \in Nat
      BY <1>3, <1>6, <1>9, <1>10, <3>1
    <3>3. p \in low <=> from < rwKey[p] /\ rwKey[p] =< cursor
      BY <1>3, <1>6, <1>9, <1>10, <1>11, <2>3, <3>1, <3>2
    <3>4. v.cursor = cursor /\ v.origin = w.origin
      BY <1>2 DEF Walks
    <3>5. Passed(v, rwKey[p]) <=> w.origin < rwKey[p] \/ rwKey[p] =< cursor
      BY <1>3, <3>2, <3>4 DEF Passed
    <3> HIDE DEF v
    <3>6. QED
      BY <1>3, <1>6, <1>7, <1>15, <2>3, <3>2, <3>3, <3>5 DEF Passed, v
  <2>4. QED
    BY <2>1, <2>2, <2>3 DEF CloseSound, w
<1>16. drawn \cup low \in SUBSET DOMAIN rwKey
  BY <1>2, <1>9, <1>10
<1>17. QED
  BY <1>1, <1>4, <1>14, <1>15, <1>16, CloseKeeps DEF f

LEMMA WorkerKeeps ==
  ASSUME WalksKept, Wake \/ Reshuffle
  PROVE  WalksKept'
<1>1. /\ UNCHANGED <<rwWalk, rwLock, rwReq, rwServed, rwWhole, rwLate>>
      /\ DOMAIN rwKey' = DOMAIN rwKey /\ rwKey' \in [DOMAIN rwKey -> ShuffleKeys]
      /\ rwSignal' \in BOOLEAN /\ rwWorker' \in {"waits", "draws"}
      /\ rwLeft' \in [asks : 0 .. RWAsks, faults : 0 .. RWFaults]
      /\ rwCut' \in [Filters -> BOOLEAN]
      /\ \A f \in Filters : /\ ~rwCut'[f] => ~rwCut[f]
                            /\ ~rwCut'[f] /\ ~rwWhole[f] => rwKey' = rwKey
  <2>1. CASE Wake
    BY <2>1 DEF Wake, WalksKept, RWTypeOK
  <2>2. CASE Reshuffle /\ UNCHANGED <<rwKey, rwCut, rwLeft>>
    BY <2>2 DEF Reshuffle, WalksKept, RWTypeOK
  <2>3. CASE /\ Reshuffle /\ rwLeft.faults > 0 /\ rwLeft' = [rwLeft EXCEPT !.faults = @ - 1]
             /\ rwKey' \in {k \in [DOMAIN rwKey -> ShuffleKeys] : IsInjective(k)}
             /\ rwCut' = CutAll
    <3>1. rwLeft' \in [asks : 0 .. RWAsks, faults : 0 .. RWFaults]
      <4>1. rwLeft \in [asks : 0 .. RWAsks, faults : 0 .. RWFaults] /\ RWFaults \in Nat
        BY RWAssumption DEF WalksKept, RWTypeOK, RWAssumption
      <4>2. QED
        BY <2>3, <4>1
    <3>2. /\ rwCut' \in [Filters -> BOOLEAN]
          /\ \A f \in Filters : ~rwCut'[f] => ~rwCut[f] /\ rwWhole[f]
      BY <2>3 DEF CutAll, WalksKept, RWTypeOK
    <3>3. DOMAIN rwKey' = DOMAIN rwKey /\ rwKey' \in [DOMAIN rwKey -> ShuffleKeys]
      BY <2>3
    <3>4. UNCHANGED <<rwWalk, rwLock, rwReq, rwServed, rwWhole, rwLate>> /\ rwSignal' \in BOOLEAN
          /\ rwWorker' \in {"waits", "draws"}
      BY <2>3 DEF Reshuffle, WalksKept, RWTypeOK
    <3>5. QED
      BY <3>1, <3>2, <3>3, <3>4
  <2>4. QED
    BY <2>1, <2>2, <2>3 DEF Reshuffle
<1>2. RWTypeOK'
  BY <1>1 DEF WalksKept, RWTypeOK
<1>3. SweepExact'
  BY <1>1 DEF WalksKept, SweepExact
<1>4. SweepsSoFar'
  BY <1>1 DEF WalksKept, SweepsSoFar
<1>5. ASSUME NEW x \in RWRequests  PROVE Walking(x)'
  <2>1. CASE rwReq[x].walk # None
    <3> PICK g : g = Filter(rwReq[x].stages[1])
      OBVIOUS
    <3>1. g \in Filters
      BY <2>1, WalkerTyped
    <3>2. Walking(x)
      BY DEF WalksKept
    <3>3. Turned(x, g) => Turned(x, g)'
      BY <1>1, <2>1, <3>1, <3>2 DEF Turned, Walking
    <3>4. QED
      BY <1>1, <2>1, <3>2, <3>3 DEF Walking
  <2>2. CASE rwReq[x].walk = None
    BY <1>1, <2>2 DEF Walking
  <2>3. QED
    BY <2>1, <2>2
<1>6. QED
  BY <1>2, <1>3, <1>4, <1>5 DEF WalksKept

LEMMA FaultSpent ==
  ASSUME RWTypeOK, rwLeft.faults > 0, rwLeft' = [rwLeft EXCEPT !.faults = @ - 1]
  PROVE  rwLeft' \in [asks : 0 .. RWAsks, faults : 0 .. RWFaults]
<1>1. rwLeft \in [asks : 0 .. RWAsks, faults : 0 .. RWFaults] /\ RWFaults \in Nat
  BY RWAssumption DEF RWTypeOK, RWAssumption
<1>2. QED
  BY <1>1

LEMMA ArchivedKeeps ==
  ASSUME WalksKept, NEW p \in RWPosts, Archived(p)
  PROVE  WalksKept'
<1>1. /\ p \notin DOMAIN rwKey
      /\ UNCHANGED <<rwWalk, rwLock, rwReq, rwSignal, rwWorker, rwServed, rwWhole, rwCut>>
      /\ rwLate' = [f \in Filters |-> rwLate[f] \cup {p}]
  BY DEF Archived
<1>2. PICK k \in ShuffleKeys : rwKey' = [q \in DOMAIN rwKey \cup {p} |-> IF q = p THEN k ELSE rwKey[q]]
  BY DEF Archived
<1>3. rwLeft' \in [asks : 0 .. RWAsks, faults : 0 .. RWFaults]
  BY FaultSpent DEF Archived, WalksKept
<1>4. /\ DOMAIN rwKey' = DOMAIN rwKey \cup {p}
      /\ \A q \in DOMAIN rwKey : rwKey'[q] = rwKey[q]
      /\ rwKey' \in [DOMAIN rwKey' -> ShuffleKeys]
  BY <1>1, <1>2 DEF WalksKept, RWTypeOK
<1>5. rwLate' \in [Filters -> SUBSET RWPosts] /\ \A f \in Filters : rwLate'[f] = rwLate[f] \cup {p}
  BY <1>1 DEF WalksKept, RWTypeOK
<1>6. RWTypeOK'
  BY <1>1, <1>3, <1>4, <1>5 DEF WalksKept, RWTypeOK
<1>7. \A f \in Filters : rwServed[f][p] = 0
  BY <1>1 DEF WalksKept, SweepsSoFar
<1>8. SweepExact'
  BY <1>1, <1>4, <1>5, <1>7 DEF WalksKept, SweepExact
<1>9. SweepsSoFar'
  BY <1>1, <1>4, <1>5, <1>7 DEF WalksKept, SweepsSoFar
<1>10. ASSUME NEW x \in RWRequests  PROVE Walking(x)'
  <2>1. CASE rwReq[x].walk # None
    <3> PICK g : g = Filter(rwReq[x].stages[1])
      OBVIOUS
    <3>1. g \in Filters
      BY <2>1, WalkerTyped
    <3>2. Walking(x)
      BY DEF WalksKept
    <3>3. Turned(x, g) => Turned(x, g)'
      BY <1>1, <1>4, <1>5, <2>1, <3>1, <3>2 DEF Turned, Walking
    <3>4. QED
      BY <1>1, <1>4, <2>1, <3>2, <3>3 DEF Walking
  <2>2. CASE rwReq[x].walk = None
    BY <1>1, <2>2 DEF Walking
  <2>3. QED
    BY <2>1, <2>2
<1>11. QED
  BY <1>6, <1>8, <1>9, <1>10 DEF WalksKept

LEMMA ForgottenKeeps ==
  ASSUME WalksKept, NEW f \in Filters, Forgotten(f)
  PROVE  WalksKept'
<1> DEFINE none == [p \in RWPosts |-> 0]
           start == [origin |-> 0, cursor |-> 0]
<1>1. /\ rwLock[f] = None
      /\ rwWalk' = [rwWalk EXCEPT ![f] = start]
      /\ rwServed' = [rwServed EXCEPT ![f] = none]
      /\ rwWhole' = [rwWhole EXCEPT ![f] = FALSE] /\ rwCut' = [rwCut EXCEPT ![f] = FALSE]
      /\ rwLate' = [rwLate EXCEPT ![f] = {}]
      /\ UNCHANGED <<rwKey, rwLock, rwReq, rwSignal, rwWorker>>
  BY DEF Forgotten
<1>2. start \in Walks /\ \A k \in ShuffleKeys : ~Passed(start, k)
  BY WalkNumbers DEF Walks, Passed
<1>3. none \in [RWPosts -> 0 .. 2] /\ \A p \in RWPosts : none[p] = 0
  OBVIOUS
<1> HIDE DEF none, start
<1>4. rwLeft' \in [asks : 0 .. RWAsks, faults : 0 .. RWFaults]
  BY FaultSpent DEF Forgotten, WalksKept
<1>5. /\ rwWalk' \in [Filters -> Walks] /\ rwServed' \in [Filters -> [RWPosts -> 0 .. 2]]
      /\ rwWhole' \in [Filters -> BOOLEAN] /\ rwCut' \in [Filters -> BOOLEAN]
      /\ rwLate' \in [Filters -> SUBSET RWPosts]
  BY <1>1, <1>2, <1>3 DEF WalksKept, RWTypeOK
<1>6. RWTypeOK'
  BY <1>1, <1>4, <1>5 DEF WalksKept, RWTypeOK
<1>7. \A g \in Filters : g # f => /\ rwServed'[g] = rwServed[g] /\ rwWhole'[g] = rwWhole[g]
                                  /\ rwCut'[g] = rwCut[g] /\ rwLate'[g] = rwLate[g]
                                  /\ rwWalk'[g] = rwWalk[g]
  BY <1>1 DEF WalksKept, RWTypeOK
<1>8. rwServed'[f] = none /\ ~rwWhole'[f] /\ rwWalk'[f] = start
  BY <1>1 DEF WalksKept, RWTypeOK
<1>9. \A p \in DOMAIN rwKey : p \in RWPosts /\ rwKey[p] \in ShuffleKeys
  BY DEF WalksKept, RWTypeOK
<1>10. SweepExact'
  BY <1>1, <1>3, <1>7, <1>8, <1>9 DEF WalksKept, SweepExact
<1>11. SweepsSoFar'
  <2>1. ASSUME NEW g \in Filters
        PROVE  /\ \A p \in RWPosts \ DOMAIN rwKey : rwServed'[g][p] = 0
               /\ \A p \in DOMAIN rwKey : ~rwCut'[g] /\ ~rwWhole'[g] =>
                    LET in == RWKind[p] \in g[1] /\ Passed(rwWalk'[g], rwKey[p])
                    IN  /\ rwServed'[g][p] = 1 => in
                        /\ in /\ p \notin rwLate'[g] => rwServed'[g][p] = 1
    <3>1. CASE g = f
      BY <1>2, <1>3, <1>8, <1>9, <3>1
    <3>2. CASE g # f
      BY <1>7, <3>2 DEF WalksKept, SweepsSoFar
    <3>3. QED
      BY <3>1, <3>2
  <2>2. QED
    BY <1>1, <2>1 DEF SweepsSoFar
<1>12. ASSUME NEW x \in RWRequests  PROVE Walking(x)'
  <2>1. CASE rwReq[x].walk # None
    <3> PICK g : g = Filter(rwReq[x].stages[1])
      OBVIOUS
    <3>1. g \in Filters /\ rwLock[g] = x /\ x # None
      BY <2>1, WalkerTyped, RWAssumption DEF RWAssumption
    <3>2. g # f
      BY <1>1, <3>1
    <3>3. Walking(x)
      BY DEF WalksKept
    <3>4. Turned(x, g) => Turned(x, g)'
      BY <1>1, <1>7, <2>1, <3>1, <3>2, <3>3 DEF Turned, Walking
    <3>5. QED
      BY <1>1, <1>7, <2>1, <3>1, <3>2, <3>3, <3>4 DEF Walking
  <2>2. CASE rwReq[x].walk = None
    BY <1>1, <2>2 DEF Walking
  <2>3. QED
    BY <2>1, <2>2
<1>13. QED
  BY <1>6, <1>10, <1>11, <1>12 DEF WalksKept

LEMMA WalksBegin == RWInit => WalksKept
<1> SUFFICES ASSUME RWInit  PROVE WalksKept
  OBVIOUS
<1> DEFINE start == [origin |-> 0, cursor |-> 0]
           none == [p \in RWPosts |-> 0]
<1>1. start \in Walks /\ \A k \in ShuffleKeys : ~Passed(start, k)
  BY WalkNumbers DEF Walks, Passed
<1>2. none \in [RWPosts -> 0 .. 2] /\ \A p \in RWPosts : none[p] = 0
  OBVIOUS
<1>3. /\ rwWalk = [f \in Filters |-> start] /\ rwServed = [f \in Filters |-> none]
      /\ rwLock = [f \in Filters |-> None] /\ rwReq = [r \in RWRequests |-> NoWalk]
      /\ rwSignal = FALSE /\ rwWorker = "waits"
      /\ rwWhole = [f \in Filters |-> FALSE] /\ rwLate = [f \in Filters |-> {}]
      /\ rwCut = [f \in Filters |-> FALSE]
      /\ rwLeft = [asks |-> RWAsks, faults |-> RWFaults]
  BY DEF RWInit
<1> HIDE DEF start, none
<1>4. rwKey \in [DOMAIN rwKey -> ShuffleKeys] /\ DOMAIN rwKey \subseteq RWPosts
  BY DEF RWInit
<1>5. rwLeft \in [asks : 0 .. RWAsks, faults : 0 .. RWFaults]
  BY <1>3, RWAssumption DEF RWAssumption
<1>6. rwReq \in [RWRequests -> RWRequest]
  BY <1>3, NoWalkTyped
<1>7. RWTypeOK
  BY <1>1, <1>2, <1>3, <1>4, <1>5, <1>6 DEF RWTypeOK, RWRequest
<1>8. SweepExact /\ SweepsSoFar
  BY <1>1, <1>2, <1>3, <1>4 DEF SweepExact, SweepsSoFar
<1>9. \A r \in RWRequests : Walking(r)
  BY <1>3, NoWalkTyped DEF Walking
<1>10. QED
  BY <1>7, <1>8, <1>9 DEF WalksKept

\* The inductive invariant of the walk (WalksKept): whoever walks holds the
\* lock and knows the cursor, and what a sweep has handed out is what lies
\* between its origin and its cursor.
THEOREM WalkInvariance == RWSpec => []WalksKept
<1>1. WalksKept /\ [RWNext]_rwVars => WalksKept'
  <2> SUFFICES ASSUME WalksKept, [RWNext]_rwVars  PROVE WalksKept'
    OBVIOUS
  <2>1. ASSUME NEW r \in RWRequests, NEW q \in RWQueries, Ask(r, q)  PROVE WalksKept'
    BY <2>1, AskKeeps
  <2>2. ASSUME NEW r \in RWRequests, Enter(r)  PROVE WalksKept'
    BY <2>2, EnterKeeps
  <2>3. ASSUME NEW r \in RWRequests, Upper(r)  PROVE WalksKept'
    BY <2>3, UpperKeeps
  <2>4. ASSUME NEW r \in RWRequests, Lower(r)  PROVE WalksKept'
    BY <2>4, LowerKeeps
  <2>5. ASSUME NEW p \in RWPosts, Archived(p)  PROVE WalksKept'
    BY <2>5, ArchivedKeeps
  <2>6. ASSUME NEW f \in Filters, Forgotten(f)  PROVE WalksKept'
    BY <2>6, ForgottenKeeps
  <2>7. CASE Wake \/ Reshuffle
    BY <2>7, WorkerKeeps
  <2>8. CASE UNCHANGED rwVars
    <3>1. UNCHANGED <<rwKey, rwWalk, rwLock, rwReq, rwSignal, rwWorker, rwServed, rwWhole, rwLate,
                      rwCut, rwLeft>>
      BY <2>8 DEF rwVars
    <3>2. QED
      BY <3>1 DEF WalksKept, RWTypeOK, SweepExact, SweepsSoFar, Walking, Turned
  <2>9. QED
    BY <2>1, <2>2, <2>3, <2>4, <2>5, <2>6, <2>7, <2>8 DEF RWNext
<1>2. QED
  BY <1>1, WalksBegin, PTL DEF RWSpec

\* An undisturbed sweep hands out no post twice and, when it is over, every
\* matching post that was there when it began (SweepExact), for every archive,
\* page size, set of requests and set of filters.
THEOREM SweepsAreExact == RWSpec => []SweepExact
<1>1. WalksKept => SweepExact
  BY DEF WalksKept
<1>2. QED
  BY <1>1, WalkInvariance, PTL

-----------------------------------------------------------------------------
(* RepostFold: what the folding of a page leaves.                          *)

\* A set of numbers has a least one, and First is it.
LEMMA LeastNumber ==
    ASSUME NEW T \in SUBSET Nat, T # {}
    PROVE  First(T) \in T /\ \A m \in T : First(T) <= m
<1> DEFINE Lesser == {p \in Nat \X Nat : p[1] < p[2]}
<1>1. \A n, m \in Nat : m < n => <<m, n>> \in Lesser  OBVIOUS
<1>2. IsWellFoundedOn(Lesser, Nat)  BY NatLessThanWellFounded DEF OpToRel
<1> HIDE DEF Lesser
<1>3. PICK n \in T : \A m \in T : <<m, n>> \notin Lesser  BY <1>2, WFMin
<1>4. ASSUME NEW m \in T PROVE n <= m
  <2>1. n \in Nat /\ m \in Nat  OBVIOUS
  <2>2. ~(m < n)  BY <1>1, <1>3, <2>1
  <2> QED BY <2>1, <2>2
<1>5. \E c \in T : \A d \in T : c <= d  BY <1>4
<1> QED BY <1>5 DEF First

\* The clusters after each post: as far as post m there is one history of them.
Folding(posts, g, m) ==
    g = [i \in 0 .. m |-> IF i = 0 THEN << >> ELSE Joined(posts, g[i - 1], i)]

LEMMA HistoryGrows ==
    ASSUME NEW posts, NEW m \in Nat, NEW g, Folding(posts, g, m)
    PROVE  \E h : Folding(posts, h, m + 1)
<1> DEFINE h == [i \in 0 .. m + 1 |-> IF i = m + 1 THEN Joined(posts, g[m], m + 1) ELSE g[i]]
<1>1. \A i \in 0 .. m : h[i] = g[i] /\ g[i] = IF i = 0 THEN << >> ELSE Joined(posts, g[i - 1], i)
  BY DEF Folding
<1>2. h[m + 1] = Joined(posts, h[m], m + 1) /\ m + 1 # 0 /\ (m + 1) - 1 = m  BY <1>1
<1>3. \A i \in 0 .. m : i # 0 => i - 1 \in 0 .. m  OBVIOUS
<1>4. \A i \in 0 .. m + 1 : h[i] = IF i = 0 THEN << >> ELSE Joined(posts, h[i - 1], i)
  <2> SUFFICES ASSUME NEW i \in 0 .. m + 1
               PROVE  h[i] = IF i = 0 THEN << >> ELSE Joined(posts, h[i - 1], i)
    OBVIOUS
  <2>1. CASE i = m + 1  BY <1>2, <2>1
  <2>2. CASE i \in 0 .. m
    <3>1. h[i] = IF i = 0 THEN << >> ELSE Joined(posts, g[i - 1], i)  BY <1>1, <2>2
    <3>2. i # 0 => h[i - 1] = g[i - 1]  BY <1>1, <1>3, <2>2
    <3> QED BY <3>1, <3>2
  <2> QED BY <2>1, <2>2
<1>5. h = [i \in 0 .. m + 1 |-> h[i]]  OBVIOUS
<1> HIDE DEF h
<1>6. h = [i \in 0 .. m + 1 |-> IF i = 0 THEN << >> ELSE Joined(posts, h[i - 1], i)]
  BY <1>4, <1>5
<1> QED BY <1>6 DEF Folding

LEMMA HistoryExists ==
    ASSUME NEW posts, NEW n \in Nat
    PROVE  \E g : Folding(posts, g, n)
<1> DEFINE without == {m \in Nat : ~\E g : Folding(posts, g, m)}
<1> SUFFICES ASSUME without # {} PROVE FALSE  OBVIOUS
<1> DEFINE m == First(without)
<1>1. without \in SUBSET Nat  OBVIOUS
<1>2. m \in without /\ \A k \in without : m <= k
  <2> HIDE DEF without
  <2> QED BY <1>1, LeastNumber
<1> HIDE DEF m
<1>3. m # 0
  <2> DEFINE g == [i \in 0 .. 0 |-> << >>]
  <2>1. \A i \in 0 .. 0 : i = 0  OBVIOUS
  <2>2. g = [i \in 0 .. 0 |-> IF i = 0 THEN << >> ELSE Joined(posts, g[i - 1], i)]  BY <2>1
  <2>3. Folding(posts, g, 0)  BY <2>2 DEF Folding
  <2> QED BY <1>2, <2>3
<1>4. m - 1 \in Nat /\ m - 1 \notin without /\ (m - 1) + 1 = m  BY <1>2, <1>3
<1>5. PICK g : Folding(posts, g, m - 1)  BY <1>4
<1>6. \E h : Folding(posts, h, (m - 1) + 1)  BY <1>4, <1>5, HistoryGrows
<1> QED BY <1>2, <1>4, <1>6

\* Clusters is the end of it.
LEMMA ClustersLast ==
    ASSUME NEW posts, Len(posts) \in Nat
    PROVE  \E g : Folding(posts, g, Len(posts)) /\ Clusters(posts) = g[Len(posts)]
<1> DEFINE n == Len(posts)
           after == CHOOSE f : f = [i \in 0 .. n |-> IF i = 0 THEN << >> ELSE Joined(posts, f[i - 1], i)]
<1>1. \E g : g = [i \in 0 .. n |-> IF i = 0 THEN << >> ELSE Joined(posts, g[i - 1], i)]
  BY HistoryExists DEF Folding
<1>2. after = [i \in 0 .. n |-> IF i = 0 THEN << >> ELSE Joined(posts, after[i - 1], i)]
  BY <1>1
<1>3. Clusters(posts) = after[n]  BY DEF Clusters
<1> QED BY <1>2, <1>3 DEF Folding

\* The best of a cluster stays the best when a better one takes its place.
LEMMA ScoreOrder ==
    ASSUME NEW a \in Int \cup {None}, NEW b \in Int \cup {None}, NEW c \in Int \cup {None},
           ~ScoreGT(a, b)
    PROVE  /\ ScoreGT(c, b) => ~ScoreGT(a, c)
           /\ ~ScoreGT(a, a)
BY DEF ScoreGT

\* The next post joins a cluster or opens one, and nothing else changes.
LEMMA JoinedAccounts ==
    ASSUME NEW posts, NEW n \in Nat, NEW cs, Accounted(posts, cs, n),
           \A i \in 1 .. n + 1 : posts[i].score \in Int \cup {None}
    PROVE  Accounted(posts, Joined(posts, cs, n + 1), n + 1)
<1> DEFINE i == n + 1
           alike == Alike(posts, cs, i)
           Of(k) == [head : 1 .. k, members : SUBSET (1 .. k)]
<1>1. cs \in Seq(Of(n)) /\ Len(cs) \in Nat /\ DOMAIN cs = 1 .. Len(cs)
  BY DEF Accounted
<1>2. \A c \in DOMAIN cs : /\ cs[c] \in Of(n) /\ cs[c] \in Of(i)
                           /\ cs[c].head \in cs[c].members /\ i \notin cs[c].members
                           /\ cs[c].members \subseteq 1 .. n
                           /\ \A m \in cs[c].members :
                                ~ScoreGT(posts[m].score, posts[cs[c].head].score)
  <2> SUFFICES ASSUME NEW c \in DOMAIN cs
               PROVE  /\ cs[c] \in Of(n) /\ cs[c] \in Of(i) /\ cs[c].members \subseteq 1 .. n
                      /\ i \notin cs[c].members
    BY DEF Accounted
  <2>1. cs[c] \in Of(n)
    <3>1. c \in 1 .. Len(cs)  BY <1>1
    <3> HIDE DEF Of
    <3> QED BY <1>1, <3>1
  <2>2. 1 .. n \subseteq 1 .. i /\ i \notin 1 .. n  OBVIOUS
  <2> HIDE DEF i
  <2> QED BY <2>1, <2>2
<1>3. \A j \in 1 .. n : \E c \in DOMAIN cs :
        j \in cs[c].members /\ \A d \in DOMAIN cs : j \in cs[d].members => d = c
  BY DEF Accounted
<1>4. i \in Nat /\ i \in 1 .. i /\ \A j \in 1 .. i : j = i \/ j \in 1 .. n  OBVIOUS
<1>5. posts[i].score \in Int \cup {None} /\ \A m \in 1 .. n : posts[m].score \in Int \cup {None}
  OBVIOUS
<1>6. CASE alike = {}
  <2> DEFINE new == [head |-> i, members |-> {i}]
             u == Append(cs, new)
  <2>1. Joined(posts, cs, i) = u  BY <1>6 DEF Joined
  <2>2. new \in Of(i) /\ new.head = i /\ new.members = {i}  BY <1>4
  <2> HIDE DEF new
  <2>3. /\ Len(u) = Len(cs) + 1 /\ DOMAIN u = 1 .. Len(cs) + 1
        /\ \A c \in 1 .. Len(cs) : u[c] = cs[c]
        /\ u[Len(cs) + 1] = new
    BY <1>1
  <2>4. u \in Seq(Of(i))
    <3>1. cs \in Seq(Of(i))
      <4>1. cs = [c \in 1 .. Len(cs) |-> cs[c]]  BY <1>1
      <4>2. \A c \in 1 .. Len(cs) : cs[c] \in Of(i)  BY <1>1, <1>2
      <4> HIDE DEF i, Of
      <4>3. cs \in [1 .. Len(cs) -> Of(i)]  BY <4>1, <4>2
      <4> QED BY <1>1, <4>3
    <3> HIDE DEF i, Of
    <3> QED BY <2>2, <3>1
  <2>5. \A j \in 1 .. i : \E c \in DOMAIN u :
          j \in u[c].members /\ \A d \in DOMAIN u : j \in u[d].members => d = c
    <3> SUFFICES ASSUME NEW j \in 1 .. i
                 PROVE  \E c \in DOMAIN u : /\ j \in u[c].members
                                            /\ \A d \in DOMAIN u : j \in u[d].members => d = c
      OBVIOUS
    <3>1. \A d \in DOMAIN u : d \in 1 .. Len(cs) \/ d = Len(cs) + 1  BY <1>1, <2>3
    <3>2. CASE j = i
      <4>1. \A d \in 1 .. Len(cs) : j \notin u[d].members  BY <1>1, <1>2, <2>3, <3>2
      <4>2. j \in u[Len(cs) + 1].members /\ Len(cs) + 1 \in DOMAIN u  BY <1>1, <2>2, <2>3, <3>2
      <4> QED BY <3>1, <4>1, <4>2
    <3>3. CASE j \in 1 .. n
      <4>1. PICK c \in 1 .. Len(cs) : /\ j \in cs[c].members
                                      /\ \A d \in 1 .. Len(cs) : j \in cs[d].members => d = c
        BY <1>1, <1>3, <3>3
      <4>2. c \in DOMAIN u /\ u[c] = cs[c]  BY <1>1, <2>3
      <4>3. j \notin u[Len(cs) + 1].members  BY <2>2, <2>3, <3>3
      <4>4. \A d \in DOMAIN u : j \in u[d].members => d = c  BY <2>3, <3>1, <4>1, <4>3
      <4> QED BY <4>1, <4>2, <4>4
    <3> QED BY <1>4, <3>2, <3>3
  <2>6. \A c \in DOMAIN u :
          /\ u[c].head \in u[c].members
          /\ \A m \in u[c].members : ~ScoreGT(posts[m].score, posts[u[c].head].score)
    <3> SUFFICES ASSUME NEW c \in DOMAIN u
                 PROVE  /\ u[c].head \in u[c].members
                        /\ \A m \in u[c].members : ~ScoreGT(posts[m].score, posts[u[c].head].score)
      OBVIOUS
    <3>1. c \in 1 .. Len(cs) \/ c = Len(cs) + 1  BY <1>1, <2>3
    <3>2. CASE c \in 1 .. Len(cs)  BY <1>1, <1>2, <2>3, <3>2
    <3>3. CASE c = Len(cs) + 1
      <4>1. u[c] = new  BY <2>3, <3>3
      <4>2. ~ScoreGT(posts[i].score, posts[i].score)  BY <1>5 DEF ScoreGT
      <4> HIDE DEF i
      <4> QED BY <2>2, <4>1, <4>2
    <3> QED BY <3>1, <3>2, <3>3
  <2> HIDE DEF u
  <2> QED BY <2>1, <2>4, <2>5, <2>6 DEF Accounted
<1>7. CASE alike # {}
  <2> DEFINE at == First(alike)
             grown == Enlarged(posts, cs[at], i)
             u == [cs EXCEPT ![at] = grown]
  <2>1. Joined(posts, cs, i) = u  BY <1>7 DEF Joined
  <2>2. alike \in SUBSET Nat /\ alike \subseteq DOMAIN cs  BY <1>1 DEF Alike
  <2>3. at \in DOMAIN cs
    <3> HIDE DEF alike
    <3> QED BY <1>7, <2>2, LeastNumber
  <2> HIDE DEF at
  <2>4. /\ grown.head = (IF ScoreGT(posts[i].score, posts[cs[at].head].score) THEN i ELSE cs[at].head)
        /\ grown.members = cs[at].members \cup {i}
        /\ grown = [head |-> grown.head, members |-> grown.members]
    BY DEF Enlarged
  <2> HIDE DEF grown
  <2>5. grown \in Of(i)
    <3>1. cs[at] \in Of(i)  BY <1>2, <2>3
    <3>2. i \in 1 .. i  BY <1>4
    <3> HIDE DEF i
    <3>3. grown.head \in 1 .. i /\ grown.members \subseteq 1 .. i  BY <2>4, <3>1, <3>2
    <3> QED BY <2>4, <3>3
  <2>6. /\ DOMAIN u = DOMAIN cs /\ u[at] = grown
        /\ \A c \in DOMAIN cs : c # at => u[c] = cs[c]
    BY <1>1, <2>3
  <2>7. u \in Seq(Of(i))
    <3>1. \A c \in 1 .. Len(cs) : u[c] \in Of(i)  BY <1>1, <1>2, <2>5, <2>6
    <3>2. u = [c \in 1 .. Len(cs) |-> u[c]]  BY <1>1
    <3> HIDE DEF u, i, Of
    <3>3. u \in [1 .. Len(cs) -> Of(i)]  BY <3>1, <3>2
    <3> QED BY <1>1, <3>3
  <2> HIDE DEF u
  <2>8. \A j \in 1 .. i : \E c \in DOMAIN u :
          j \in u[c].members /\ \A d \in DOMAIN u : j \in u[d].members => d = c
    <3> SUFFICES ASSUME NEW j \in 1 .. i
                 PROVE  \E c \in DOMAIN u : /\ j \in u[c].members
                                            /\ \A d \in DOMAIN u : j \in u[d].members => d = c
      OBVIOUS
    <3>1. CASE j = i
      <4>1. \A d \in DOMAIN u : d # at => j \notin u[d].members  BY <1>2, <2>6, <3>1
      <4> HIDE DEF i
      <4> QED BY <2>3, <2>4, <2>6, <3>1, <4>1
    <3>2. CASE j \in 1 .. n
      <4>1. PICK c \in DOMAIN cs : /\ j \in cs[c].members
                                   /\ \A d \in DOMAIN cs : j \in cs[d].members => d = c
        BY <1>3, <3>2
      <4>2. j # i  BY <3>2
      <4> HIDE DEF i
      <4>3. \A d \in DOMAIN cs : j \in u[d].members <=> j \in cs[d].members  BY <2>4, <2>6, <4>2
      <4> QED BY <2>6, <4>1, <4>3
    <3> QED BY <1>4, <3>1, <3>2
  <2>9. \A c \in DOMAIN u :
          /\ u[c].head \in u[c].members
          /\ \A m \in u[c].members : ~ScoreGT(posts[m].score, posts[u[c].head].score)
    <3> SUFFICES ASSUME NEW c \in DOMAIN u
                 PROVE  /\ u[c].head \in u[c].members
                        /\ \A m \in u[c].members : ~ScoreGT(posts[m].score, posts[u[c].head].score)
      OBVIOUS
    <3>1. CASE c # at  BY <1>2, <2>6, <3>1
    <3>2. CASE c = at
      <4>1. u[c] = grown  BY <2>6, <3>2
      <4>2. /\ cs[at].head \in cs[at].members /\ cs[at].members \subseteq 1 .. n
            /\ \A m \in cs[at].members : ~ScoreGT(posts[m].score, posts[cs[at].head].score)
        BY <1>2, <2>3
      <4>3. /\ posts[cs[at].head].score \in Int \cup {None}
            /\ \A m \in cs[at].members : posts[m].score \in Int \cup {None}
        BY <1>5, <4>2
      <4> HIDE DEF i
      <4>4. CASE ScoreGT(posts[i].score, posts[cs[at].head].score)
        <5>1. grown.head = i  BY <2>4, <4>4
        <5>2. \A m \in cs[at].members : ~ScoreGT(posts[m].score, posts[i].score)
          BY <1>5, <4>2, <4>3, <4>4, ScoreOrder
        <5>3. ~ScoreGT(posts[i].score, posts[i].score)  BY <1>5 DEF ScoreGT
        <5> QED BY <2>4, <4>1, <5>1, <5>2, <5>3
      <4>5. CASE ~ScoreGT(posts[i].score, posts[cs[at].head].score)
        <5>1. grown.head = cs[at].head  BY <2>4, <4>5
        <5> QED BY <2>4, <4>1, <4>2, <4>5, <5>1
      <4> QED BY <4>4, <4>5
    <3> QED BY <3>1, <3>2
  <2> QED BY <2>1, <2>7, <2>8, <2>9 DEF Accounted
<1> QED BY <1>6, <1>7

\* So folding a listing accounts for every post of it.
LEMMA FoldingAccounts ==
    ASSUME NEW posts, Len(posts) \in Nat,
           \A i \in 1 .. Len(posts) : posts[i].score \in Int \cup {None}
    PROVE  Accounted(posts, Clusters(posts), Len(posts))
<1> DEFINE n == Len(posts)
<1>1. PICK g : Folding(posts, g, n) /\ Clusters(posts) = g[n]  BY ClustersLast
<1> DEFINE lost == {m \in Nat : m <= n /\ ~Accounted(posts, g[m], m)}
<1>2. lost = {}
  <2> SUFFICES ASSUME lost # {} PROVE FALSE  OBVIOUS
  <2> DEFINE m == First(lost)
  <2>1. lost \in SUBSET Nat  OBVIOUS
  <2>2. m \in lost /\ \A k \in lost : m <= k
    <3> HIDE DEF lost
    <3> QED BY <2>1, LeastNumber
  <2> HIDE DEF m
  <2>3. m # 0
    <3>1. g[0] = << >>  BY <1>1 DEF Folding
    <3>2. Accounted(posts, << >>, 0)
      <4>1. << >> \in Seq([head : 1 .. 0, members : SUBSET (1 .. 0)]) /\ DOMAIN << >> = {}  OBVIOUS
      <4>2. \A j \in 1 .. 0 : FALSE  OBVIOUS
      <4> QED BY <4>1, <4>2 DEF Accounted
    <3> QED BY <2>2, <3>1, <3>2
  <2>4. m - 1 \in Nat /\ m - 1 <= n /\ m - 1 \notin lost /\ (m - 1) + 1 = m  BY <2>2, <2>3
  <2>5. Accounted(posts, g[m - 1], m - 1)  BY <2>4
  <2>6. \A i \in 1 .. (m - 1) + 1 : posts[i].score \in Int \cup {None}  BY <2>2, <2>4
  <2>7. Accounted(posts, Joined(posts, g[m - 1], (m - 1) + 1), (m - 1) + 1)
    BY <2>4, <2>5, <2>6, JoinedAccounts
  <2>8. g[m] = Joined(posts, g[m - 1], m)
    <3>1. g = [i \in 0 .. n |-> IF i = 0 THEN << >> ELSE Joined(posts, g[i - 1], i)]
      BY <1>1 DEF Folding
    <3>2. m \in 0 .. n /\ m # 0  BY <2>2, <2>3
    <3> HIDE DEF m, n
    <3> QED BY <3>1, <3>2, Zenon
  <2>9. Accounted(posts, g[m], m)  BY <2>4, <2>7, <2>8
  <2> QED BY <2>2, <2>9
<1>3. n \in Nat /\ n <= n  OBVIOUS
<1> QED BY <1>1, <1>2, <1>3

-----------------------------------------------------------------------------
(* SearchSession: a search repeats nothing.                                *)

\* Of two overlaps the shorter is measured; of two of one length either is.
LEMMA MatchesBothWays ==
    ASSUME NEW p, NEW q, IsFiniteSet(p.toks), IsFiniteSet(q.toks), Matches(p, q)
    PROVE  Matches(q, p)
<1> DEFINE a == TitleTokens(p.toks)
           b == TitleTokens(q.toks)
<1>1. IsFiniteSet(a) /\ IsFiniteSet(b)  BY FS_EmptySet DEF TitleTokens
<1>2. Cardinality(a) \in Nat /\ Cardinality(b) \in Nat  BY <1>1, FS_CardinalityType
<1>3. a \cap b = b \cap a /\ a \cup b = b \cup a  OBVIOUS
<1>4. Matches(p, q) <=>
        LET sameAuthor == p.author # "" /\ p.author = q.author
        IN  /\ a # {} /\ b # {}
            /\ \/ JaccardAtLeast(a, b, jaccardThreshold) /\ p.media = q.media
               \/ JaccardAtLeast(a, b, jaccardThreshold) /\ sameAuthor
                    /\ JaccardAtLeast(a, b, jaccardThresholdSameAuthor)
               \/ sameAuthor /\ Cardinality(a) >= minContainmentTokens
                    /\ Cardinality(b) >= minContainmentTokens
                    /\ ContainmentAtLeast(a, b, containmentThresholdSameAuthor)
  BY DEF Matches
<1>5. Matches(q, p) <=>
        LET sameAuthor == q.author # "" /\ q.author = p.author
        IN  /\ b # {} /\ a # {}
            /\ \/ JaccardAtLeast(b, a, jaccardThreshold) /\ q.media = p.media
               \/ JaccardAtLeast(b, a, jaccardThreshold) /\ sameAuthor
                    /\ JaccardAtLeast(b, a, jaccardThresholdSameAuthor)
               \/ sameAuthor /\ Cardinality(b) >= minContainmentTokens
                    /\ Cardinality(a) >= minContainmentTokens
                    /\ ContainmentAtLeast(b, a, containmentThresholdSameAuthor)
  BY DEF Matches
<1> HIDE DEF a, b
<1>6. \A share : JaccardAtLeast(a, b, share) <=> JaccardAtLeast(b, a, share)
  BY <1>3 DEF JaccardAtLeast
<1>7. LET shorter(x, y) == IF Cardinality(x) < Cardinality(y) THEN x ELSE y
      IN  Cardinality(shorter(a, b)) = Cardinality(shorter(b, a))
  BY <1>2
<1>8. \A share : ContainmentAtLeast(a, b, share) <=> ContainmentAtLeast(b, a, share)
  BY <1>3, <1>7 DEF ContainmentAtLeast
<1> QED BY <1>4, <1>5, <1>6, <1>8

\* A listing's clusters and heads are of its own posts.
LEMMA ListingFolds ==
    ASSUME NEW l \in SSListings
    PROVE  /\ Accounted(l, Clusters(l), Len(l))
           /\ DOMAIN l \subseteq Int /\ \A i \in DOMAIN l : l[i] \in FoundPosts
           /\ DOMAIN FoldReposts(l) \subseteq Int
           /\ \A i \in DOMAIN FoldReposts(l) : FoldReposts(l)[i] \in FoundPosts
<1>1. l \in Seq(FoundPosts)  BY SSAssumption DEF SSAssumption
<1>2. Len(l) \in Nat /\ DOMAIN l = 1 .. Len(l)  BY <1>1
<1>3. \A i \in 1 .. Len(l) : l[i] \in FoundPosts  BY <1>1
<1>4. \A i \in 1 .. Len(l) : l[i].score \in Int \cup {None}
  BY <1>3, SSAssumption DEF SSAssumption
<1>5. Accounted(l, Clusters(l), Len(l))  BY <1>2, <1>4, FoldingAccounts
<1> DEFINE cs == Clusters(l)
           heads == {cs[c].head : c \in DOMAIN cs}
           folded == FoldReposts(l)
<1>6. heads \subseteq 1 .. Len(l)
  <2> SUFFICES ASSUME NEW c \in DOMAIN cs PROVE cs[c].head \in 1 .. Len(l)  OBVIOUS
  <2> DEFINE Shape == [head : 1 .. Len(l), members : SUBSET (1 .. Len(l))]
  <2>1. cs \in Seq(Shape)  BY <1>5 DEF Accounted
  <2> HIDE DEF Shape, cs
  <2>2. cs[c] \in Shape  BY <2>1
  <2> QED BY <2>2 DEF Shape
<1>7. folded = [i \in heads |-> l[i]]  BY DEF FoldReposts
<1> HIDE DEF heads, folded
<1>8. DOMAIN folded \subseteq Int /\ \A i \in DOMAIN folded : folded[i] \in FoundPosts
  BY <1>2, <1>3, <1>6, <1>7
<1> QED BY <1>2, <1>3, <1>5, <1>8 DEF folded

\* A request that goes on, and the others as they are.
LEMMA TabStep ==
    ASSUME TabsKept, NEW t \in SSTabs, NEW tab, ssTab' = [ssTab EXCEPT ![t] = tab],
           ssShown' = [c \in SearchPages |-> ssShown'[c]],
           tab.at # "idle" => /\ tab.cur \in SearchPages /\ tab.listing \in SSListings
                              /\ DOMAIN tab.posts \subseteq Int
                              /\ \A i \in DOMAIN tab.posts : tab.posts[i] \in FoundPosts
    PROVE  /\ TabsKept' /\ ssTab'[t] = tab
           /\ \A u \in SSTabs : u # t => ssTab'[u] = ssTab[u]
<1>1. DOMAIN ssTab = SSTabs  BY DEF TabsKept
<1>2. ssTab'[t] = tab /\ \A u \in SSTabs : u # t => ssTab'[u] = ssTab[u]  BY <1>1
<1>3. ssTab' = [u \in SSTabs |-> ssTab'[u]]  BY <1>1
<1>4. ASSUME NEW u \in SSTabs, ssTab'[u].at # "idle"
      PROVE  /\ ssTab'[u].cur \in SearchPages /\ ssTab'[u].listing \in SSListings
             /\ DOMAIN ssTab'[u].posts \subseteq Int
             /\ \A i \in DOMAIN ssTab'[u].posts : ssTab'[u].posts[i] \in FoundPosts
  BY <1>2, <1>4 DEF TabsKept
<1> QED BY <1>2, <1>3, <1>4 DEF TabsKept

\* A fetch under way.
LEMMA FetchedStep ==
    ASSUME SearchKept, NEW t \in SSTabs, NEW url, NEW c \in SearchPages, NEW l \in SSListings,
           NEW posts, Fetched(t, url, c, l, posts), DOMAIN posts \subseteq Int,
           \A i \in DOMAIN posts : posts[i] \in FoundPosts
    PROVE  SearchKept'
<1> DEFINE tab == Tab("fetched", c, l, posts, {}, url)
<1>1. /\ ssTab[t].at = "idle" /\ ssTab' = [ssTab EXCEPT ![t] = tab]
      /\ ssBroken' = (ssBroken \/ Overlaps) /\ UNCHANGED <<ssSeen, ssCache, ssPuts, ssShown>>
  BY DEF Fetched
<1>2. tab.at = "fetched" /\ tab.cur = c /\ tab.listing = l /\ tab.posts = posts  BY DEF Tab
<1> HIDE DEF tab
<1>3. TabsKept /\ ssShown' = [d \in SearchPages |-> ssShown'[d]]  BY <1>1 DEF SearchKept, TabsKept
<1>4. /\ TabsKept' /\ ssTab'[t] = tab
      /\ \A u \in SSTabs : u # t => ssTab'[u] = ssTab[u]
  BY <1>1, <1>2, <1>3, TabStep
<1>5. ssBroken' \in BOOLEAN  BY <1>1 DEF SearchKept, Overlaps
<1>6. ASSUME ~ssBroken' PROVE OneAsks' /\ EntriesApart' /\ ShownEntered'
  <2>1. ~ssBroken /\ ~Overlaps  BY <1>1, <1>6
  <2>2. \A u \in SSTabs : ssTab[u].at = "idle"  BY <2>1 DEF Overlaps
  <2>3. OneAsks'  BY <1>2, <1>4, <2>2 DEF OneAsks
  <2>4. EntriesApart /\ ShownEntered  BY <2>1 DEF SearchKept
  <2> QED BY <1>1, <2>3, <2>4 DEF EntriesApart, ShownEntered
<1> QED BY <1>4, <1>5, <1>6 DEF SearchKept

\* The session is loaded.
LEMMA LoadSeenStep ==
    ASSUME SearchKept, NEW t \in SSTabs, LoadSeen(t)
    PROVE  SearchKept'
<1> DEFINE tab == Tab("loaded", ssTab[t].cur, ssTab[t].listing, ssTab[t].posts, ssSeen, ssTab[t].url)
<1>1. /\ ssTab[t].at = "fetched" /\ ssTab' = [ssTab EXCEPT ![t] = tab]
      /\ UNCHANGED <<ssSeen, ssShown, ssBroken>>
  BY DEF LoadSeen
<1>2. /\ tab.at = "loaded" /\ tab.cur = ssTab[t].cur /\ tab.listing = ssTab[t].listing
      /\ tab.posts = ssTab[t].posts /\ tab.seen = ssSeen
  BY DEF Tab
<1> HIDE DEF tab
<1>3. /\ TabsKept /\ ssShown' = [d \in SearchPages |-> ssShown'[d]]
  BY <1>1 DEF SearchKept, TabsKept
<1>4. /\ tab.cur \in SearchPages /\ tab.listing \in SSListings /\ DOMAIN tab.posts \subseteq Int
      /\ \A i \in DOMAIN tab.posts : tab.posts[i] \in FoundPosts
  BY <1>1, <1>2, <1>3 DEF TabsKept
<1>5. /\ TabsKept' /\ ssTab'[t] = tab
      /\ \A u \in SSTabs : u # t => ssTab'[u] = ssTab[u]
  BY <1>1, <1>3, <1>4, TabStep
<1>6. ASSUME ~ssBroken PROVE OneAsks' /\ EntriesApart' /\ ShownEntered'
  <2>1. OneAsks /\ EntriesApart /\ ShownEntered  BY <1>6 DEF SearchKept
  <2>2. OneAsks'  BY <1>1, <1>2, <1>5, <2>1 DEF OneAsks
  <2> QED BY <1>1, <2>1, <2>2 DEF EntriesApart, ShownEntered
<1> QED BY <1>1, <1>5, <1>6 DEF SearchKept

\* What stays of a page is unlike the rest of the page and of the session.
LEMMA StayApart ==
    ASSUME NEW posts, DOMAIN posts \subseteq Int,
           \A i \in DOMAIN posts : posts[i] \in FoundPosts,
           NEW seen, NEW here, NEW K \in SUBSET DOMAIN posts, Stay(K, posts, seen, here)
    PROVE  /\ \A i \in K : \A e \in Elsewhere(seen, here) : ~Matches(posts[i], e.post)
           /\ \A i, j \in K : i # j => ~Matches(posts[i], posts[j])
<1>1. \A i \in K : /\ \A e \in Elsewhere(seen, here) : ~Matches(posts[i], e.post)
                   /\ \A j \in K : j < i => ~Matches(posts[i], posts[j])
  BY DEF Stay
<1>2. ASSUME NEW i \in K, NEW j \in K, i # j PROVE ~Matches(posts[i], posts[j])
  <2>1. i \in Int /\ j \in Int /\ (j < i \/ i < j)  BY <1>2
  <2>2. IsFiniteSet(posts[i].toks) /\ IsFiniteSet(posts[j].toks)  BY SSAssumption DEF SSAssumption
  <2>3. CASE j < i  BY <1>1, <2>3
  <2>4. CASE i < j  BY <1>1, <2>2, <2>4, MatchesBothWays
  <2> QED BY <2>1, <2>3, <2>4
<1> QED BY <1>1, <1>2

\* A page is shown and entered.
LEMMA SaveSeenStep ==
    ASSUME SearchKept, NEW t \in SSTabs, SaveSeen(t)
    PROVE  SearchKept'
<1> DEFINE tab == ssTab[t]
           here == tab.cur
           posts == tab.posts
<1>1. tab.at = "loaded" /\ TabsKept  BY DEF SaveSeen, SearchKept
<1>2. PICK K \in SUBSET DOMAIN posts :
        LET out  == [i \in K |-> posts[i]]
            seen == Entered(K, posts, tab.seen, here)
        IN  /\ Stay(K, posts, tab.seen, here)
            /\ ssSeen' = IF seen = {} THEN ssSeen ELSE seen
            /\ ssShown' = [ssShown EXCEPT ![here] = out]
  BY DEF SaveSeen
<1> DEFINE out == [i \in K |-> posts[i]]
           seen == Entered(K, posts, tab.seen, here)
<1>3. /\ Stay(K, posts, tab.seen, here) /\ ssSeen' = (IF seen = {} THEN ssSeen ELSE seen)
      /\ ssShown' = [ssShown EXCEPT ![here] = out]
      /\ ssTab' = [ssTab EXCEPT ![t] = Quiet] /\ UNCHANGED ssBroken
  BY <1>2 DEF SaveSeen
<1>4. /\ here \in SearchPages /\ DOMAIN posts \subseteq Int
      /\ \A i \in DOMAIN posts : posts[i] \in FoundPosts
  BY <1>1 DEF TabsKept
<1>5. DOMAIN out = K /\ \A i \in K : out[i] = posts[i] /\ posts[i] \in FoundPosts  BY <1>4
<1> HIDE DEF out
<1>6. /\ ssShown' = [d \in SearchPages |-> ssShown'[d]] /\ ssShown'[here] = out
      /\ \A d \in SearchPages : d # here => ssShown'[d] = ssShown[d]
  BY <1>1, <1>3, <1>4 DEF TabsKept
<1>7. Quiet.at = "idle"  BY DEF Quiet, Tab
<1>8. /\ TabsKept' /\ ssTab'[t] = Quiet
      /\ \A u \in SSTabs : u # t => ssTab'[u] = ssTab[u]
  BY <1>1, <1>3, <1>6, <1>7, TabStep
<1>10. ASSUME ~ssBroken, DOMAIN posts = {} PROVE OneAsks' /\ EntriesApart' /\ ShownEntered'
  <2>1. OneAsks /\ EntriesApart /\ ShownEntered  BY <1>10 DEF SearchKept
  <2>2. tab.seen = ssSeen /\ \A u \in SSTabs : u # t => ssTab[u].at = "idle"
    BY <1>1, <2>1 DEF OneAsks
  <2>3. OneAsks'
    <3>1. \A u \in SSTabs : ssTab'[u].at = "idle"  BY <1>7, <1>8, <2>2
    <3> QED BY <3>1 DEF OneAsks
  <2>4. ssSeen' = ssSeen  BY <1>3, <1>10, <2>2 DEF Entered
  <2>5. DOMAIN ssShown'[here] = {}  BY <1>5, <1>6, <1>10
  <2> QED BY <1>6, <2>1, <2>3, <2>4, <2>5 DEF EntriesApart, ShownEntered
<1>9. ASSUME ~ssBroken, DOMAIN posts # {} PROVE OneAsks' /\ EntriesApart' /\ ShownEntered'
  <2>1. OneAsks /\ EntriesApart /\ ShownEntered  BY <1>9 DEF SearchKept
  <2>2. tab.seen = ssSeen /\ \A u \in SSTabs : u # t => ssTab[u].at = "idle"
    BY <1>1, <2>1 DEF OneAsks
  <2>3. OneAsks'
    <3>1. \A u \in SSTabs : ssTab'[u].at = "idle"  BY <1>7, <1>8, <2>2
    <3> QED BY <3>1 DEF OneAsks
  <2> DEFINE old == Elsewhere(ssSeen, here)
             new == {[cur |-> here, post |-> posts[i]] : i \in {j \in K : ~Terse(posts[j])}}
  <2>4. seen = old \cup new  BY <1>9, <2>2 DEF Entered
  <2>5. /\ \A i \in K : \A e \in old : ~Matches(posts[i], e.post)
        /\ \A i, j \in K : i # j => ~Matches(posts[i], posts[j])
    BY <1>3, <1>4, <2>2, StayApart
  <2>6. old \subseteq ssSeen /\ \A e \in ssSeen : e.cur # here => e \in old  BY DEF Elsewhere
  <2>7. ssSeen \subseteq [cur : SearchPages, post : FoundPosts]  BY <2>1 DEF EntriesApart
  <2>8. \A e \in ssSeen : IsFiniteSet(e.post.toks)  BY <2>7, SSAssumption DEF SSAssumption
  <2>9. \A i \in K : IsFiniteSet(posts[i].toks)  BY <1>5, SSAssumption DEF SSAssumption
  <2>10. \A i \in K : ~Terse(posts[i]) => [cur |-> here, post |-> posts[i]] \in new  OBVIOUS
  <2>11. \A e \in new : \E i \in K : e = [cur |-> here, post |-> posts[i]]  OBVIOUS
  <2> HIDE DEF new, old, seen
  <2>12. EntriesApart'
    <3>1. CASE seen = {}  BY <1>3, <2>1, <3>1 DEF EntriesApart
    <3>2. CASE seen # {}
      <4>1. ssSeen' = old \cup new  BY <1>3, <2>4, <3>2
      <4>2. new \subseteq [cur : SearchPages, post : FoundPosts]  BY <1>4, <1>5, <2>11
      <4>3. ASSUME NEW e \in old \cup new, NEW f \in old \cup new, e # f
            PROVE  ~Matches(e.post, f.post)
        <5>1. CASE e \in old /\ f \in old  BY <2>1, <2>6, <4>3, <5>1 DEF EntriesApart
        <5>2. CASE e \in new /\ f \in old
          <6>1. PICK i \in K : e = [cur |-> here, post |-> posts[i]]  BY <2>11, <5>2
          <6>2. e.post = posts[i]  BY <6>1
          <6> QED BY <2>5, <5>2, <6>2
        <5>3. CASE e \in old /\ f \in new
          <6>1. PICK i \in K : f = [cur |-> here, post |-> posts[i]]  BY <2>11, <5>3
          <6>2. f.post = posts[i]  BY <6>1
          <6>3. ~Matches(posts[i], e.post)  BY <2>5, <5>3
          <6>4. IsFiniteSet(posts[i].toks) /\ IsFiniteSet(e.post.toks)  BY <2>6, <2>8, <2>9, <5>3
          <6> QED BY <6>2, <6>3, <6>4, MatchesBothWays
        <5>4. CASE e \in new /\ f \in new
          <6>1. PICK i \in K : e = [cur |-> here, post |-> posts[i]]  BY <2>11, <5>4
          <6>2. PICK j \in K : f = [cur |-> here, post |-> posts[j]]  BY <2>11, <5>4
          <6>3. i # j /\ e.post = posts[i] /\ f.post = posts[j]  BY <4>3, <6>1, <6>2
          <6> QED BY <2>5, <6>3
        <5> QED BY <5>1, <5>2, <5>3, <5>4
      <4> QED BY <2>6, <2>7, <4>1, <4>2, <4>3 DEF EntriesApart
    <3> QED BY <3>1, <3>2
  <2>13. ShownEntered'
    <3> SUFFICES ASSUME NEW d \in SearchPages, NEW i \in DOMAIN ssShown'[d]
                 PROVE  /\ Terse(ssShown'[d][i]) \/ [cur |-> d, post |-> ssShown'[d][i]] \in ssSeen'
                        /\ \A j \in DOMAIN ssShown'[d] :
                             i # j => ~Matches(ssShown'[d][i], ssShown'[d][j])
      BY DEF ShownEntered, Terse
    <3>1. CASE d = here
      <4>1. ssShown'[d] = out /\ i \in K /\ out[i] = posts[i]  BY <1>5, <1>6, <3>1
      <4>2. Terse(posts[i]) \/ [cur |-> here, post |-> posts[i]] \in seen  BY <2>4, <2>10, <4>1
      <4>3. seen # {} => ssSeen' = seen  BY <1>3
      <4>4. Terse(posts[i]) \/ [cur |-> d, post |-> posts[i]] \in ssSeen'  BY <3>1, <4>2, <4>3
      <4>5. \A j \in K : i # j => ~Matches(posts[i], posts[j])  BY <2>5, <4>1
      <4> QED BY <1>5, <4>1, <4>4, <4>5
    <3>2. CASE d # here
      <4>1. ssShown'[d] = ssShown[d]  BY <1>6, <3>2
      <4> DEFINE e == [cur |-> d, post |-> ssShown[d][i]]
      <4>2. e.cur = d  OBVIOUS
      <4>3. /\ Terse(ssShown[d][i]) \/ e \in ssSeen
            /\ \A j \in DOMAIN ssShown[d] : i # j => ~Matches(ssShown[d][i], ssShown[d][j])
        BY <2>1, <4>1 DEF ShownEntered
      <4>4. e \in ssSeen => e \in seen  BY <2>4, <2>6, <3>2, <4>2
      <4>5. e \in ssSeen => e \in ssSeen'  BY <1>3, <4>4
      <4> QED BY <4>1, <4>3, <4>5
    <3> QED BY <3>1, <3>2
  <2> QED BY <2>3, <2>12, <2>13
<1> QED BY <1>3, <1>8, <1>9, <1>10 DEF SearchKept

\* Initially.
LEMMA SearchKeptInit == SSInit => SearchKept
<1> SUFFICES ASSUME SSInit PROVE SearchKept  OBVIOUS
<1>1. /\ ssTab = [t \in SSTabs |-> Quiet] /\ ssShown = [c \in SearchPages |-> << >>]
      /\ ssSeen = {} /\ ssBroken = FALSE
  BY DEF SSInit
<1>2. Quiet.at = "idle"  BY DEF Quiet, Tab
<1>3. \A t \in SSTabs : ssTab[t].at = "idle"  BY <1>1, <1>2
<1>4. \A c \in SearchPages : DOMAIN ssShown[c] = {}  BY <1>1
<1>5. TabsKept  BY <1>1, <1>3 DEF TabsKept
<1>6. OneAsks /\ EntriesApart /\ ShownEntered
  BY <1>1, <1>3, <1>4 DEF OneAsks, EntriesApart, ShownEntered
<1> QED BY <1>1, <1>5, <1>6 DEF SearchKept

\* Every step keeps it.
LEMMA SearchKeptStep ==
    ASSUME SearchKept, [SSNext]_ssVars
    PROVE  SearchKept'
<1>1. ASSUME NEW t \in SSTabs, NEW u \in SSUrls, Live(t, u) PROVE SearchKept'
  <2>1. PICK l \in SSListings : Fetched(t, u, CursorOf(u), l, FoldReposts(l))  BY <1>1 DEF Live
  <2>2. CursorOf(u) \in SearchPages  BY SSAssumption DEF CursorOf, SSUrls, SearchPages
  <2> QED BY <2>1, <2>2, ListingFolds, FetchedStep
<1>2. ASSUME NEW t \in SSTabs, NEW u \in SSUrls, FromArchive(t, u) PROVE SearchKept'
  <2>1. PICK l \in SSListings : Fetched(t, u, "archive:0", l, l)  BY <1>2 DEF FromArchive
  <2>2. "archive:0" \in SearchPages  BY DEF SearchPages
  <2> QED BY <2>1, <2>2, ListingFolds, FetchedStep
<1>3. ASSUME NEW t \in SSTabs, NEW c \in SSCursors, LoadMore(t, c) PROVE SearchKept'
  <2>1. PICK l \in SSListings : Fetched(t, None, c, l, FoldReposts(l))  BY <1>3 DEF LoadMore
  <2>2. c \in SearchPages  BY DEF SearchPages
  <2> QED BY <2>1, <2>2, ListingFolds, FetchedStep
<1>4. ASSUME NEW t \in SSTabs, NEW c \in SSOffsets, ArchiveMore(t, c) PROVE SearchKept'
  <2>1. PICK l \in SSListings : Fetched(t, None, c, l, l)  BY <1>4 DEF ArchiveMore
  <2>2. c \in SearchPages  BY DEF SearchPages
  <2> QED BY <2>1, <2>2, ListingFolds, FetchedStep
<1>5. ASSUME NEW c \in SSUrls, CacheHit(c) PROVE SearchKept'
  <2> DEFINE page == ssCache[c]
  <2>1. /\ ssShown' = [ssShown EXCEPT ![page.cur] = page.posts]
        /\ ssBroken' = (ssBroken \/ ssShown' # ssShown) /\ UNCHANGED <<ssSeen, ssTab>>
    BY <1>5 DEF CacheHit
  <2>2. TabsKept'
    <3>1. ssShown' = [d \in SearchPages |-> ssShown'[d]]  BY <2>1 DEF SearchKept, TabsKept
    <3> QED BY <2>1, <3>1 DEF SearchKept, TabsKept
  <2>3. ssBroken' \in BOOLEAN  BY <2>1 DEF SearchKept
  <2>4. ASSUME ~ssBroken' PROVE OneAsks' /\ EntriesApart' /\ ShownEntered'
    <3>1. ~ssBroken /\ UNCHANGED <<ssShown, ssSeen, ssTab>>  BY <2>1, <2>4
    <3> QED BY <3>1 DEF SearchKept, OneAsks, EntriesApart, ShownEntered
  <2> QED BY <2>2, <2>3, <2>4 DEF SearchKept
<1>6. ASSUME SessionLost PROVE SearchKept'
  BY <1>6 DEF SessionLost, SearchKept, TabsKept
<1>7. ASSUME UNCHANGED <<ssSeen, ssTab, ssShown, ssBroken>> PROVE SearchKept'
  BY <1>7 DEF SearchKept, TabsKept, OneAsks, EntriesApart, ShownEntered
<1>8. ASSUME NEW p, PutPage(p) PROVE SearchKept'
  BY <1>7, <1>8 DEF PutPage
<1>9. ASSUME NEW c \in SSUrls, CacheGone(c) PROVE SearchKept'
  BY <1>7, <1>9 DEF CacheGone
<1>10. CASE UNCHANGED ssVars
  BY <1>7, <1>10 DEF ssVars
<1> QED
  BY <1>1, <1>2, <1>3, <1>4, <1>5, <1>6, <1>8, <1>9, <1>10, LoadSeenStep, SaveSeenStep DEF SSNext

\* The inductive invariant of a search (search.go, search_session.go).
THEOREM SearchInvariance == SSSpec => []SearchKept
<1>1. SSInit => SearchKept  BY SearchKeptInit
<1>2. SearchKept /\ [SSNext]_ssVars => SearchKept'  BY SearchKeptStep
<1> QED BY <1>1, <1>2, PTL DEF SSSpec

\* Unless renders overlapped or the session and the pages parted, a search shows no
\* content twice, and folding a page loses none of it and keeps the best, for every
\* listing, however long, and every number of pages (search_session.go, repost.go).
THEOREM SearchRepeatsNothing == SSSpec => []PageAccounts
<1>1. SearchKept => PageAccounts
  <2> SUFFICES ASSUME SearchKept PROVE PageAccounts  OBVIOUS
  <2>1. NoReplay
    <3> SUFFICES ASSUME ~ssBroken, NEW c \in SearchPages, NEW d \in SearchPages,
                        NEW i \in DOMAIN ssShown[c], NEW j \in DOMAIN ssShown[d],
                        <<c, i>> # <<d, j>>
                 PROVE  ~Matches(ssShown[c][i], ssShown[d][j])
      BY DEF NoReplay
    <3> DEFINE p == ssShown[c][i]
               q == ssShown[d][j]
               e == [cur |-> c, post |-> p]
               f == [cur |-> d, post |-> q]
    <3>1. EntriesApart /\ ShownEntered  BY DEF SearchKept
    <3>2. CASE c = d  BY <3>1, <3>2 DEF ShownEntered
    <3>3. CASE Terse(p) \/ Terse(q)  BY <3>3 DEF Matches, Terse
    <3>4. CASE c # d /\ ~Terse(p) /\ ~Terse(q)
      <4>1. e \in ssSeen /\ f \in ssSeen  BY <3>1, <3>4 DEF ShownEntered
      <4>2. e # f /\ e.post = p /\ f.post = q  BY <3>4
      <4> HIDE DEF e, f
      <4> QED BY <3>1, <4>1, <4>2 DEF EntriesApart
    <3> QED BY <3>2, <3>3, <3>4
  <2>2. FoldAccounts
    <3> SUFFICES ASSUME NEW t \in SSTabs, ssTab[t].at = "fetched"
                 PROVE  LET l == ssTab[t].listing IN Accounted(l, Clusters(l), Len(l))
      BY DEF FoldAccounts
    <3>1. ssTab[t].listing \in SSListings  BY DEF SearchKept, TabsKept
    <3> QED BY <3>1, ListingFolds
  <2> QED BY <2>1, <2>2 DEF PageAccounts
<1> QED BY <1>1, SearchInvariance, PTL

=============================================================================
