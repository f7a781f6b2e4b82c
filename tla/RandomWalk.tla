----------------------------- MODULE RandomWalk -----------------------------
(***************************************************************************)
(* /random (handler/random.go, random_reshuffle.go, store/post.go): every   *)
(* set of filters has a cursor in Redis that sweeps the archive in the      *)
(* order of the posts' shuffle keys, from an origin up and then from the    *)
(* bottom to the origin again.  A page is read and the cursor moved under   *)
(* the lock of the filter; a full sweep moves the origin and wakes one      *)
(* worker that draws all the keys anew.                                     *)
(* A key is odd and an origin even: the floats of the code do not meet.     *)
(***************************************************************************)
EXTENDS Integers, Sequences, FiniteSets, Functions, NoneValue

CONSTANTS RWPosts,     \* posts, archived now or later
          RWKind,      \* the kind of each: "image", "video", "gif" or "text"
          RWResident,  \* those whose media is on disk
          RWScored,    \* those whose eviction score satisfies cache_score:
          RWRequests,  \* requests in flight at once
          RWQueries,   \* what they ask: [instant, media, score]
          RWPool,      \* randomMediaPoolSize
          RWPages,     \* randomFilterMaxPages
          RWAsks,      \* a bound: requests
          RWFaults     \* a bound: draws of the keys, lost cursors, late posts

VARIABLES rwKey,       \* shuffle_key of the archived posts
          rwWalk,      \* per filter: origin and cursor, in Redis
          rwLock,      \* per filter: the request that holds its lock
          rwReq,       \* per request: the stages left and where it is in the first
          rwSignal,    \* reshuffleSignal holds a signal
          rwWorker,    \* the worker: waiting for a signal, or about to draw
          rwServed,    \* ghost: per filter, how often this sweep has handed a post out
          rwWhole,     \* ghost: per filter, the sweep is over
          rwLate,      \* ghost: per filter, posts that came during the sweep
          rwCut,       \* ghost: per filter, the keys or the cursor changed under the sweep
          rwLeft       \* what is left of the bounds
rwVars == <<rwKey, rwWalk, rwLock, rwReq, rwSignal, rwWorker,
            rwServed, rwWhole, rwLate, rwCut, rwLeft>>

Media == {"image", "video", "gif"}
Origins == {2 * i : i \in 0 .. Cardinality(RWPosts)}
ShuffleKeys == {2 * i + 1 : i \in 0 .. Cardinality(RWPosts)}

-----------------------------------------------------------------------------
(* A request walks a list of stages: the kinds it filters by, whether it    *)
(* wants bytes, the size of a page, how many pages it may read.             *)
Stage(kinds, bytes, score) ==
  [kinds |-> kinds, bytes |-> bytes, score |-> score,
   n |-> IF bytes \/ score THEN RWPool ELSE 1,
   pages |-> IF score THEN RWPages ELSE 1]

Kinds(media) == IF media = {} THEN Media \cup {"text"} ELSE media

(* handleRandom: instant mode tries video, image, gif in this order, and    *)
(* then anything; a pinned kind tries the bytes first.                      *)
Tried(q, k) ==
  IF q.media = {} \/ k \in q.media THEN <<Stage({k}, TRUE, q.score)>> ELSE << >>
Stages(q) ==
  IF q.instant
  THEN Tried(q, "video") \o Tried(q, "image") \o Tried(q, "gif")
         \o <<Stage(Kinds({}), FALSE, q.score)>>
  ELSE (IF q.media # {} THEN <<Stage(q.media, TRUE, q.score)>> ELSE << >>)
         \o <<Stage(Kinds(q.media), FALSE, q.score)>>

(* The cursor's name: the filters, and whether the walk is for bytes. *)
Filter(s) == <<s.kinds, s.bytes, s.score>>
AllStages == UNION {Range(Stages(q)) : q \in RWQueries}
Filters == {Filter(s) : s \in AllStages}

Fits(s, p) == /\ s.bytes => p \in RWResident
              /\ s.score => p \in RWScored

Walks == [origin : Origins, cursor : Origins \cup ShuffleKeys]
ASSUME RWAssumption ==
  /\ IsFiniteSet(RWPosts) /\ RWPool \in Nat \ {0} /\ RWAsks \in Nat /\ RWFaults \in Nat
  /\ None \notin RWRequests /\ None \notin Walks

NoWalk == [stages |-> << >>, page |-> 0, rounds |-> 0, walk |-> None,
           low |-> 0, got |-> {}]
RWTypeOK ==
  /\ rwKey \in [DOMAIN rwKey -> ShuffleKeys] /\ DOMAIN rwKey \subseteq RWPosts
  /\ rwWalk \in [Filters -> Walks]
  /\ rwLock \in [Filters -> RWRequests \cup {None}]
  /\ rwReq \in [RWRequests -> [stages : Seq(AllStages), page : Nat, rounds : Nat,
                               walk : Walks \cup {None}, low : Int, got : SUBSET RWPosts]]
  /\ rwSignal \in BOOLEAN /\ rwWorker \in {"waits", "draws"}
  /\ rwServed \in [Filters -> [RWPosts -> 0 .. 2]]
  /\ rwWhole \in [Filters -> BOOLEAN] /\ rwCut \in [Filters -> BOOLEAN]
  /\ rwLate \in [Filters -> SUBSET RWPosts]
  /\ rwLeft \in [asks : 0 .. RWAsks, faults : 0 .. RWFaults]

-----------------------------------------------------------------------------
(* randomWalkPage: the n matching posts with the least keys in (low, high]. *)
Below(in, p) == {q \in in : rwKey[q] < rwKey[p]}
WalkPage(s, low, high, n) ==
  LET in == {p \in DOMAIN rwKey : RWKind[p] \in s.kinds /\ low < rwKey[p] /\ rwKey[p] <= high}
  IN  {p \in in : Cardinality(Below(in, p)) < n}

Top == 2 * Cardinality(RWPosts) + 2

Ask(r, q) ==
  /\ rwLeft.asks > 0 /\ rwReq[r] = NoWalk
  /\ rwReq' = [rwReq EXCEPT ![r] = [NoWalk EXCEPT !.stages = Stages(q)]]
  /\ rwLeft' = [rwLeft EXCEPT !.asks = @ - 1]
  /\ UNCHANGED <<rwKey, rwWalk, rwLock, rwSignal, rwWorker, rwServed, rwWhole, rwLate, rwCut>>

(* Ghosts: the first page after the end of a sweep begins the next one. *)
Begins(f) ==
  IF rwWhole[f]
  THEN /\ rwServed' = [rwServed EXCEPT ![f] = [p \in RWPosts |-> 0]]
       /\ rwWhole' = [rwWhole EXCEPT ![f] = FALSE] 
       /\ rwCut' = [rwCut EXCEPT ![f] = rwWalk[f].cursor # rwWalk[f].origin]
       /\ rwLate' = [rwLate EXCEPT ![f] = {}]
  ELSE UNCHANGED <<rwServed, rwWhole, rwCut, rwLate>>

\* Mutant: without the lock of the filter.
EnterUnlocked(r) ==
  /\ rwReq[r].stages # << >> /\ rwReq[r].walk = None
  /\ rwReq' = [rwReq EXCEPT ![r].walk = rwWalk[Filter(rwReq[r].stages[1])],
                            ![r].low = rwWalk[Filter(rwReq[r].stages[1])].cursor,
                            ![r].got = {}]
  /\ Begins(Filter(rwReq[r].stages[1]))
  /\ UNCHANGED <<rwKey, rwWalk, rwLock, rwSignal, rwWorker, rwLeft>>

(* randomWalk: under the lock, the cursor is read ... *)
Enter(r) ==
  /\ rwReq[r].stages # << >> /\ rwReq[r].walk = None
  /\ LET f == Filter(rwReq[r].stages[1]) IN
     /\ rwLock[f] = None /\ rwLock' = [rwLock EXCEPT ![f] = r]
     /\ rwReq' = [rwReq EXCEPT ![r].walk = rwWalk[f], ![r].low = rwWalk[f].cursor,
                               ![r].got = {}]
     /\ Begins(f)
  /\ UNCHANGED <<rwKey, rwWalk, rwSignal, rwWorker, rwLeft>>

(* ... and what the page held goes to the handler, the cursor to Redis, the *)
(* lock back, and a sweep that is over rotates the origin and signals.  A    *)
(* write that fails is not noticed.                                          *)
AfterPage(r, got, done) ==
  LET s == rwReq[r].stages[1]
      hit == \E p \in got : Fits(s, p)
      rounds == rwReq[r].rounds + (IF done THEN 1 ELSE 0)
      over == got = {} \/ rounds >= 2 \/ rwReq[r].page + 1 >= s.pages
  IN  IF hit THEN NoWalk
      ELSE IF over THEN [NoWalk EXCEPT !.stages = Tail(rwReq[r].stages)]
      ELSE [NoWalk EXCEPT !.stages = rwReq[r].stages,
                        !.page = rwReq[r].page + 1, !.rounds = rounds]

HandOuts(f, got) ==
  [p \in RWPosts |-> IF p \in got /\ rwServed[f][p] < 2
                     THEN rwServed[f][p] + 1 ELSE rwServed[f][p]]

Close(r, got, cursor, done) ==
  LET f == Filter(rwReq[r].stages[1]) IN
  /\ rwReq' = [rwReq EXCEPT ![r] = AfterPage(r, got, done)]
  /\ rwLock' = [rwLock EXCEPT ![f] = None]
  /\ rwSignal' = (rwSignal \/ done)
  /\ rwServed' = [rwServed EXCEPT ![f] = HandOuts(f, got)]
  /\ rwWhole' = [rwWhole EXCEPT ![f] = done]
  /\ \/ /\ \E o \in Origins :
             rwWalk' = [rwWalk EXCEPT ![f] = IF done THEN [origin |-> o, cursor |-> o]
                                             ELSE [rwReq[r].walk EXCEPT !.cursor = cursor]]
        /\ UNCHANGED <<rwCut, rwLeft>>
     \/ /\ rwLeft.faults > 0 /\ rwLeft' = [rwLeft EXCEPT !.faults = @ - 1]
        /\ rwCut' = [rwCut EXCEPT ![f] = TRUE] /\ UNCHANGED rwWalk
  /\ UNCHANGED <<rwKey, rwWorker, rwLate>>

LastKey(got, otherwise) ==
  IF got = {} THEN otherwise ELSE CHOOSE k \in {rwKey[p] : p \in got} : \A p \in got : rwKey[p] <= k

(* PostStore.RandomWalk, from the origin up. *)
Upper(r) ==
  /\ rwReq[r].walk # None
  /\ LET w == rwReq[r].walk
         s == rwReq[r].stages[1]
         got == WalkPage(s, w.cursor, Top, s.n)
     IN  /\ w.cursor >= w.origin /\ rwReq[r].low = w.cursor
         /\ IF Cardinality(got) >= s.n \/ w.origin <= 0
            THEN Close(r, got, LastKey(got, w.cursor), Cardinality(got) < s.n)
            ELSE /\ rwReq' = [rwReq EXCEPT ![r].got = got, ![r].low = -1]
                 /\ UNCHANGED <<rwKey, rwWalk, rwLock, rwSignal, rwWorker, rwServed,
                                rwWhole, rwLate, rwCut, rwLeft>>

(* ... and from the bottom to the origin, after it or on a page of its own. *)
Lower(r) ==
  /\ rwReq[r].walk # None
  /\ LET w == rwReq[r].walk
         s == rwReq[r].stages[1]
         need == s.n - Cardinality(rwReq[r].got)
         low == WalkPage(s, rwReq[r].low, w.origin, need)
     IN  /\ rwReq[r].low = -1 \/ w.cursor < w.origin
         /\ Close(r, rwReq[r].got \cup low, LastKey(low, LastKey(rwReq[r].got, w.cursor)),
                  Cardinality(low) < need)

-----------------------------------------------------------------------------
(* runReshuffleWorker: waits for a signal, then for the gap since the last   *)
(* draw, drops the signal that came meanwhile, and draws.                    *)
Wake ==
  /\ rwSignal /\ rwWorker = "waits"
  /\ rwSignal' = FALSE /\ rwWorker' = "draws"
  /\ UNCHANGED <<rwKey, rwWalk, rwLock, rwReq, rwServed, rwWhole, rwLate, rwCut, rwLeft>>
CutAll == [f \in Filters |-> rwCut[f] \/ ~rwWhole[f]]
Reshuffle ==
  /\ rwWorker = "draws" /\ rwWorker' = "waits"
  /\ rwSignal' \in {FALSE, rwSignal}
  /\ \/ /\ rwLeft.faults > 0 /\ rwLeft' = [rwLeft EXCEPT !.faults = @ - 1]
        /\ rwKey' \in {k \in [DOMAIN rwKey -> ShuffleKeys] : IsInjective(k)}
        /\ rwCut' = CutAll
     \/ UNCHANGED <<rwKey, rwCut, rwLeft>>          \* the statement failed
  /\ UNCHANGED <<rwWalk, rwLock, rwReq, rwServed, rwWhole, rwLate>>

(* The archiver saves a post; its key is drawn by the column's default. *)
Archived(p) ==
  /\ p \notin DOMAIN rwKey /\ rwLeft.faults > 0
  /\ \E k \in ShuffleKeys \ Range(rwKey) :
       rwKey' = [q \in DOMAIN rwKey \cup {p} |-> IF q = p THEN k ELSE rwKey[q]]
  /\ rwLate' = [f \in Filters |-> rwLate[f] \cup {p}]
  /\ rwLeft' = [rwLeft EXCEPT !.faults = @ - 1]
  /\ UNCHANGED <<rwWalk, rwLock, rwReq, rwSignal, rwWorker, rwServed, rwWhole, rwCut>>

(* A cursor nobody moved for a day, or a Redis that is gone: from 0 again. *)
Forgotten(f) ==
  /\ rwLeft.faults > 0 /\ rwLock[f] = None
  /\ rwLeft' = [rwLeft EXCEPT !.faults = @ - 1]
  /\ rwWalk' = [rwWalk EXCEPT ![f] = [origin |-> 0, cursor |-> 0]]
  /\ rwServed' = [rwServed EXCEPT ![f] = [p \in RWPosts |-> 0]]
  /\ rwWhole' = [rwWhole EXCEPT ![f] = FALSE] /\ rwCut' = [rwCut EXCEPT ![f] = FALSE]
  /\ rwLate' = [rwLate EXCEPT ![f] = {}]
  /\ UNCHANGED <<rwKey, rwLock, rwReq, rwSignal, rwWorker>>

RWInit ==
  /\ \E late \in {{}, {CHOOSE p \in RWPosts : TRUE}} :
       rwKey \in {k \in [RWPosts \ late -> ShuffleKeys] : IsInjective(k)}
  /\ rwWalk = [f \in Filters |-> [origin |-> 0, cursor |-> 0]]
  /\ rwLock = [f \in Filters |-> None] /\ rwReq = [r \in RWRequests |-> NoWalk]
  /\ rwSignal = FALSE /\ rwWorker = "waits"
  /\ rwServed = [f \in Filters |-> [p \in RWPosts |-> 0]]
  /\ rwWhole = [f \in Filters |-> FALSE] /\ rwLate = [f \in Filters |-> {}]
  /\ rwCut = [f \in Filters |-> FALSE]
  /\ rwLeft = [asks |-> RWAsks, faults |-> RWFaults]

RWNext ==
  \/ \E r \in RWRequests : \/ \E q \in RWQueries : Ask(r, q)
                           \/ Enter(r) \/ Upper(r) \/ Lower(r)
  \/ \E p \in RWPosts : Archived(p)
  \/ \E f \in Filters : Forgotten(f)
  \/ Wake \/ Reshuffle
RWSpec == RWInit /\ [][RWNext]_rwVars

-----------------------------------------------------------------------------
(* A sweep the keys and the cursor were not taken from hands out no post     *)
(* twice, whoever asks and however the pages fall over the turn at the top,  *)
(* and when it says it is over it has handed out every matching post that    *)
(* was there when it began (handler/random.go randomWalk, store/post.go      *)
(* RandomWalk).                                                              *)
SweepExact ==
  \A f \in Filters : \A p \in DOMAIN rwKey :
    ~rwCut[f] => /\ rwServed[f][p] < 2
                 /\ (rwWhole[f] /\ RWKind[p] \in f[1] /\ p \notin rwLate[f])
                      => rwServed[f][p] = 1

(* What every step keeps.  The keys a sweep has passed are those from its    *)
(* origin to its cursor, over the top if need be; posts it handed out are   *)
(* among them and the others are late; a post that is not archived yet was   *)
(* not handed out.                                                          *)
Passed(w, k) == IF w.cursor >= w.origin THEN w.origin < k /\ k <= w.cursor
                ELSE w.origin < k \/ k <= w.cursor
SweepsSoFar ==
  \A f \in Filters :
    /\ \A p \in RWPosts \ DOMAIN rwKey : rwServed[f][p] = 0
    /\ \A p \in DOMAIN rwKey : ~rwCut[f] /\ ~rwWhole[f] =>
         LET in == RWKind[p] \in f[1] /\ Passed(rwWalk[f], rwKey[p])
         IN  /\ rwServed[f][p] = 1 => in
             /\ in /\ p \notin rwLate[f] => rwServed[f][p] = 1

(* Who is in a walk holds its lock and knows its cursor; who has turned at   *)
(* the top holds what was left there, less than a page.                     *)
Turned(r, f) ==
  LET in(p) == RWKind[p] \in f[1] /\ rwReq[r].walk.cursor < rwKey[p]
  IN  /\ rwReq[r].walk.origin > 0 /\ rwReq[r].walk.cursor >= rwReq[r].walk.origin
      /\ Cardinality(rwReq[r].got) < rwReq[r].stages[1].n
      /\ ~rwCut[f] => /\ \A p \in rwReq[r].got : in(p)
                      /\ \A p \in DOMAIN rwKey \ rwLate[f] : in(p) => p \in rwReq[r].got
Walking(r) ==
  rwReq[r].walk # None =>
    /\ rwReq[r].stages # << >>
    /\ LET f == Filter(rwReq[r].stages[1])
       IN  /\ rwLock[f] = r /\ rwReq[r].walk = rwWalk[f] /\ ~rwWhole[f]
           /\ rwReq[r].got \subseteq DOMAIN rwKey
           /\ \/ rwReq[r].low = rwReq[r].walk.cursor /\ rwReq[r].got = {}
              \/ rwReq[r].low = -1 /\ Turned(r, f)
WalksKept == RWTypeOK /\ SweepExact /\ SweepsSoFar /\ \A r \in RWRequests : Walking(r)
=============================================================================
