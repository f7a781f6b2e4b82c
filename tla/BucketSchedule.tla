--------------------------- MODULE BucketSchedule ---------------------------
(***************************************************************************)
(* prefetch/scheduler.go: the coordinator and the loop of one timeframe    *)
(* bucket.  A round fetches one listing page of every subreddit of the     *)
(* bucket, in a random order with gaps; the time of the next round and the *)
(* cursor of every listing are persisted, so that a restart or a change of *)
(* the settings takes them up.                                             *)
(*                                                                         *)
(* Times are kept as what is left of them: bsRun.due and bsSaved.due are   *)
(* the scheduled time minus now, and no less than -BSLate, which stands    *)
(* for every longer delay.  Page n of a listing is asked for with cursor   *)
(* n - 1; the cursor 0 is no cursor.  The map of exhausted listings is     *)
(* left out: a round meets a listing once, and no one loads it again.      *)
(***************************************************************************)
EXTENDS Integers, Sequences, FiniteSets, NoneValue

CONSTANTS BSSubs,       \* subreddits
          BSPages,      \* pages a listing has
          BSPeriods,    \* what the jittered base period may come to
          BSOffsets,    \* first offsets of a fresh bucket
          BSGap,        \* the least gap between two subreddits
          BSLate,       \* a bound: as late as it matters
          BSStops       \* a bound: crashes and changes of the crawl list

ASSUME BSAssumption ==
  /\ BSOffsets \subseteq Int /\ BSPeriods \subseteq Int /\ BSPages \in Nat \ {0}
  /\ BSGap \in Nat /\ BSLate \in Nat /\ BSStops \in Nat
  /\ IsFiniteSet(BSSubs) /\ None \notin Int

VARIABLES bsConf,       \* the bucket's part of the crawl list
          bsRun,        \* the loop: where it is and what it holds
          bsSaved,      \* its persisted state
          bsTurn,       \* ghost: the subreddit whose turn came last
          bsStops       \* what is left of BSStops
bsVars == <<bsConf, bsRun, bsSaved, bsTurn, bsStops>>

Later(t) == IF t > 0 - BSLate THEN t - 1 ELSE t

Off == [pc |-> "off", subs |-> {}, due |-> 0, period |-> 0, left |-> {},
        cursor |-> [s \in BSSubs |-> 0], sleep |-> 0]

RunType == [pc : {"off", "wait", "turn", "gap", "l5"}, subs : SUBSET BSSubs, due : Int,
            period : Int, left : SUBSET BSSubs, cursor : [BSSubs -> 0 .. BSPages - 1],
            sleep : Int]
SavedType == [due : Int \cup {None}, cursor : [BSSubs -> 0 .. BSPages - 1]]
BSTypeOK ==
  /\ bsConf \subseteq BSSubs /\ bsStops \in 0 .. BSStops /\ bsTurn \in BSSubs \cup {None}
  /\ bsRun \in RunType /\ bsRun.left \subseteq bsRun.subs
  /\ bsSaved \in SavedType

-----------------------------------------------------------------------------
(* The times of a round. *)

(* No period is so short that its turns, a gap apart, do not fit in it. *)
CyclePeriod(n) == {IF p < n * BSGap THEN n * BSGap ELSE p : p \in BSPeriods}

(* A turn's share of the period, and a gap at the least. *)
SubGap(period, n) == IF period \div n < BSGap THEN BSGap ELSE period \div n

(* The anchor moves by one period, or to a period from now when it is past. *)
NextAnchor(due, period) == IF due + period < 0 THEN period ELSE due + period

PruneCursors(cursor, subs) == [s \in BSSubs |-> IF s \in subs THEN cursor[s] ELSE 0]

SaveBucketState(due, cursor) == bsSaved' = [due |-> due, cursor |-> cursor]

\* Mutant: a loop that starts schedules its first round a period from now.
AnchorAfresh == BSPeriods
(* The persisted time as it is; a fresh bucket rolls an offset. *)
Anchor == IF bsSaved.due # None THEN {bsSaved.due} ELSE BSOffsets

-----------------------------------------------------------------------------
(* The coordinator starts the loop of a bucket that has members ... *)
Launch ==
  /\ bsRun.pc = "off" /\ bsConf # {}
  /\ \E due \in Anchor :
       LET cursor == PruneCursors(bsSaved.cursor, bsConf)
       IN  /\ bsRun' = [Off EXCEPT !.pc = "wait", !.subs = bsConf, !.due = due,
                                   !.cursor = cursor]
           /\ IF bsSaved.due = None THEN SaveBucketState(due, cursor) ELSE UNCHANGED bsSaved
  /\ UNCHANGED <<bsConf, bsTurn, bsStops>>

(* ... and stops it when the list is another, or empty. *)
StopBuckets ==
  /\ bsRun.pc # "off" /\ bsRun.subs # bsConf
  /\ bsRun' = Off
  /\ UNCHANGED <<bsConf, bsSaved, bsTurn, bsStops>>

(* The scheduled time has come: a period is rolled and the order shuffled. *)
StartRound ==
  /\ bsRun.pc = "wait" /\ bsConf # {} /\ bsRun.due <= 0
  /\ \E p \in CyclePeriod(Cardinality(bsRun.subs)) :
       bsRun' = [bsRun EXCEPT !.pc = "turn", !.period = p, !.left = bsRun.subs]
  /\ UNCHANGED <<bsConf, bsSaved, bsTurn, bsStops>>

-----------------------------------------------------------------------------
(* runOneSubFetch: the page after the cursor; after the last page the next   *)
(* round begins at the head.  A fetch that is refused, meets an outage or    *)
(* gets no token leaves the cursor.                                          *)
CursorAfter(s, result) ==
  IF result = "page" THEN [bsRun.cursor EXCEPT ![s] = (@ + 1) % BSPages] ELSE bsRun.cursor

(* Who is still to come in this round. *)
\* Mutant: a fetch that fails ends the round.
LeftGivesUp(s, result) == IF result = "page" THEN bsRun.left \ {s} ELSE {}
Left(s, result) == bsRun.left \ {s}

(* The turn of s: its cursor is saved, under the anchor of this round still, *)
(* and the next turn is a gap away.                                          *)
Turn(s, result) ==
  LET left == Left(s, result)
  IN  /\ bsRun.pc = "turn" /\ s \in bsRun.left
      /\ bsRun' = [bsRun EXCEPT !.left = left, !.cursor = CursorAfter(s, result),
                                !.pc = IF left = {} THEN "l5" ELSE "gap",
                                !.sleep = IF left = {} THEN 0
                                          ELSE SubGap(bsRun.period, Cardinality(bsRun.subs))]
      /\ SaveBucketState(bsRun.due, CursorAfter(s, result))
      /\ bsTurn' = s
      /\ UNCHANGED <<bsConf, bsStops>>

NextTurn ==
  /\ bsRun.pc = "gap" /\ bsRun.sleep <= 0
  /\ bsRun' = [bsRun EXCEPT !.pc = "turn"]
  /\ UNCHANGED <<bsConf, bsSaved, bsTurn, bsStops>>

(* L5 has been drained: only now does the anchor move. *)
EndRound ==
  /\ bsRun.pc = "l5"
  /\ bsRun' = [bsRun EXCEPT !.pc = "wait", !.due = NextAnchor(@, bsRun.period)]
  /\ SaveBucketState(bsRun'.due, bsRun.cursor)
  /\ UNCHANGED <<bsConf, bsTurn, bsStops>>

-----------------------------------------------------------------------------
(* Around the loop: time, a crash, another crawl list. *)
TimePasses ==
  /\ bsRun' = [bsRun EXCEPT !.due = Later(@), !.sleep = IF @ > 0 THEN @ - 1 ELSE @]
  /\ bsSaved' = [bsSaved EXCEPT !.due = IF @ = None THEN @ ELSE Later(@)]
  /\ UNCHANGED <<bsConf, bsTurn, bsStops>>

Crash ==
  /\ bsStops > 0 /\ bsStops' = bsStops - 1
  /\ bsRun.pc # "off" /\ bsRun' = Off
  /\ UNCHANGED <<bsConf, bsSaved, bsTurn>>

Reconfigure(subs) ==
  /\ bsStops > 0 /\ bsStops' = bsStops - 1
  /\ subs # bsConf /\ bsConf' = subs
  /\ UNCHANGED <<bsRun, bsSaved, bsTurn>>

BSInit ==
  /\ bsConf = BSSubs /\ bsRun = Off
  /\ bsSaved = [due |-> None, cursor |-> [s \in BSSubs |-> 0]]
  /\ bsTurn = None /\ bsStops = BSStops

Turns == \E s \in BSSubs : \E result \in {"page", "failed"} : Turn(s, result)
BSNext ==
  \/ Launch \/ StopBuckets \/ StartRound \/ Turns \/ NextTurn \/ EndRound
  \/ TimePasses \/ Crash
  \/ \E subs \in SUBSET BSSubs : Reconfigure(subs)
BSSpec == BSInit /\ [][BSNext]_bsVars

(* The loop is a goroutine: it goes on when it can, and time passes. *)
BSFair == /\ WF_bsVars(Launch) /\ WF_bsVars(StopBuckets) /\ WF_bsVars(StartRound)
          /\ WF_bsVars(Turns) /\ WF_bsVars(NextTurn) /\ WF_bsVars(EndRound) /\ WF_bsVars(TimePasses)

-----------------------------------------------------------------------------
(* A loop that runs waits for the persisted time: both move at once.        *)
Anchored == BSTypeOK /\ (bsRun.pc # "off" => bsSaved.due = bsRun.due)

(* Whatever the bucket went through before, a crash in the middle of a      *)
(* round, an overdue schedule, another list, a subreddit that stays on the  *)
(* list has its turn again and again (scheduler.go bucketLoop, whose        *)
(* comment tells of the restarts after which the fetch never came).         *)
EverybodysTurn ==
  \A s \in BSSubs : <>[](s \in bsConf) => []<>(bsTurn = s)

(* A restart does not put a round off: the time a bucket has persisted is   *)
(* replaced only when a round has given all its turns, and a loop that has  *)
(* just begun waits for that time and no other.                             *)
AnchorKept ==
  [][ /\ (bsRun.pc = "off" /\ bsRun'.pc = "wait" /\ bsSaved.due # None)
           => bsRun'.due = bsSaved.due
      /\ (bsSaved.due # None /\ bsSaved'.due > bsSaved.due) => bsRun.pc = "l5" ]_bsVars
=============================================================================
