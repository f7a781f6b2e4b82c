--------------------------- MODULE BandwidthGate ---------------------------
(***************************************************************************)
(* The bottleneck of every download from the CDN (media/prio.go,           *)
(* media/bwlimit.go): writers register with a priority and write chunk by  *)
(* chunk; before each chunk a writer waits until nobody registered is      *)
(* better, then takes its bytes from a token bucket.  A waiter parks on    *)
(* the gate's channel, which each registration and each release closes and *)
(* replaces.                                                               *)
(*                                                                         *)
(* A channel is its number.  The clock of the bucket ticks; tokens are     *)
(* counted in halves, since a grant is cut to whole tokens.                *)
(***************************************************************************)
EXTENDS Integers, FiniteSets

CONSTANTS
  BGWriters,
  BGPriority,  \* priority of each writer: [long, gen, kind] (audio 0, video 1)
  BGChunks,    \* chunks a writer has to write
  BGWant,      \* tokens of a chunk
  BGRate,      \* half tokens a tick (cdnBandwidthLimit)
  BGCapacity,  \* half tokens the bucket holds (cdnBurstCapacity)
  BGClock      \* bound on the clock

VARIABLES
  bgEntries,   \* writers registered with the gate
  bgChannel,   \* the gate's current channel
  bgWriter,    \* [at, left, seen, need] of each writer
  bgBucket,    \* [tokens, last] of the bucket
  bgNow,
  bgDebt       \* half tokens granted beyond what the rate has paid since
bgVars == <<bgEntries, bgChannel, bgWriter, bgBucket, bgNow, bgDebt>>

(* A generation counts up from 0; sound is kind 0, all else 1. *)
ASSUME BGAssumption ==
  /\ BGPriority \in [BGWriters -> [long : BOOLEAN, gen : Nat, kind : {0, 1}]]
  /\ BGChunks \in Nat \ {0} /\ BGWant \in Nat /\ BGRate \in Nat /\ BGCapacity \in Nat

BGInit == /\ bgEntries = {} /\ bgChannel = 0 /\ bgNow = 0 /\ bgDebt = 0
          /\ bgWriter = [w \in BGWriters |-> [at |-> "new", left |-> BGChunks, seen |-> 0, need |-> 0]]
          /\ bgBucket = [tokens |-> BGCapacity, last |-> 0]

W(w) == bgWriter[w]
SetW(w, r) == bgWriter' = [bgWriter EXCEPT ![w] = r]
Stop(w) == SetW(w, [W(w) EXCEPT !.at = "ending"])
bucket == <<bgBucket, bgNow, bgDebt>>

\* Priority.better: short before long, then the newer, then sound.
Better(a, b) == LET p == BGPriority[a]  q == BGPriority[b]
                IN  \/ ~p.long /\ q.long
                    \/ p.long = q.long /\ p.gen > q.gen
                    \/ p.long = q.long /\ p.gen = q.gen /\ p.kind < q.kind
\* snapshot: is somebody registered better than w?
Outranked(w) == \E v \in bgEntries : Better(v, w)

(***************************************************************************)
(* The gate.                                                               *)
(***************************************************************************)
Register(w) == /\ W(w).at = "new"
               /\ bgEntries' = bgEntries \cup {w}
               /\ bgChannel' = bgChannel + 1
               /\ SetW(w, [W(w) EXCEPT !.at = "gate"])
               /\ UNCHANGED bucket

\* wait: a look at the entries and the channel under one lock, then on or park.
Wait(w) == /\ W(w).at = "gate"
           /\ SetW(w, IF Outranked(w) THEN [W(w) EXCEPT !.at = "parked", !.seen = bgChannel]
                      ELSE [W(w) EXCEPT !.at = "take", !.need = BGWant])
           /\ UNCHANGED <<bgEntries, bgChannel, bucket>>

\* The channel the writer parked on is closed.
Wake(w) == /\ W(w).at = "parked" /\ W(w).seen # bgChannel
           /\ SetW(w, [W(w) EXCEPT !.at = "gate"])
           /\ UNCHANGED <<bgEntries, bgChannel, bucket>>

\* release, deferred by every download.
Unregister(w) == /\ W(w).at = "ending"
                 /\ bgEntries' = bgEntries \ {w}
                 /\ bgChannel' = bgChannel + 1
                 /\ SetW(w, [W(w) EXCEPT !.at = "gone"])
                 /\ UNCHANGED bucket

(***************************************************************************)
(* The bucket.                                                             *)
(***************************************************************************)

Refill(b) == LET t == b.tokens + (bgNow - b.last) * BGRate
             IN  IF t > BGCapacity THEN BGCapacity ELSE t

\* reserve: all that is there, up to what is wanted, if there is a whole token;
\* the bucket pays for the half token the writer is not told of.
Take(b, want) == IF Refill(b) < 2 THEN 0 ELSE IF 2 * want > Refill(b) THEN Refill(b) ELSE 2 * want
Told(taken) == taken \div 2

\* One round of waitN.  The chunk is written when nothing is left to take.
Reserve(w) ==
    /\ W(w).at = "take"
    /\ LET got == Take(bgBucket, W(w).need)
           need == W(w).need - Told(got)
       IN  /\ got > 0
           /\ bgBucket' = [tokens |-> Refill(bgBucket) - got, last |-> bgNow]
           /\ bgDebt' = bgDebt + got
           /\ SetW(w, [W(w) EXCEPT !.need = need, !.at = IF need = 0 THEN "write" ELSE "take"])
    /\ UNCHANGED <<bgEntries, bgChannel, bgNow>>

Tick == /\ bgNow < BGClock
        /\ bgNow' = bgNow + 1
        /\ bgDebt' = IF bgDebt > BGRate THEN bgDebt - BGRate ELSE 0
        /\ UNCHANGED <<bgEntries, bgChannel, bgWriter, bgBucket>>

(***************************************************************************)
(* The writer.                                                             *)
(***************************************************************************)

\* Write: the next slice begins at the gate again.
Write(w) == /\ W(w).at = "write"
            /\ SetW(w, [W(w) EXCEPT !.left = @ - 1, !.at = IF W(w).left = 1 THEN "ending" ELSE "read"])
            /\ UNCHANGED <<bgEntries, bgChannel, bucket>>

\* The upstream sends the next bytes, while the writer stays registered.
Read(w) == /\ W(w).at = "read"
           /\ SetW(w, [W(w) EXCEPT !.at = "gate"])
           /\ UNCHANGED <<bgEntries, bgChannel, bucket>>

\* Mutant: a read that stalls has no ceiling.
CancelNoRead(w) == /\ W(w).at \in {"parked", "take"}
                   /\ Stop(w)
                   /\ UNCHANGED <<bgEntries, bgChannel, bucket>>

\* The request is cancelled, or its ceiling of three minutes is reached: a stalled
\* read and every wait end.
Cancel(w) == /\ W(w).at \in {"read", "parked", "take"}
             /\ Stop(w)
             /\ UNCHANGED <<bgEntries, bgChannel, bucket>>

Run(w) == Wait(w) \/ Wake(w) \/ Write(w) \/ Unregister(w)
BGNext == Tick \/ \E w \in BGWriters : Register(w) \/ Reserve(w) \/ Read(w) \/ Cancel(w) \/ Run(w)

\* A stalled upstream need never send: a read that stays ends by its ceiling, and
\* so does a wait for tokens.  A parked writer is promised nothing.
Advance(w) == Run(w) \/ Reserve(w) \/ (W(w).at \in {"read", "take"} /\ Cancel(w))
BGFair == \A w \in BGWriters : WF_bgVars(Advance(w))
BGSpec == BGInit /\ [][BGNext]_bgVars /\ BGFair

Places == {"new", "gate", "parked", "take", "write", "read", "ending", "gone"}
BGTypeOK == /\ bgEntries \subseteq BGWriters /\ IsFiniteSet(bgEntries)
            /\ bgChannel \in Nat /\ bgNow \in Nat /\ bgDebt \in Nat
            /\ bgWriter \in [BGWriters -> [at : Places, left : 0 .. BGChunks, seen : Nat, need : Nat]]
            /\ bgBucket \in [tokens : 0 .. BGCapacity, last : Nat]

(***************************************************************************)
(* Properties.                                                             *)
(***************************************************************************)

\* Parked, on a channel that nobody has closed.
Asleep(w) == W(w).at = "parked" /\ W(w).seen = bgChannel

\* NobodyForgotten: a writer that stays parked is outranked by somebody who is
\* registered: no registration and no release between its look and its parking
\* is lost on it.  (prio.go wait, register, unregister)
NobodyForgotten == \A w \in BGWriters : Asleep(w) => Outranked(w)

\* SomebodyMoves: the gate holds up no download for nothing: of those that are
\* registered one is not asleep, the best of them.  (prio.go better, wait)
SomebodyMoves == bgEntries # {} => \E w \in bgEntries : ~Asleep(w)

\* BurstHeld: over any stretch of time the bucket grants no more than the rate
\* allows and one burst.  (bwlimit.go reserve)
BurstHeld == bgDebt <= BGCapacity

\* What every step keeps: a writer is registered until it is gone, its channel is
\* none of the future, and what was granted and not yet paid for, with what is
\* there to be granted, is one burst at most.
GateKept ==
    /\ BGTypeOK
    /\ bgEntries = {w \in BGWriters : W(w).at \notin {"new", "gone"}}
    /\ \A w \in BGWriters : /\ W(w).seen <= bgChannel
                            /\ W(w).at \notin {"ending", "gone"} => W(w).left > 0
    /\ bgBucket.last <= bgNow
    /\ bgDebt + Refill(bgBucket) <= BGCapacity
    /\ NobodyForgotten

\* GateDrains: whoever registers is gone in the end, also behind a better writer
\* whose upstream stalls, since that one's time runs out; and on the way nobody
\* is forgotten, somebody moves and the burst is held.  (prio.go wait,
\* bwlimit.go Write)
GateDrains ==
    /\ [](NobodyForgotten /\ SomebodyMoves /\ BurstHeld)
    /\ \A w \in BGWriters : []<>(W(w).at \in {"new", "gone"})
=============================================================================
