---------------------------- MODULE MediaProofs -----------------------------
(***************************************************************************)
(* How the bytes of a file come in and go out. Single flight for every set *)
(* of callers and URLs: one leader per URL, and nobody waits for a leader  *)
(* that is gone. A ranged answer holds the bytes it was asked for, each in *)
(* its place, for every size of the file and every way the parts fail. And *)
(* the gate of the downloads forgets nobody, for every number of writers   *)
(* and priorities. Last, a muxed file: the player that follows its tables  *)
(* finds every sample of both sources, for every sequence of fragments     *)
(* they came in.                                                           *)
(***************************************************************************)
EXTENDS MediaFetch, RangedStream, BandwidthGate, MuxedFile, SequenceTheorems, FiniteSetTheorems,
        WellFoundedInduction, TLAPS

-----------------------------------------------------------------------------
(* MediaFetch: single flight.                                              *)

\* Every step keeps every variable's type.
LEMMA TypeStep ==
    ASSUME TypeOK, [Next]_vars
    PROVE  TypeOK'
<1> USE CanonAssumption, SlotsAssumption
    DEF TypeOK, Row, NoRow, At, Goto, Answer, Key, Idle, Checking, Leading, Mapped, Fetching
<1>1. ASSUME NEW c \in Callers, NEW u \in Urls, Request(c, u) PROVE TypeOK'
  <2> DEFINE r == [pc |-> "memo", url |-> u, leader |-> Nobody]
             Shape == [pc : {"idle", "wait"} \union Checking \union Leading,
                   url : Urls \union {Nobody}, leader : Callers \union {Nobody}]
  <2>1. r \in Shape /\ r.url \in Urls  OBVIOUS
  <2>2. caller' = [caller EXCEPT ![c] = r] /\ UNCHANGED <<inflight, cached, perm, ledger>>
    BY <1>1 DEF Request
  <2>3. caller \in [Callers -> Shape]  OBVIOUS
  <2> HIDE DEF r, Shape
  <2>4. caller' \in [Callers -> Shape]  BY <2>1, <2>2, <2>3
  <2>5. caller'[c] = r /\ \A d \in Callers \ {c} : caller'[d] = caller[d]  BY <2>2, <2>3
  <2>6. \A d \in Callers : caller'[d].pc # "idle" => caller'[d].url \in Urls  BY <2>1, <2>5
  <2>q. QED BY <2>2, <2>4, <2>6 DEF Shape
<1>2. ASSUME NEW c \in Callers, CheckMemo(c) PROVE TypeOK'
  <2>1. UNCHANGED <<inflight, cached, perm, ledger>>  BY <1>2 DEF CheckMemo
  <2>2. CASE Goto(c, "ledger")  BY <1>2, <2>1, <2>2 DEF CheckMemo
  <2>3. CASE Answer(c)  BY <2>1, <2>3
  <2>q. QED BY <1>2, <2>2, <2>3 DEF CheckMemo
<1>3. ASSUME NEW c \in Callers, CheckLedger(c) PROVE TypeOK'
  <2>1. UNCHANGED <<inflight, cached, perm, ledger>>  BY <1>3 DEF CheckLedger
  <2>2. CASE Goto(c, "join")  BY <1>3, <2>1, <2>2 DEF CheckLedger
  <2>3. CASE Answer(c)  BY <2>1, <2>3
  <2>q. QED BY <1>3, <2>2, <2>3 DEF CheckLedger
<1>4. ASSUME NEW c \in Callers, Join(c) PROVE TypeOK'
  BY <1>4 DEF Join
<1>5. ASSUME NEW c \in Callers, Recheck(c) PROVE TypeOK'
  BY <1>5 DEF Recheck
<1>6. ASSUME NEW c \in Callers, NEW o \in Outcomes, Download(c, o) PROVE TypeOK'
  BY <1>6 DEF Download
<1>7. ASSUME NEW c \in Callers, RecordFailure(c) PROVE TypeOK'
  BY <1>7 DEF RecordFailure, Struck, Capped
<1>8. ASSUME NEW c \in Callers, Unmap(c) PROVE TypeOK'
  BY <1>8 DEF Unmap
<1>9. ASSUME NEW c \in Callers, Close(c) PROVE TypeOK'
  BY <1>9 DEF Close, Waiters
<1>10. ASSUME NEW c \in Callers, AcquireSlot(c) PROVE TypeOK'
  BY <1>10 DEF AcquireSlot
<1>11. ASSUME NEW c \in Callers, WaiterLeaves(c) PROVE TypeOK'
  BY <1>11 DEF WaiterLeaves
<1>12. ASSUME NEW k \in Keys, Revive(k) PROVE TypeOK'
  BY <1>12 DEF Revive
<1>13. ASSUME NEW k \in Keys, Evicted(k) PROVE TypeOK'
  BY <1>13 DEF Evicted
<1>14. ASSUME NEW u \in Urls, MemoExpires(u) PROVE TypeOK'
  BY <1>14 DEF MemoExpires
<1>15. CASE Restart
  BY <1>15 DEF Restart
<1>16. CASE UNCHANGED vars
  BY <1>16 DEF vars
<1>q. QED
  BY <1>1, <1>2, <1>3, <1>4, <1>5, <1>6, <1>7, <1>8, <1>9, <1>10, <1>11, <1>12, <1>13, <1>14, <1>15, <1>16
     DEF Next, CallerSteps

\* A URL is mapped only when it was not, and unmapped by its own leader.
LEMMA LeaderStep ==
    ASSUME FlightInv, [Next]_vars
    PROVE  OneLeader'
<1> USE NobodyAssumption
    DEF FlightInv, TypeOK, OneLeader, At, Goto, Answer, Idle, Checking, Leading, Mapped, Fetching
<1>1. ASSUME NEW c \in Callers, NEW u \in Urls, Request(c, u) PROVE OneLeader'
  BY <1>1 DEF Request
<1>2. ASSUME NEW c \in Callers, CheckMemo(c) PROVE OneLeader'
  BY <1>2 DEF CheckMemo
<1>3. ASSUME NEW c \in Callers, CheckLedger(c) PROVE OneLeader'
  BY <1>3 DEF CheckLedger
<1>4. ASSUME NEW c \in Callers, Join(c) PROVE OneLeader'
  BY <1>4 DEF Join
<1>5. ASSUME NEW c \in Callers, Recheck(c) PROVE OneLeader'
  BY <1>5 DEF Recheck
<1>6. ASSUME NEW c \in Callers, NEW o \in Outcomes, Download(c, o) PROVE OneLeader'
  BY <1>6 DEF Download
<1>7. ASSUME NEW c \in Callers, RecordFailure(c) PROVE OneLeader'
  BY <1>7 DEF RecordFailure, Struck, Capped
<1>8. ASSUME NEW c \in Callers, Unmap(c) PROVE OneLeader'
  BY <1>8 DEF Unmap
<1>9. ASSUME NEW c \in Callers, Close(c) PROVE OneLeader'
  BY <1>9 DEF Close, Waiters
<1>10. ASSUME NEW c \in Callers, AcquireSlot(c) PROVE OneLeader'
  BY <1>10 DEF AcquireSlot
<1>11. ASSUME NEW c \in Callers, WaiterLeaves(c) PROVE OneLeader'
  BY <1>11 DEF WaiterLeaves
<1>12. ASSUME NEW k \in Keys, Revive(k) PROVE OneLeader'
  BY <1>12 DEF Revive
<1>13. ASSUME NEW k \in Keys, Evicted(k) PROVE OneLeader'
  BY <1>13 DEF Evicted
<1>14. ASSUME NEW u \in Urls, MemoExpires(u) PROVE OneLeader'
  BY <1>14 DEF MemoExpires
<1>15. CASE Restart
  BY <1>15 DEF Restart
<1>16. CASE UNCHANGED vars
  BY <1>16 DEF vars
<1>q. QED
  BY <1>1, <1>2, <1>3, <1>4, <1>5, <1>6, <1>7, <1>8, <1>9, <1>10, <1>11, <1>12, <1>13, <1>14, <1>15, <1>16
     DEF Next, CallerSteps

\* A leader leaves only in Close, which takes its waiters along.
LEMMA WaitStep ==
    ASSUME FlightInv, [Next]_vars
    PROVE  WaitsForLeader'
<1> USE NobodyAssumption
    DEF FlightInv, TypeOK, OneLeader, WaitsForLeader, At, Goto, Answer, Idle, Checking, Leading, Mapped, Fetching
<1>1. ASSUME NEW c \in Callers, NEW u \in Urls, Request(c, u) PROVE WaitsForLeader'
  BY <1>1 DEF Request
<1>2. ASSUME NEW c \in Callers, CheckMemo(c) PROVE WaitsForLeader'
  BY <1>2 DEF CheckMemo
<1>3. ASSUME NEW c \in Callers, CheckLedger(c) PROVE WaitsForLeader'
  BY <1>3 DEF CheckLedger
<1>4. ASSUME NEW c \in Callers, Join(c) PROVE WaitsForLeader'
  BY <1>4 DEF Join
<1>5. ASSUME NEW c \in Callers, Recheck(c) PROVE WaitsForLeader'
  BY <1>5 DEF Recheck
<1>6. ASSUME NEW c \in Callers, NEW o \in Outcomes, Download(c, o) PROVE WaitsForLeader'
  BY <1>6 DEF Download
<1>7. ASSUME NEW c \in Callers, RecordFailure(c) PROVE WaitsForLeader'
  BY <1>7 DEF RecordFailure, Struck, Capped
<1>8. ASSUME NEW c \in Callers, Unmap(c) PROVE WaitsForLeader'
  BY <1>8 DEF Unmap
<1>9. ASSUME NEW c \in Callers, Close(c) PROVE WaitsForLeader'
  BY <1>9 DEF Close, Waiters
<1>10. ASSUME NEW c \in Callers, AcquireSlot(c) PROVE WaitsForLeader'
  BY <1>10 DEF AcquireSlot
<1>11. ASSUME NEW c \in Callers, WaiterLeaves(c) PROVE WaitsForLeader'
  BY <1>11 DEF WaiterLeaves
<1>12. ASSUME NEW k \in Keys, Revive(k) PROVE WaitsForLeader'
  BY <1>12 DEF Revive
<1>13. ASSUME NEW k \in Keys, Evicted(k) PROVE WaitsForLeader'
  BY <1>13 DEF Evicted
<1>14. ASSUME NEW u \in Urls, MemoExpires(u) PROVE WaitsForLeader'
  BY <1>14 DEF MemoExpires
<1>15. CASE Restart
  BY <1>15 DEF Restart
<1>16. CASE UNCHANGED vars
  BY <1>16 DEF vars
<1>q. QED
  BY <1>1, <1>2, <1>3, <1>4, <1>5, <1>6, <1>7, <1>8, <1>9, <1>10, <1>11, <1>12, <1>13, <1>14, <1>15, <1>16
     DEF Next, CallerSteps

\* The invariant of single flight, in every reachable state.
THEOREM SingleFlight == Spec => []FlightInv
<1>1. Init => FlightInv
  BY SlotsAssumption, NobodyAssumption
     DEF Init, FlightInv, TypeOK, OneLeader, WaitsForLeader, Row, NoRow, Idle, Checking, Leading, Mapped, Fetching
<1>2. FlightInv /\ [Next]_vars => FlightInv'
  BY TypeStep, LeaderStep, WaitStep DEF FlightInv
<1>3. QED
  BY <1>1, <1>2, PTL DEF Spec

\* Every raw URL has at most one download, and its leader will unmap it.
THEOREM OneLeaderPerUrl == Spec => []OneLeader
  BY SingleFlight, PTL DEF FlightInv

\* No caller waits for a download that has already been closed.
THEOREM NoLostWaiter == Spec => []WaitsForLeader
  BY SingleFlight, PTL DEF FlightInv

-----------------------------------------------------------------------------
(* RangedStream: the bytes of a ranged answer.                             *)

\* The bytes from the first to the one before the last.
LEMMA RangeIs ==
  ASSUME NEW from \in Nat, NEW upto \in Nat
  PROVE  /\ GetRange(from, upto) \in Seq(Nat)
         /\ Len(GetRange(from, upto)) = (IF upto > from THEN upto - from ELSE 0)
         /\ \A i \in 1 .. Len(GetRange(from, upto)) : GetRange(from, upto)[i] = from + i - 1
<1> DEFINE n == IF upto > from THEN upto - from ELSE 0
<1>1. GetRange(from, upto) = [i \in 1 .. n |-> from + i - 1]
  BY DEF GetRange
<1>2. n \in Nat
  OBVIOUS
<1> HIDE DEF n
<1>3. [i \in 1 .. n |-> from + i - 1] \in [1 .. n -> Nat]
  BY <1>2
<1>4. GetRange(from, upto) \in Seq(Nat) /\ Len(GetRange(from, upto)) = n
  BY <1>1, <1>2, <1>3, SeqDef
<1>q. QED
  BY <1>1, <1>2, <1>4 DEF n

\* A body is what the origin has from its first byte on.
LEMMA BodyIs ==
  ASSUME RSTypeOK, NEW offset \in Nat
  PROVE  /\ BodyAt(offset) \in Seq(Nat)
         /\ \A i \in 1 .. Len(BodyAt(offset)) :
              BodyAt(offset)[i] = (IF Whole THEN 0 ELSE offset) + i - 1
         /\ Whole => Len(BodyAt(offset)) = rsOrigin.size
         /\ ~Whole /\ offset < rsOrigin.size =>
              /\ Len(BodyAt(offset)) \in 1 .. RSChunk
              /\ offset + Len(BodyAt(offset)) <= rsOrigin.size
              /\ Len(BodyAt(offset)) < RSChunk => offset + Len(BodyAt(offset)) = rsOrigin.size
<1> USE RSAssumption
<1>2. rsOrigin.size \in Nat
  BY DEF RSTypeOK, Origins
<1>3. CASE Whole
  <2>1. BodyAt(offset) = GetRange(0, rsOrigin.size)
    BY <1>3 DEF BodyAt, Whole
  <2>2. /\ BodyAt(offset) \in Seq(Nat)
        /\ Len(BodyAt(offset)) = (IF rsOrigin.size > 0 THEN rsOrigin.size - 0 ELSE 0)
        /\ \A i \in 1 .. Len(BodyAt(offset)) : BodyAt(offset)[i] = 0 + i - 1
    <3>1. 0 \in Nat
      OBVIOUS
    <3> DEFINE upto == rsOrigin.size
    <3>2. upto \in Nat
      BY <1>2
    <3>3. BodyAt(offset) = GetRange(0, upto)
      BY <2>1
    <3> HIDE DEF upto
    <3>4. /\ GetRange(0, upto) \in Seq(Nat)
          /\ Len(GetRange(0, upto)) = (IF upto > 0 THEN upto - 0 ELSE 0)
          /\ \A i \in 1 .. Len(GetRange(0, upto)) : GetRange(0, upto)[i] = 0 + i - 1
      BY ONLY <3>1, <3>2, RangeIs
    <3> USE DEF upto
    <3>q. QED
      BY ONLY <3>3, <3>4
  <2>3. Len(BodyAt(offset)) = rsOrigin.size
    BY ONLY <1>2, <2>2
  <2>q. QED
    BY ONLY <1>3, <2>2, <2>3
<1>4. CASE ~Whole
  <2> DEFINE upto == IF offset + RSChunk < rsOrigin.size THEN offset + RSChunk ELSE rsOrigin.size
  <2>1. BodyAt(offset) = GetRange(offset, upto)
    BY <1>4 DEF BodyAt, Whole
  <2>2. upto \in Nat
    BY <1>2
  <2>3. ASSUME offset < rsOrigin.size
        PROVE  /\ upto > offset /\ upto - offset \in 1 .. RSChunk /\ upto <= rsOrigin.size
               /\ upto - offset < RSChunk => upto = rsOrigin.size
    BY <1>2, <2>3
  <2> HIDE DEF upto
  <2>4. /\ BodyAt(offset) \in Seq(Nat)
        /\ Len(BodyAt(offset)) = (IF upto > offset THEN upto - offset ELSE 0)
        /\ \A i \in 1 .. Len(BodyAt(offset)) : BodyAt(offset)[i] = offset + i - 1
    <3>1. /\ GetRange(offset, upto) \in Seq(Nat)
          /\ Len(GetRange(offset, upto)) = (IF upto > offset THEN upto - offset ELSE 0)
          /\ \A i \in 1 .. Len(GetRange(offset, upto)) : GetRange(offset, upto)[i] = offset + i - 1
      BY ONLY offset \in Nat, <2>2, RangeIs
    <3>q. QED
      BY ONLY <2>1, <3>1
  <2>5. ASSUME offset < rsOrigin.size
        PROVE  /\ Len(BodyAt(offset)) \in 1 .. RSChunk
               /\ offset + Len(BodyAt(offset)) = upto /\ upto <= rsOrigin.size
               /\ Len(BodyAt(offset)) < RSChunk => upto = rsOrigin.size
    <3>1. Len(BodyAt(offset)) = upto - offset
      BY <2>2, <2>3, <2>4, <2>5
    <3>q. QED
      BY <2>2, <2>3, <2>5, <3>1
  <2>q. QED
    BY <1>4, <2>4, <2>5
<1>q. QED
  BY <1>3, <1>4

\* n bytes of the body at the offset follow the bytes that are there.
LEMMA CopiedInPlace ==
  ASSUME Streamed, Whole => rsGot = <<>>, UNCHANGED rsOrigin,
         NEW n \in 0 .. Len(BodyAt(rsOffset)), Copied(n)
  PROVE  /\ rsGot' \in Seq(Nat) /\ rsOffset' \in Nat /\ rsOffset' = rsOffset + n
         /\ Len(rsGot') = Len(rsGot) + n
         /\ InPlace'
<1> DEFINE body == BodyAt(rsOffset)
           part == SubSeq(body, 1, n)
<1>1. /\ rsGot \in Seq(Nat) /\ Len(rsGot) \in Nat /\ rsOffset \in Nat /\ n \in Nat
      /\ rsGot' = rsGot \o part /\ rsOffset' = rsOffset + n
  BY LenProperties, BodyIs DEF Streamed, RSTypeOK, Copied
<1>2. /\ body \in Seq(Nat) /\ Len(body) \in Nat
      /\ \A i \in 1 .. Len(body) : body[i] = (IF Whole THEN 0 ELSE rsOffset) + i - 1
  BY <1>1, BodyIs, LenProperties DEF Streamed
<1> HIDE DEF body
<1>3. /\ part \in Seq(Nat) /\ Len(part) = n
      /\ \A i \in 1 .. n : part[i] = body[i]
  <2>1. n <= Len(body)
    BY <1>1 DEF body
  <2>2. \A i \in 1 .. n : body[i] \in Nat
    BY <1>1, <1>2, <2>1, ElementOfSeq
  <2>3. /\ SubSeq(body, 1, n) \in Seq(Nat)
        /\ Len(SubSeq(body, 1, n)) = IF 1 <= n THEN n - 1 + 1 ELSE 0
        /\ \A i \in 1 .. n - 1 + 1 : SubSeq(body, 1, n)[i] = body[1 + i - 1]
    BY <1>1, <2>2, SubSeqProperties
  <2>q. QED
    BY <1>1, <2>3
<1> HIDE DEF part
<1>4. /\ rsGot' \in Seq(Nat) /\ Len(rsGot') = Len(rsGot) + n
      /\ \A i \in 1 .. Len(rsGot) + n :
           rsGot'[i] = IF i <= Len(rsGot) THEN rsGot[i] ELSE part[i - Len(rsGot)]
  <2>1. /\ rsGot \o part \in Seq(Nat)
        /\ Len(rsGot \o part) = Len(rsGot) + Len(part)
        /\ \A i \in 1 .. Len(rsGot) + Len(part) : (rsGot \o part)[i] =
                    IF i <= Len(rsGot) THEN rsGot[i] ELSE part[i - Len(rsGot)]
    BY ONLY <1>1, <1>3, ConcatProperties
  <2>q. QED
    BY <1>1, <1>3, <2>1
<1>5. rsOffset' \in Nat /\ Whole' = Whole
  BY <1>1 DEF Whole
<1>6. \A i \in 1 .. Len(rsGot) : rsGot[i] = (IF Whole THEN 0 ELSE rsOffset - Len(rsGot)) + i - 1
  BY DEF Streamed, InPlace, Ahead
<1>7. ASSUME NEW i \in 1 .. Len(rsGot')
      PROVE  rsGot'[i] = (IF Whole THEN 0 ELSE rsOffset' - Len(rsGot')) + i - 1
  <2>1. CASE i <= Len(rsGot)
    BY <1>1, <1>4, <1>6, <2>1
  <2>2. CASE i > Len(rsGot)
    <3>1. /\ i \in Int /\ i - Len(rsGot) \in 1 .. n /\ i - Len(rsGot) \in 1 .. Len(body)
          /\ rsGot'[i] = part[i - Len(rsGot)]
      BY <1>1, <1>2, <1>4, <2>2 DEF body
    <3>2. rsGot'[i] = (IF Whole THEN 0 ELSE rsOffset) + (i - Len(rsGot)) - 1
      BY <1>2, <1>3, <3>1
    <3>3. Whole => Len(rsGot) = 0
      OBVIOUS
    <3>q. QED
      <4>1. Len(rsGot') = Len(rsGot) + n /\ rsOffset' = rsOffset + n
        BY <1>1, <1>4
      <4>2. rsOffset' - Len(rsGot') = rsOffset - Len(rsGot)
        BY ONLY <1>1, <4>1
      <4>3. CASE Whole
        BY ONLY <1>1, <3>1, <3>2, <3>3, <4>3
      <4>4. CASE ~Whole
        <5>1. rsGot'[i] = rsOffset + (i - Len(rsGot)) - 1
          BY ONLY <3>2, <4>4
        <5>2. rsOffset + (i - Len(rsGot)) - 1 = (rsOffset - Len(rsGot)) + i - 1
          BY ONLY <1>1, <3>1
        <5>q. QED
          BY ONLY <4>2, <4>4, <5>1, <5>2
      <4>q. QED
        BY ONLY <4>3, <4>4
  <2>q. QED
    BY <1>1, <1>4, <2>1, <2>2
<1>q. QED
  BY <1>1, <1>4, <1>5, <1>7 DEF InPlace, Ahead

\* Where a call ends, its caller ends too; as if well only when it is told so.
LEMMA ReturnEnds ==
  ASSUME NEW status, NEW ok \in BOOLEAN, Return(status, ok)
  PROVE  rsPc' \in Ends /\ (rsPc' \in {"stored", "sent"} => ok)
  BY DEF Return, Fail, Published, Ends

\* What the type of the state says of its parts, and of the body to come.
LEMMA StreamTypes ==
  ASSUME Streamed
  PROVE  /\ RSTypeOK /\ CallTrue /\ rsOrigin.kind \in {"total", "totalless", "whole"}
         /\ rsOrigin.size \in Nat /\ rsOffset \in Nat /\ rsGot \in Seq(Nat) /\ Len(rsGot) \in Nat
         /\ rsCall \in CallType /\ rsCall.written \in Nat /\ Len(BodyAt(rsOffset)) \in Nat
<1>1. /\ RSTypeOK /\ CallTrue /\ rsOrigin \in Origins /\ rsOffset \in Nat
      /\ rsGot \in Seq(Nat) /\ rsCall \in CallType
  BY DEF Streamed, RSTypeOK
<1>2. rsOrigin.kind \in {"total", "totalless", "whole"} /\ rsOrigin.size \in Nat
  BY <1>1, RSAssumption DEF Origins
<1>3. Len(rsGot) \in Nat
  BY <1>1, LenProperties
<1>4. BodyAt(rsOffset) \in Seq(Nat)
  BY <1>1, BodyIs
<1>5. Len(BodyAt(rsOffset)) \in Nat
  BY <1>4, LenProperties
<1>6. rsCall.written \in Nat
  BY <1>1 DEF CallType
<1>q. QED
  BY <1>1, <1>2, <1>3, <1>5, <1>6

\* The body at the offset of an origin that honours Range.
LEMMA ChunkIs ==
  ASSUME Streamed, ~Whole, rsOffset < rsOrigin.size
  PROVE  /\ Len(BodyAt(rsOffset)) \in 1 .. RSChunk
         /\ rsOffset + Len(BodyAt(rsOffset)) <= rsOrigin.size
         /\ Len(BodyAt(rsOffset)) < RSChunk => rsOffset + Len(BodyAt(rsOffset)) = rsOrigin.size
<1>1. RSTypeOK /\ rsOffset \in Nat
  BY StreamTypes
<1>q. QED
  BY ONLY <1>1, BodyIs, ~Whole, rsOffset < rsOrigin.size

\* An answer of the origin is a body while there are bytes left, and no other.
LEMMA AnswerIs ==
  ASSUME Streamed
  PROVE  /\ StatusAt(rsOffset) \in {200, 206} => StatusAt(rsOffset) = IF Whole THEN 200 ELSE 206
         /\ StatusAt(rsOffset) \in {200, 206} /\ ~Whole => rsOffset < rsOrigin.size
         /\ StatusAt(rsOffset) = 416 => ~Whole /\ rsOffset >= rsOrigin.size
  BY StreamTypes DEF StatusAt, Whole

\* Steps that move no byte.
LEMMA QuietStep ==
  ASSUME Streamed, RSTypeOK', UNCHANGED <<rsOrigin, rsOffset, rsGot, rsPromise>>, CallTrue',
         rsPc' = "open" => rsPc = "open",
         rsPc' = "peek" => rsPc = "peek",
         rsPc' = "body" => /\ rsPc = "open" /\ rsCall'.status # 0
                           /\ ~Whole => rsOffset < rsOrigin.size,
         rsPc' \in {"stored", "sent"} /\ ~rsRefused' =>
           IF Whole THEN Len(rsGot) = rsOrigin.size ELSE rsOffset = rsOrigin.size
  PROVE  Streamed'
<1>1. Whole' = Whole /\ Ahead' = Ahead /\ InPlace'
  BY DEF Streamed, InPlace, Whole, Ahead
<1>2. Whole /\ rsPc' \in {"peek", "open", "body"} => rsGot' = <<>>
  BY DEF Streamed
<1>3. ~Whole' /\ rsGot' # <<>> => rsOffset' <= rsOrigin'.size
  BY <1>1 DEF Streamed
<1>4. rsPromise' # Unknown => rsOrigin'.kind = "total" /\ rsPromise' = rsOrigin'.size - Ahead'
  BY <1>1 DEF Streamed
<1>q. QED
  BY <1>1, <1>2, <1>3, <1>4 DEF Streamed

\* Steps that write n bytes of the body at the offset.
LEMMA BytesStep ==
  ASSUME Streamed, rsPc \in {"peek", "body"}, UNCHANGED <<rsOrigin, rsUse, rsOpens>>,
         ~Whole => rsOffset < rsOrigin.size,
         rsPc' \in {"open"} \cup Ends, rsRefused' \in BOOLEAN,
         rsCall' \in CallType, rsCall'.status = rsCall.status, rsCall'.total = rsCall.total,
         NEW n \in 0 .. Len(BodyAt(rsOffset)), Copied(n), rsCall'.written <= rsCall.written + n,
         \/ rsPromise' = rsPromise
         \/ rsGot = <<>> /\ rsPromise' = TotalSaid - rsOffset /\ TotalSaid # Unknown,
         Whole => rsPc' # "open",
         rsPc' \in {"stored", "sent"} =>
           n = Len(BodyAt(rsOffset)) /\ (~Whole => rsOffset + n = rsOrigin.size)
  PROVE  Streamed'
<1> USE RSAssumption
<1>1. /\ RSTypeOK /\ (Whole => rsGot = <<>>) /\ rsOrigin.size \in Nat /\ rsOffset \in Nat
      /\ rsGot \in Seq(Nat) /\ Len(rsGot) \in Nat /\ n \in Nat
  BY StreamTypes DEF Streamed
<1>2. /\ rsGot' \in Seq(Nat) /\ rsOffset' \in Nat /\ rsOffset' = rsOffset + n
      /\ Len(rsGot') = Len(rsGot) + n /\ InPlace' /\ Whole' = Whole
  BY <1>1, CopiedInPlace DEF Whole
<1>3. Ahead' = Ahead
  BY <1>1, <1>2 DEF Ahead
<1>4. ~Whole => rsOffset' <= rsOrigin.size
  BY <1>1, <1>2, ChunkIs, StreamTypes
<1>5. rsPromise' # Unknown => rsOrigin.kind = "total" /\ rsPromise' = rsOrigin.size - Ahead
  <2>1. CASE rsPromise' = rsPromise
    BY <2>1 DEF Streamed
  <2>2. CASE rsGot = <<>> /\ rsPromise' = TotalSaid - rsOffset /\ TotalSaid # Unknown
    <3>1. rsOrigin.kind = "total" /\ rsPromise' = rsOrigin.size - rsOffset
      BY <2>2 DEF TotalSaid
    <3>2. Ahead = rsOffset
      BY <1>1, <2>2, EmptySeq DEF Ahead
    <3>q. QED
      BY <3>1, <3>2
  <2>q. QED
    BY <2>1, <2>2
<1>6. rsPromise' \in Nat \cup {Unknown}
  <2>1. rsPromise' = rsPromise \/ (rsPromise' = rsOrigin.size - rsOffset /\ ~Whole)
    BY DEF TotalSaid, Whole
  <2>q. QED
    BY <1>1, <2>1 DEF RSTypeOK
<1>7. RSTypeOK'
  BY <1>1, <1>2, <1>6 DEF RSTypeOK, Ends
<1>8. CallTrue'
  <2>1. /\ rsCall.status \in {0, IF Whole THEN 200 ELSE 206}
        /\ rsCall.total = (IF rsCall.status = 0 THEN Unknown ELSE TotalSaid)
        /\ rsCall.written <= Len(rsGot) /\ rsCall.written \in Nat /\ rsCall'.written \in Nat
    BY DEF Streamed, CallTrue, RSTypeOK, CallType
  <2>2. TotalSaid' = TotalSaid
    BY DEF TotalSaid
  <2>3. rsCall'.written <= Len(rsGot')
    BY <1>1, <1>2, <2>1
  <2>q. QED
    BY <1>2, <2>1, <2>2, <2>3 DEF CallTrue
<1>9. rsPc' # "body" /\ rsPc' # "peek" /\ (Whole => rsPc' # "open")
  BY DEF Ends
<1>10. rsPc' \in {"stored", "sent"} =>
         IF Whole THEN Len(rsGot') = rsOrigin.size ELSE rsOffset' = rsOrigin.size
  <2>1. CASE Whole
    <3>1. Len(rsGot') = n
      BY <1>1, <1>2, <2>1, EmptySeq
    <3>q. QED
      BY <1>1, <2>1, <3>1, BodyIs
  <2>2. CASE ~Whole
    BY <1>2, <2>2
  <2>q. QED
    BY <2>1, <2>2
<1>q. QED
  BY <1>2, <1>3, <1>4, <1>5, <1>7, <1>8, <1>9, <1>10 DEF Streamed

\* Every step keeps what Streamed says of the bytes.
LEMMA StreamStep ==
  ASSUME Streamed, [RSNext]_rsVars
  PROVE  Streamed'
<1> USE RSAssumption
<1>0. /\ RSTypeOK /\ CallTrue /\ rsOrigin.size \in Nat /\ rsOffset \in Nat /\ rsCall \in CallType
      /\ rsGot \in Seq(Nat) /\ Len(rsGot) \in Nat /\ rsCall.written \in Nat
      /\ Len(BodyAt(rsOffset)) \in Nat
  BY StreamTypes
<1>1. ASSUME NEW patient \in BOOLEAN, OpenFails(patient) PROVE Streamed'
  <2>1. /\ UNCHANGED <<rsOrigin, rsUse, rsCall, rsOffset, rsGot, rsPromise, rsRefused>>
        /\ rsPc = "open"
    BY <1>1 DEF OpenFails
  <2>2. rsPc' \in {"open"} \cup Ends /\ rsPc' \notin {"stored", "sent"} /\ rsOpens' \in 0 .. RSRetries
    <3>1. \/ rsOpens' = rsOpens + 1 /\ rsOpens < RSRetries /\ rsPc' = rsPc
          \/ rsOpens' = rsOpens /\ Return(rsCall.status, FALSE)
      BY <1>1 DEF OpenFails
    <3>2. rsOpens' \in 0 .. RSRetries
      <4>1. rsOpens \in Int /\ 0 <= rsOpens /\ rsOpens <= RSRetries /\ RSRetries \in Nat
        BY <1>0 DEF RSTypeOK
      <4>2. CASE rsOpens' = rsOpens + 1 /\ rsOpens < RSRetries
        BY ONLY <4>1, <4>2
      <4>3. CASE rsOpens' = rsOpens
        BY ONLY <4>1, <4>3
      <4>q. QED
        BY <3>1, <4>2, <4>3
    <3>3. rsPc' = "open" \/ (rsPc' \in Ends /\ rsPc' \notin {"stored", "sent"})
      BY <2>1, <3>1, ReturnEnds
    <3>q. QED
      BY <3>2, <3>3
  <2>3. RSTypeOK'
    BY <1>0, <2>1, <2>2 DEF RSTypeOK
  <2>4. CallTrue'
    BY <1>0, <2>1 DEF CallTrue, Whole, TotalSaid
  <2>q. QED
    BY <2>1, <2>2, <2>3, <2>4, QuietStep DEF Ends
<1>2. ASSUME NEW status \in {404, 416, 503}, Refuse(status) PROVE Streamed'
  <2>1. /\ UNCHANGED <<rsOrigin, rsUse, rsCall, rsOpens, rsOffset, rsGot, rsPromise>>
        /\ rsPc = "open" /\ rsRefused' = (rsRefused \/ status # 416)
        /\ (status = 416) <=> (StatusAt(rsOffset) = 416)
    BY <1>2 DEF Refuse
  <2>2. rsPc' \in Ends /\ (rsPc' \in {"stored", "sent"} => rsCall.written > 0)
    <3>1. Return(status, rsCall.written > 0) /\ (rsCall.written > 0) \in BOOLEAN
      BY <1>2 DEF Refuse
    <3>q. QED
      BY ONLY <3>1, ReturnEnds
  <2>3. RSTypeOK'
    BY <1>0, <2>1, <2>2 DEF RSTypeOK
  <2>4. CallTrue'
    BY <1>0, <2>1 DEF CallTrue, Whole, TotalSaid
  <2>5. ASSUME rsPc' \in {"stored", "sent"}, ~rsRefused'
        PROVE  ~Whole /\ rsOffset = rsOrigin.size
    <3>1. ~Whole /\ rsOffset >= rsOrigin.size
      BY <2>1, <2>5, AnswerIs
    <3>2. rsGot # <<>>
      BY <1>0, <2>2, <2>5, EmptySeq DEF CallTrue
    <3>q. QED
      BY <1>0, <3>1, <3>2 DEF Streamed
  <2>q. QED
    BY <2>1, <2>2, <2>3, <2>4, <2>5, QuietStep DEF Ends
<1>3. CASE Open
  <2>1. /\ UNCHANGED <<rsOrigin, rsUse, rsOffset, rsGot, rsPromise, rsRefused>>
        /\ rsPc = "open" /\ rsPc' = "body" /\ rsOpens' = 0
        /\ StatusAt(rsOffset) \in {200, 206}
    BY <1>3 DEF Open
  <2>2. TotalSaid \in RSSizes \cup {Unknown}
    BY <1>0 DEF RSTypeOK, Origins, TotalSaid
  <2>3. /\ rsCall' \in CallType /\ rsCall'.status # 0
        /\ rsCall'.status \in {0, IF Whole THEN 200 ELSE 206}
        /\ rsCall'.total = TotalSaid /\ rsCall'.written = rsCall.written
    <3>1. CASE rsCall.status # 0
      BY <1>0, <1>3, <3>1 DEF Open, CallTrue
    <3>2. CASE rsCall.status = 0
      <4> DEFINE status == StatusAt(rsOffset)
                 total == TotalSaid
      <4>1. status \in {200, 206} /\ status \in {0, IF Whole THEN 200 ELSE 206} /\ total \in RSSizes \cup {Unknown}
        BY <2>1, <2>2, AnswerIs
      <4>2. rsCall' = [rsCall EXCEPT !.status = status, !.total = total]
        BY <1>3, <3>2 DEF Open
      <4>3. total = TotalSaid
        OBVIOUS
      <4> HIDE DEF status, total
      <4>q. QED
        <5>1. /\ rsCall' \in CallType /\ rsCall'.status = status /\ rsCall'.total = total
              /\ rsCall'.written = rsCall.written
          BY <1>0, <4>1, <4>2 DEF CallType
        <5>q. QED
          BY <4>1, <4>3, <5>1
    <3>q. QED
      BY <3>1, <3>2
  <2>4. RSTypeOK'
    BY <1>0, <2>1, <2>3 DEF RSTypeOK
  <2>5. CallTrue'
    BY <1>0, <2>1, <2>3 DEF CallTrue, Whole, TotalSaid
  <2>q. QED
    BY <2>1, <2>3, <2>4, <2>5, AnswerIs, QuietStep
<1>4. ASSUME NEW n \in 0 .. RSChunk, NEW patient \in BOOLEAN, BreaksOff(n, patient) PROVE Streamed'
  <2>1. /\ rsPc = "body" /\ UNCHANGED <<rsOrigin, rsUse, rsOpens, rsPromise, rsRefused>>
        /\ Copied(n) /\ n < Len(BodyAt(rsOffset))
    BY <1>4 DEF BreaksOff
  <2>2. n \in 0 .. Len(BodyAt(rsOffset))
    BY <1>0, <2>1
  <2>3. /\ rsCall' \in CallType /\ rsCall'.status = rsCall.status /\ rsCall'.total = rsCall.total
        /\ rsCall'.written <= rsCall.written + n
    <3> DEFINE written == rsCall.written + n
               resumes == rsCall.resumes + 1
    <3>1. written \in Nat /\ resumes \in Nat /\ written <= rsCall.written + n
      BY <1>0 DEF CallType
    <3>2. \/ rsCall' = [rsCall EXCEPT !.written = written, !.resumes = resumes]
          \/ rsCall' = [rsCall EXCEPT !.written = written]
      BY <1>4 DEF BreaksOff
    <3> HIDE DEF written, resumes
    <3>3. CASE rsCall' = [rsCall EXCEPT !.written = written, !.resumes = resumes]
      BY ONLY <1>0, <3>1, <3>3 DEF CallType
    <3>4. CASE rsCall' = [rsCall EXCEPT !.written = written]
      BY ONLY <1>0, <3>1, <3>4 DEF CallType
    <3>q. QED
      BY <3>2, <3>3, <3>4
  <2>4. /\ rsPc' \in {"open"} \cup Ends /\ rsPc' \notin {"stored", "sent"}
        /\ rsPc' = "open" => rsCall.total > 0
    BY <1>4, ReturnEnds DEF BreaksOff, Resumes, Ends
  <2>5. Whole => rsCall.total = Unknown
    BY <1>0 DEF CallTrue, TotalSaid, Whole
  <2>6. Whole => rsPc' # "open"
    BY <2>4, <2>5 DEF Unknown
  <2>7. (~Whole => rsOffset < rsOrigin.size) /\ rsRefused' \in BOOLEAN
    BY <2>1 DEF Streamed, RSTypeOK
  <2>q. QED
    BY <2>1, <2>2, <2>3, <2>4, <2>6, <2>7, BytesStep
<1>5. CASE ReadToEnd
  <2> DEFINE n == Len(BodyAt(rsOffset))
  <2>1. /\ rsPc = "body" /\ UNCHANGED <<rsOrigin, rsUse, rsOpens, rsPromise, rsRefused>>
        /\ Copied(n) /\ rsCall' = [rsCall EXCEPT !.written = rsCall.written + n]
        /\ IF TooMuch(n) THEN Return(rsCall.status, FALSE)
           ELSE IF LastChunk(rsCall.status, rsCall.total, n) THEN Return(rsCall.status, TRUE)
           ELSE rsPc' = "open"
    BY <1>5 DEF ReadToEnd
  <2>2. n \in Nat /\ n \in 0 .. Len(BodyAt(rsOffset))
    BY <1>0
  <2>3. /\ rsCall' \in CallType /\ rsCall'.status = rsCall.status /\ rsCall'.total = rsCall.total
        /\ rsCall'.written <= rsCall.written + n
    <3> DEFINE written == rsCall.written + n
    <3>1. written \in Nat /\ written <= rsCall.written + n
      BY <1>0, <2>2
    <3>2. rsCall' = [rsCall EXCEPT !.written = written]
      BY <2>1
    <3> HIDE DEF written
    <3>q. QED
      BY <1>0, <3>1, <3>2 DEF CallType
  <2>4. /\ rsPc' \in {"open"} \cup Ends
        /\ rsPc' \in {"stored", "sent"} => LastChunk(rsCall.status, rsCall.total, n)
        /\ rsPc' = "open" => ~LastChunk(rsCall.status, rsCall.total, n)
    BY <2>1, ReturnEnds DEF Ends
  <2>5. /\ ~Whole => rsOffset < rsOrigin.size
        /\ rsCall.status = (IF Whole THEN 200 ELSE 206) /\ rsCall.total = TotalSaid
        /\ rsRefused' \in BOOLEAN
    BY <1>0, <2>1 DEF Streamed, CallTrue, RSTypeOK
  <2>6. Whole => rsPc' # "open"
    BY <2>4, <2>5 DEF LastChunk
  <2>7. ~Whole /\ LastChunk(rsCall.status, rsCall.total, n) => rsOffset + n = rsOrigin.size
    <3> SUFFICES ASSUME ~Whole, LastChunk(206, TotalSaid, n) PROVE rsOffset + n = rsOrigin.size
      BY <2>5
    <3>1. /\ n \in 1 .. RSChunk /\ rsOffset + n <= rsOrigin.size
          /\ n < RSChunk => rsOffset + n = rsOrigin.size
      BY <2>5, ChunkIs
    <3> HIDE DEF n
    <3>q. QED
      BY <1>0, <2>2, <3>1 DEF LastChunk, TotalSaid, Unknown
  <2>q. QED
    BY <2>1, <2>2, <2>3, <2>4, <2>5, <2>6, <2>7, BytesStep
<1>6. CASE PeekFails
  <2>1. /\ UNCHANGED <<rsOrigin, rsUse, rsCall, rsOpens, rsOffset, rsGot, rsPromise, rsRefused>>
        /\ rsPc' = "loader"
    BY <1>6 DEF PeekFails
  <2>2. RSTypeOK'
    BY <1>0, <2>1 DEF RSTypeOK, Ends
  <2>3. CallTrue'
    BY <1>0, <2>1 DEF CallTrue, Whole, TotalSaid
  <2>q. QED
    BY <2>1, <2>2, <2>3, QuietStep
<1>7. CASE Peek
  <2> SUFFICES ASSUME NEW n \in 0 .. Len(BodyAt(rsOffset)), Copied(n),
                 IF n < Len(BodyAt(rsOffset))
                 THEN rsPc' = IF Promised # Unknown THEN "aborted" ELSE "short"
                 ELSE rsPc' = IF LastChunk(StatusAt(rsOffset), TotalSaid, n) THEN "sent" ELSE "open"
               PROVE  Streamed'
    BY <1>7 DEF Peek
  <2>1. /\ rsPc = "peek" /\ rsGot = <<>> /\ StatusAt(rsOffset) \in {200, 206} /\ rsPromise = Unknown
        /\ UNCHANGED <<rsOrigin, rsUse, rsCall, rsOpens, rsRefused>>
        /\ rsPromise' = Promised
    BY <1>7 DEF Peek
  <2>2. n \in Nat /\ Len(BodyAt(rsOffset)) \in Nat
    BY <1>0
  <2>3. /\ StatusAt(rsOffset) = IF Whole THEN 200 ELSE 206
        /\ ~Whole => rsOffset < rsOrigin.size
    BY <2>1, AnswerIs
  <2>4. rsPc' \in {"open"} \cup Ends /\ rsRefused' \in BOOLEAN /\ rsCall' \in CallType
        /\ rsCall'.written <= rsCall.written + n
    BY <1>0, <2>1, <2>2 DEF Ends, RSTypeOK
  <2>5. /\ rsPc' \in {"stored", "sent"} =>
             n = Len(BodyAt(rsOffset)) /\ LastChunk(StatusAt(rsOffset), TotalSaid, n)
        /\ rsPc' = "open" => ~LastChunk(StatusAt(rsOffset), TotalSaid, n)
    BY <2>2
  <2>6. Whole => rsPc' # "open"
    BY <2>3, <2>5 DEF LastChunk
  <2>7. ~Whole /\ n = Len(BodyAt(rsOffset)) /\ LastChunk(StatusAt(rsOffset), TotalSaid, n)
          => rsOffset + n = rsOrigin.size
    <3> SUFFICES ASSUME ~Whole, n = Len(BodyAt(rsOffset)), LastChunk(206, TotalSaid, n)
                 PROVE  rsOffset + n = rsOrigin.size
      BY <2>3
    <3>1. /\ n \in 1 .. RSChunk /\ rsOffset + n <= rsOrigin.size
          /\ n < RSChunk => rsOffset + n = rsOrigin.size
      BY <2>3, ChunkIs
    <3>2. \/ rsOrigin.kind = "total" /\ rsOffset + n >= rsOrigin.size
          \/ n < RSChunk
      BY ONLY <1>0, <2>2, <3>1, ~Whole, LastChunk(206, TotalSaid, n) DEF LastChunk, TotalSaid, Unknown
    <3>q. QED
      <4> DEFINE size == rsOrigin.size
      <4>1. /\ rsOffset \in Nat /\ size \in Nat /\ n \in Nat /\ rsOffset + n <= size
            /\ rsOffset + n >= size \/ rsOffset + n = size
        BY <1>0, <2>2, <3>1, <3>2
      <4> HIDE DEF size
      <4>2. rsOffset + n = size
        BY ONLY <4>1
      <4>q. QED
        BY ONLY <4>2 DEF size
  <2>8. \/ rsPromise' = rsPromise
        \/ rsGot = <<>> /\ rsPromise' = TotalSaid - rsOffset /\ TotalSaid # Unknown
    BY <2>1 DEF Promised
  <2>q. QED
    BY <2>1, <2>3, <2>4, <2>5, <2>6, <2>7, <2>8, BytesStep
<1>8. CASE UNCHANGED rsVars
  BY <1>0, <1>8 DEF rsVars, Streamed, RSTypeOK, CallTrue, InPlace, Ahead, Whole, TotalSaid
<1>q. QED
  BY <1>1, <1>2, <1>3, <1>4, <1>5, <1>6, <1>7, <1>8 DEF RSNext

\* The inductive invariant of a body in chunks, for content of every length: the
\* bytes written so far are the range's first, each in its place.
THEOREM StreamInvariance == RSSpec => []Streamed
<1>1. RSInit => Streamed
  <2> SUFFICES ASSUME RSInit PROVE Streamed
    OBVIOUS
  <2>1. /\ rsGot = <<>> /\ rsGot \in Seq(Nat) /\ Len(rsGot) = 0 /\ rsOffset \in Nat
        /\ rsPromise = Unknown /\ rsPc \in {"open", "peek"} /\ rsUse \in {"download", "range", "plain"}
        /\ rsOpens = 0 /\ rsRefused = FALSE /\ rsCall = NoCall /\ rsOrigin \in Origins
    <3>1. <<>> \in Seq(Nat) /\ Len(<<>>) = 0
      BY EmptySeq
    <3>2. rsOffset \in Nat /\ rsPc \in {"open", "peek"} /\ rsUse \in {"download", "range", "plain"}
      <4>1. CASE rsUse = "download" /\ rsPc = "open" /\ rsOffset = 0
        BY ONLY <4>1
      <4>2. CASE rsUse = "plain" /\ rsPc = "peek" /\ rsOffset = 0
        BY ONLY <4>2
      <4>3. CASE rsUse = "range" /\ rsPc = "peek" /\ rsOffset \in RSStarts
        BY ONLY <4>3, RSAssumption
      <4>q. QED
        BY <4>1, <4>2, <4>3 DEF RSInit
    <3>q. QED
      BY <3>1, <3>2 DEF RSInit
  <2>2. RSTypeOK
    <3>1. NoCall \in CallType
      BY DEF NoCall, CallType, Unknown
    <3>q. QED
      <4>1. rsOpens \in 0 .. RSRetries
        BY ONLY RSAssumption, <2>1
      <4>2. rsPromise \in Nat \cup {Unknown} /\ rsRefused \in BOOLEAN
        BY ONLY <2>1
      <4>3. /\ rsPc \in {"peek", "open", "body"} \cup Ends
            /\ rsOrigin \in Origins /\ rsUse \in {"download", "range", "plain"}
            /\ rsCall \in CallType /\ rsOffset \in Nat /\ rsGot \in Seq(Nat)
        BY ONLY <2>1, <3>1
      <4>q. QED
        BY ONLY <4>1, <4>2, <4>3 DEF RSTypeOK
  <2>3. CallTrue /\ InPlace
    BY <2>1 DEF CallTrue, NoCall, InPlace
  <2>q. QED
    BY <2>1, <2>2, <2>3 DEF Streamed
<1>2. Streamed /\ [RSNext]_rsVars => Streamed'
  BY StreamStep
<1>3. QED
  BY <1>1, <1>2, PTL DEF RSSpec

\* What arrives is the content, and what ends as if whole is, unless a later
\* chunk was refused.
THEOREM BodiesAreWhole == RSSpec => []WholeUnlessRefused
<1>1. Streamed => WholeUnlessRefused
  <2> SUFFICES ASSUME Streamed PROVE WholeUnlessRefused
    OBVIOUS
  <2>0. /\ rsGot \in Seq(Nat) /\ Len(rsGot) \in Nat /\ DOMAIN rsGot = 1 .. Len(rsGot)
        /\ rsOffset \in Nat /\ rsOrigin.size \in Nat
    BY RSAssumption, LenProperties DEF Streamed, RSTypeOK, Origins
  <2>1. rsGot # <<>> => Head(rsGot) = rsGot[1] /\ Len(rsGot) > 0
    BY <2>0, EmptySeq
  <2>2. ASSUME rsGot # <<>> PROVE FirstByte = IF Whole THEN 0 ELSE Ahead
    <3>1. rsGot[1] = (IF Whole THEN 0 ELSE Ahead) + 1 - 1
      BY <2>0, <2>1, <2>2 DEF Streamed, InPlace
    <3>2. Ahead \in Int
      BY <2>0 DEF Ahead
    <3>q. QED
      BY <2>1, <2>2, <3>1, <3>2 DEF FirstByte, Whole
  <2>3. InOrder
    BY <2>0, <2>1, <2>2, EmptySeq DEF InOrder, Streamed, InPlace
  <2>4. ASSUME rsPc \in {"stored", "sent"}, ~rsRefused PROVE All
    <3>1. IF Whole THEN Len(rsGot) = rsOrigin.size ELSE rsOffset = rsOrigin.size
      BY <2>4 DEF Streamed
    <3>2. ASSUME Len(rsGot) > 0 PROVE rsGot[Len(rsGot)] = rsOrigin.size - 1
      <4>1. rsGot[Len(rsGot)] = (IF Whole THEN 0 ELSE rsOffset - Len(rsGot)) + Len(rsGot) - 1
        BY <2>0, <3>2 DEF Streamed, InPlace, Ahead
      <4>q. QED
        BY <2>0, <3>1, <4>1
    <3>3. rsPromise # Unknown => Len(rsGot) = rsPromise
      BY <2>0, <3>1 DEF Streamed, Ahead, Whole
    <3>q. QED
      BY <2>3, <3>2, <3>3 DEF All
  <2>q. QED
    BY <2>3, <2>4 DEF WholeUnlessRefused
<1>2. QED
  BY <1>1, StreamInvariance, PTL

-----------------------------------------------------------------------------
(* BandwidthGate: the queue at the bottleneck.                             *)

\* Two numbers of ticks and tokens.
LEMMA TicksPay ==
    ASSUME NEW n \in Nat, NEW r \in Nat
    PROVE  /\ n * r \in Nat
           /\ (n + 1) * r = n * r + r
OBVIOUS

\* What the bucket would hold now, and never more than it can.
LEMMA RefillBounded ==
    ASSUME BGTypeOK, bgBucket.last <= bgNow
    PROVE  Refill(bgBucket) \in 0 .. BGCapacity
<1>1. bgNow - bgBucket.last \in Nat  BY DEF BGTypeOK
<1>2. (bgNow - bgBucket.last) * BGRate \in Nat  BY <1>1, TicksPay, BGAssumption DEF BGAssumption
<1> DEFINE paid == (bgNow - bgBucket.last) * BGRate
<1>3. paid \in Nat  BY <1>2
<1>4. bgBucket.tokens \in Nat  BY BGAssumption DEF BGTypeOK, BGAssumption
<1>5. Refill(bgBucket) = IF bgBucket.tokens + paid > BGCapacity THEN BGCapacity
                         ELSE bgBucket.tokens + paid  BY DEF Refill
<1> HIDE DEF paid
<1> QED BY <1>3, <1>4, <1>5, BGAssumption DEF BGAssumption

\* A tick pays the rate at most, and a bucket holds what it can.
LEMMA TickPays ==
    ASSUME BGTypeOK, bgBucket.last <= bgNow, bgNow' = bgNow + 1, UNCHANGED bgBucket
    PROVE  /\ Refill(bgBucket)' \in 0 .. BGCapacity
           /\ Refill(bgBucket)' <= Refill(bgBucket) + BGRate
<1>1. bgNow - bgBucket.last \in Nat  BY DEF BGTypeOK
<1> DEFINE ticks == bgNow - bgBucket.last
           paid == ticks * BGRate
           more == (ticks + 1) * BGRate
<1>2. paid \in Nat /\ more = paid + BGRate  BY <1>1, TicksPay, BGAssumption DEF BGAssumption
<1>3. bgNow' - bgBucket.last = ticks + 1  BY DEF BGTypeOK
<1>4. bgBucket.tokens \in Nat  BY BGAssumption DEF BGTypeOK, BGAssumption
<1>5. Refill(bgBucket) = IF bgBucket.tokens + paid > BGCapacity THEN BGCapacity
                         ELSE bgBucket.tokens + paid  BY DEF Refill
<1>6. Refill(bgBucket)' = IF bgBucket.tokens + more > BGCapacity THEN BGCapacity
                          ELSE bgBucket.tokens + more  BY <1>3 DEF Refill
<1> HIDE DEF paid, more
<1> QED BY <1>2, <1>4, <1>5, <1>6, BGAssumption DEF BGAssumption

\* A round takes of what there is, and no more than is wanted.
LEMMA TakeBounded ==
    ASSUME BGTypeOK, bgBucket.last <= bgNow, NEW want \in Nat
    PROVE  /\ Take(bgBucket, want) \in 0 .. Refill(bgBucket)
           /\ want - Told(Take(bgBucket, want)) \in Nat
<1>1. Refill(bgBucket) \in Nat  BY RefillBounded, BGAssumption DEF BGAssumption
<1>2. Take(bgBucket, want) \in 0 .. Refill(bgBucket) /\ Take(bgBucket, want) <= 2 * want
  BY <1>1 DEF Take
<1> QED BY <1>1, <1>2 DEF Told

\* A step of one writer that neither comes nor goes and takes no bandwidth.
LEMMA WriterStep ==
    ASSUME GateKept, NEW w \in BGWriters, NEW r,
           r \in [at : Places \ {"new", "gone"}, left : 0 .. BGChunks, seen : Nat, need : Nat],
           r.seen <= bgChannel, r.at # "ending" => r.left > 0,
           W(w).at \notin {"new", "gone"}, SetW(w, r), UNCHANGED <<bgEntries, bgChannel>>,
           r.at = "parked" /\ r.seen = bgChannel => Outranked(w)
    PROVE  /\ bgWriter' \in [BGWriters -> [at : Places, left : 0 .. BGChunks, seen : Nat, need : Nat]]
           /\ bgEntries' = {v \in BGWriters : W(v)'.at \notin {"new", "gone"}}
           /\ \A v \in BGWriters : /\ W(v)'.seen <= bgChannel'
                                   /\ W(v)'.at \notin {"ending", "gone"} => W(v)'.left > 0
           /\ NobodyForgotten'
<1>1. bgWriter \in [BGWriters -> [at : Places, left : 0 .. BGChunks, seen : Nat, need : Nat]]
  BY DEF GateKept, BGTypeOK
<1>2. W(w)' = r /\ \A v \in BGWriters \ {w} : W(v)' = W(v)  BY <1>1 DEF SetW, W
<1>3. bgWriter' \in [BGWriters -> [at : Places, left : 0 .. BGChunks, seen : Nat, need : Nat]]
  BY <1>1 DEF SetW
<1>4. r.at \notin {"new", "gone"}  OBVIOUS
<1>5. \A v \in BGWriters : W(v)'.at \notin {"new", "gone"} <=> W(v).at \notin {"new", "gone"}
  BY <1>2, <1>4
<1>6. bgEntries' = {v \in BGWriters : W(v)'.at \notin {"new", "gone"}}
  BY <1>5 DEF GateKept
<1>7. \A v \in BGWriters : /\ W(v)'.seen <= bgChannel'
                           /\ W(v)'.at \notin {"ending", "gone"} => W(v)'.left > 0
  BY <1>2 DEF GateKept
<1>8. \A v \in BGWriters : Outranked(v)' <=> Outranked(v)  BY DEF Outranked, Better
<1>9. \A v \in BGWriters : Asleep(v)' => Outranked(v)'
  BY <1>2, <1>8 DEF GateKept, NobodyForgotten, Asleep
<1> QED BY <1>3, <1>6, <1>7, <1>9 DEF NobodyForgotten

\* A writer that comes or goes wakes everyone.
LEMMA MemberStep ==
    ASSUME GateKept, NEW w \in BGWriters, NEW at \in {"gate", "gone"},
           at = "gate" => W(w).at = "new" /\ bgEntries' = bgEntries \cup {w},
           at = "gone" => bgEntries' = bgEntries \ {w},
           SetW(w, [W(w) EXCEPT !.at = at]), bgChannel' = bgChannel + 1
    PROVE  /\ bgWriter' \in [BGWriters -> [at : Places, left : 0 .. BGChunks, seen : Nat, need : Nat]]
           /\ bgEntries' = {v \in BGWriters : W(v)'.at \notin {"new", "gone"}}
           /\ bgEntries' \subseteq BGWriters /\ IsFiniteSet(bgEntries')
           /\ \A v \in BGWriters : /\ W(v)'.seen <= bgChannel'
                                   /\ W(v)'.at \notin {"ending", "gone"} => W(v)'.left > 0
           /\ NobodyForgotten'
<1>1. bgWriter \in [BGWriters -> [at : Places, left : 0 .. BGChunks, seen : Nat, need : Nat]]
  BY DEF GateKept, BGTypeOK
<1> DEFINE r == [W(w) EXCEPT !.at = at]
<1>2. /\ r \in [at : Places, left : 0 .. BGChunks, seen : Nat, need : Nat]
      /\ r.at = at /\ r.left = W(w).left /\ r.seen = W(w).seen
  BY <1>1 DEF W, Places
<1>3. SetW(w, r)  OBVIOUS
<1> HIDE DEF r
<1>4. W(w)' = r /\ \A v \in BGWriters \ {w} : W(v)' = W(v)  BY <1>1, <1>3 DEF SetW, W
<1>5. bgWriter' \in [BGWriters -> [at : Places, left : 0 .. BGChunks, seen : Nat, need : Nat]]
  BY <1>1, <1>2, <1>3 DEF SetW
<1>6. bgEntries' = {v \in BGWriters : W(v)'.at \notin {"new", "gone"}}
  <2>1. bgEntries = {v \in BGWriters : W(v).at \notin {"new", "gone"}}  BY DEF GateKept
  <2>2. CASE at = "gate"  BY <1>2, <1>4, <2>1, <2>2
  <2>3. CASE at = "gone"  BY <1>2, <1>4, <2>1, <2>3
  <2> QED BY <2>2, <2>3
<1>7. bgEntries' \subseteq BGWriters  BY <1>6
<1>8. IsFiniteSet(bgEntries')
  <2>1. IsFiniteSet(bgEntries)  BY DEF GateKept, BGTypeOK
  <2>2. IsFiniteSet(bgEntries \cup {w})  BY <2>1, FS_AddElement
  <2>3. IsFiniteSet(bgEntries \ {w})  BY <2>1, FS_RemoveElement
  <2> QED BY <2>2, <2>3
<1>9. \A v \in BGWriters : W(v).seen \in Nat /\ W(v).seen <= bgChannel /\ W(v)'.seen = W(v).seen
  BY <1>1, <1>2, <1>4 DEF GateKept, W
<1>10. \A v \in BGWriters : W(v)'.seen < bgChannel'  BY <1>9 DEF GateKept, BGTypeOK
<1>11. \A v \in BGWriters : W(v)'.at \notin {"ending", "gone"} => W(v)'.left > 0
  BY <1>2, <1>4 DEF GateKept
<1>12. \A v \in BGWriters : ~Asleep(v)'  BY <1>9, <1>10 DEF Asleep, GateKept, BGTypeOK
<1>13. \A v \in BGWriters : W(v)'.seen <= bgChannel'
  BY <1>9, <1>10 DEF GateKept, BGTypeOK
<1> QED BY <1>5, <1>6, <1>7, <1>8, <1>11, <1>12, <1>13 DEF NobodyForgotten

\* Initially.
LEMMA GateKeptInit == BGInit => GateKept
<1> SUFFICES ASSUME BGInit PROVE GateKept  OBVIOUS
<1> USE BGAssumption DEF BGAssumption, BGInit
<1>1. BGTypeOK  BY FS_EmptySet DEF BGTypeOK, Places
<1>2. bgEntries = {w \in BGWriters : W(w).at \notin {"new", "gone"}}  BY DEF W
<1>3. \A w \in BGWriters : W(w).seen <= bgChannel /\ (W(w).at \notin {"ending", "gone"} => W(w).left > 0)
  BY DEF W
<1>4. bgBucket.last <= bgNow /\ bgDebt + Refill(bgBucket) <= BGCapacity
  <2>1. Refill(bgBucket) \in 0 .. BGCapacity  BY <1>1, RefillBounded
  <2> QED BY <2>1
<1>5. NobodyForgotten  BY DEF NobodyForgotten, Asleep, W
<1> QED BY <1>1, <1>2, <1>3, <1>4, <1>5 DEF GateKept

\* Every step keeps it.
LEMMA GateKeptStep ==
    ASSUME GateKept, [BGNext]_bgVars
    PROVE  GateKept'
<1> DEFINE Writer == [at : Places, left : 0 .. BGChunks, seen : Nat, need : Nat]
<1>1. BGTypeOK /\ bgWriter \in [BGWriters -> Writer]  BY DEF GateKept, BGTypeOK
<1>2. \A w \in BGWriters : /\ W(w) \in Writer /\ W(w).seen <= bgChannel
                           /\ W(w).at \notin {"ending", "gone"} => W(w).left > 0
  BY <1>1 DEF GateKept, W
<1>3. ASSUME NEW w \in BGWriters, NEW r,
             r \in [at : Places \ {"new", "gone"}, left : 0 .. BGChunks, seen : Nat, need : Nat],
             r.seen <= bgChannel, r.at # "ending" => r.left > 0,
             W(w).at \notin {"new", "gone"}, SetW(w, r), UNCHANGED <<bgEntries, bgChannel, bucket>>,
             r.at = "parked" /\ r.seen = bgChannel => Outranked(w)
      PROVE  GateKept'
  <2>1. /\ bgWriter' \in [BGWriters -> Writer]
        /\ bgEntries' = {v \in BGWriters : W(v)'.at \notin {"new", "gone"}}
        /\ \A v \in BGWriters : /\ W(v)'.seen <= bgChannel'
                                /\ W(v)'.at \notin {"ending", "gone"} => W(v)'.left > 0
        /\ NobodyForgotten'
    BY <1>3, WriterStep
  <2>2. UNCHANGED <<bgEntries, bgChannel, bgBucket, bgNow, bgDebt>>  BY <1>3 DEF bucket
  <2>3. Refill(bgBucket)' = Refill(bgBucket)  BY <2>2 DEF Refill
  <2>4. BGTypeOK'  BY <1>1, <2>1, <2>2 DEF BGTypeOK
  <2> QED BY <2>1, <2>2, <2>3, <2>4 DEF GateKept
<1>4. ASSUME NEW w \in BGWriters, Register(w) PROVE GateKept'
  <2>1. /\ W(w).at = "new" /\ bgEntries' = bgEntries \cup {w} /\ bgChannel' = bgChannel + 1
        /\ SetW(w, [W(w) EXCEPT !.at = "gate"]) /\ UNCHANGED <<bgBucket, bgNow, bgDebt>>
    BY <1>4 DEF Register, bucket
  <2>2. /\ bgWriter' \in [BGWriters -> Writer]
        /\ bgEntries' = {v \in BGWriters : W(v)'.at \notin {"new", "gone"}}
        /\ bgEntries' \subseteq BGWriters /\ IsFiniteSet(bgEntries')
        /\ \A v \in BGWriters : /\ W(v)'.seen <= bgChannel'
                                /\ W(v)'.at \notin {"ending", "gone"} => W(v)'.left > 0
        /\ NobodyForgotten'
    BY <2>1, MemberStep
  <2>3. Refill(bgBucket)' = Refill(bgBucket)  BY <2>1 DEF Refill
  <2>4. BGTypeOK'  BY <1>1, <2>1, <2>2 DEF BGTypeOK
  <2> QED BY <2>1, <2>2, <2>3, <2>4 DEF GateKept
<1>5. ASSUME NEW w \in BGWriters, Unregister(w) PROVE GateKept'
  <2>1. /\ bgEntries' = bgEntries \ {w} /\ bgChannel' = bgChannel + 1
        /\ SetW(w, [W(w) EXCEPT !.at = "gone"]) /\ UNCHANGED <<bgBucket, bgNow, bgDebt>>
    BY <1>5 DEF Unregister, bucket
  <2>2. /\ bgWriter' \in [BGWriters -> Writer]
        /\ bgEntries' = {v \in BGWriters : W(v)'.at \notin {"new", "gone"}}
        /\ bgEntries' \subseteq BGWriters /\ IsFiniteSet(bgEntries')
        /\ \A v \in BGWriters : /\ W(v)'.seen <= bgChannel'
                                /\ W(v)'.at \notin {"ending", "gone"} => W(v)'.left > 0
        /\ NobodyForgotten'
    BY <2>1, MemberStep
  <2>3. Refill(bgBucket)' = Refill(bgBucket)  BY <2>1 DEF Refill
  <2>4. BGTypeOK'  BY <1>1, <2>1, <2>2 DEF BGTypeOK
  <2> QED BY <2>1, <2>2, <2>3, <2>4 DEF GateKept
<1>6. ASSUME NEW w \in BGWriters, Wait(w) PROVE GateKept'
  <2>1. W(w).at = "gate" /\ UNCHANGED <<bgEntries, bgChannel, bucket>>  BY <1>6 DEF Wait
  <2>2. CASE Outranked(w)
    <3> DEFINE r == [W(w) EXCEPT !.at = "parked", !.seen = bgChannel]
    <3>1. SetW(w, r)  BY <1>6, <2>2 DEF Wait
    <3>2. /\ r \in [at : Places \ {"new", "gone"}, left : 0 .. BGChunks, seen : Nat, need : Nat]
          /\ r.at = "parked" /\ r.seen = bgChannel /\ r.left = W(w).left
      BY <1>1, <1>2 DEF Places, BGTypeOK
    <3> HIDE DEF r
    <3>3. bgChannel <= bgChannel  BY <1>1 DEF BGTypeOK
    <3> QED BY <1>2, <1>3, <2>1, <2>2, <3>1, <3>2, <3>3
  <2>3. CASE ~Outranked(w)
    <3> DEFINE r == [W(w) EXCEPT !.at = "take", !.need = BGWant]
    <3>1. SetW(w, r)  BY <1>6, <2>3 DEF Wait
    <3>2. /\ r \in [at : Places \ {"new", "gone"}, left : 0 .. BGChunks, seen : Nat, need : Nat]
          /\ r.at = "take" /\ r.seen = W(w).seen /\ r.left = W(w).left
      BY <1>2, BGAssumption DEF Places, BGAssumption
    <3> HIDE DEF r
    <3> QED BY <1>2, <1>3, <2>1, <3>1, <3>2
  <2> QED BY <2>2, <2>3
<1>7. ASSUME NEW w \in BGWriters, NEW at \in {"gate", "ending"},
             W(w).at \notin {"new", "ending", "gone"}, SetW(w, [W(w) EXCEPT !.at = at]),
             UNCHANGED <<bgEntries, bgChannel, bucket>>
      PROVE  GateKept'
  <2> DEFINE r == [W(w) EXCEPT !.at = at]
  <2>1. SetW(w, r)  BY <1>7
  <2>2. /\ r \in [at : Places \ {"new", "gone"}, left : 0 .. BGChunks, seen : Nat, need : Nat]
        /\ r.at = at /\ r.seen = W(w).seen /\ r.left = W(w).left
    BY <1>2 DEF Places
  <2> HIDE DEF r
  <2> QED BY <1>2, <1>3, <1>7, <2>1, <2>2
<1>8. ASSUME NEW w \in BGWriters, Wake(w) \/ Read(w) PROVE GateKept'
  <2>1. /\ W(w).at \in {"parked", "read"} /\ SetW(w, [W(w) EXCEPT !.at = "gate"])
        /\ UNCHANGED <<bgEntries, bgChannel, bucket>>
    BY <1>8 DEF Wake, Read
  <2> QED BY <1>7, <2>1
<1>9. ASSUME NEW w \in BGWriters, Cancel(w) PROVE GateKept'
  <2>1. /\ W(w).at \in {"read", "parked", "take"} /\ SetW(w, [W(w) EXCEPT !.at = "ending"])
        /\ UNCHANGED <<bgEntries, bgChannel, bucket>>
    BY <1>9 DEF Cancel, Stop
  <2> QED BY <1>7, <2>1
<1>10. ASSUME NEW w \in BGWriters, Write(w) PROVE GateKept'
  <2> DEFINE at == IF W(w).left = 1 THEN "ending" ELSE "read"
             r == [W(w) EXCEPT !.left = W(w).left - 1, !.at = at]
  <2>1. /\ W(w).at = "write" /\ SetW(w, r) /\ UNCHANGED <<bgEntries, bgChannel, bucket>>
    BY <1>10 DEF Write
  <2>2. W(w).left \in 1 .. BGChunks /\ W(w).left - 1 \in 0 .. BGChunks
    BY <1>2, <2>1, BGAssumption DEF BGAssumption
  <2>3. at \in Places \ {"new", "gone", "parked"} /\ (at # "ending" => W(w).left - 1 > 0)
    BY <2>2, BGAssumption DEF Places, BGAssumption
  <2> HIDE DEF at
  <2>4. /\ r \in [at : Places \ {"new", "gone"}, left : 0 .. BGChunks, seen : Nat, need : Nat]
        /\ r.at = at /\ r.seen = W(w).seen /\ r.left = W(w).left - 1
    BY <1>2, <2>2, <2>3
  <2> HIDE DEF r
  <2> QED BY <1>2, <1>3, <2>1, <2>3, <2>4
<1>11. ASSUME NEW w \in BGWriters, Reserve(w) PROVE GateKept'
  <2> DEFINE got == Take(bgBucket, W(w).need)
             need == W(w).need - Told(got)
             at == IF need = 0 THEN "write" ELSE "take"
             r == [W(w) EXCEPT !.need = need, !.at = at]
  <2>1. /\ W(w).at = "take" /\ SetW(w, r) /\ UNCHANGED <<bgEntries, bgChannel, bgNow>>
        /\ bgBucket' = [tokens |-> Refill(bgBucket) - got, last |-> bgNow] /\ bgDebt' = bgDebt + got
    BY <1>11 DEF Reserve
  <2>2. W(w).need \in Nat /\ bgBucket.last <= bgNow  BY <1>2 DEF GateKept
  <2>3. got \in 0 .. Refill(bgBucket) /\ need \in Nat  BY <1>1, <2>2, TakeBounded
  <2>4. Refill(bgBucket) \in 0 .. BGCapacity  BY <1>1, <2>2, RefillBounded
  <2>5. at \in {"write", "take"}  OBVIOUS
  <2> HIDE DEF got, need, at
  <2>6. /\ r \in [at : Places \ {"new", "gone"}, left : 0 .. BGChunks, seen : Nat, need : Nat]
        /\ r.at = at /\ r.seen = W(w).seen /\ r.left = W(w).left
    BY <1>2, <2>3, <2>5 DEF Places
  <2> HIDE DEF r
  <2>7. r.seen <= bgChannel /\ r.left > 0 /\ r.at # "parked"  BY <1>2, <2>1, <2>5, <2>6
  <2>8. /\ bgWriter' \in [BGWriters -> Writer]
        /\ bgEntries' = {v \in BGWriters : W(v)'.at \notin {"new", "gone"}}
        /\ \A v \in BGWriters : /\ W(v)'.seen <= bgChannel'
                                /\ W(v)'.at \notin {"ending", "gone"} => W(v)'.left > 0
        /\ NobodyForgotten'
    BY <2>1, <2>6, <2>7, WriterStep
  <2>9. bgNow \in Nat /\ bgDebt \in Nat /\ bgDebt + Refill(bgBucket) <= BGCapacity
    BY DEF GateKept, BGTypeOK
  <2>10. /\ bgBucket'.tokens = Refill(bgBucket) - got /\ bgBucket'.last = bgNow'
         /\ Refill(bgBucket) - got \in 0 .. BGCapacity
    BY <2>1, <2>3, <2>4, BGAssumption DEF BGAssumption
  <2>11. BGTypeOK'
    <3>1. bgBucket' \in [tokens : 0 .. BGCapacity, last : Nat] /\ bgDebt' \in Nat
      BY <2>1, <2>3, <2>4, <2>9, <2>10
    <3> QED BY <1>1, <2>1, <2>8, <3>1 DEF BGTypeOK
  <2>12. Refill(bgBucket)' = bgBucket'.tokens
    <3>1. bgNow' - bgBucket'.last = 0  BY <2>1, <2>9, <2>10
    <3>2. (bgNow' - bgBucket'.last) * BGRate = 0  BY <3>1, BGAssumption DEF BGAssumption
    <3> QED BY <2>10, <3>2, BGAssumption DEF Refill, BGAssumption
  <2>13. bgBucket'.last <= bgNow' /\ bgDebt' + Refill(bgBucket)' <= BGCapacity
    BY <2>1, <2>3, <2>4, <2>9, <2>10, <2>12, BGAssumption DEF BGAssumption
  <2> QED BY <2>8, <2>11, <2>13 DEF GateKept
<1>12. ASSUME Tick PROVE GateKept'
  <2>1. /\ bgNow' = bgNow + 1 /\ bgDebt' = (IF bgDebt > BGRate THEN bgDebt - BGRate ELSE 0)
        /\ UNCHANGED <<bgEntries, bgChannel, bgWriter, bgBucket>>
    BY <1>12 DEF Tick
  <2>2. /\ bgNow \in Nat /\ bgDebt \in Nat /\ bgBucket.last \in Nat /\ bgBucket.last <= bgNow
        /\ bgDebt + Refill(bgBucket) <= BGCapacity
    BY DEF GateKept, BGTypeOK
  <2>3. Refill(bgBucket) \in 0 .. BGCapacity  BY <1>1, <2>2, RefillBounded
  <2>4. BGTypeOK'  BY <1>1, <2>1, <2>2, BGAssumption DEF BGTypeOK, BGAssumption
  <2>5. bgBucket'.last <= bgNow'  BY <2>1, <2>2
  <2>6. /\ Refill(bgBucket)' \in 0 .. BGCapacity
        /\ Refill(bgBucket)' <= Refill(bgBucket) + BGRate
    BY <1>1, <2>1, <2>2, TickPays
  <2>7. bgDebt' + Refill(bgBucket)' <= BGCapacity
    BY <2>1, <2>2, <2>3, <2>6, BGAssumption DEF BGAssumption
  <2>8. NobodyForgotten'  BY <2>1 DEF GateKept, NobodyForgotten, Asleep, Outranked, Better, W
  <2> QED BY <2>1, <2>4, <2>5, <2>7, <2>8 DEF GateKept, W
<1>13. CASE UNCHANGED bgVars
  BY <1>13 DEF bgVars, GateKept, BGTypeOK, NobodyForgotten, Asleep, Outranked, Better, W, Refill
<1> QED BY <1>4, <1>5, <1>6, <1>8, <1>9, <1>10, <1>11, <1>12, <1>13 DEF BGNext, Run

\* The inductive invariant of the gate (prio.go, bwlimit.go).
THEOREM GateInvariance == BGSpec => []GateKept
<1>1. BGInit => GateKept  BY GateKeptInit
<1>2. GateKept /\ [BGNext]_bgVars => GateKept'  BY GateKeptStep
<1> QED BY <1>1, <1>2, PTL DEF BGSpec

\* A set of numbers has a least one.
LEMMA LeastNumber ==
    ASSUME NEW T \in SUBSET Nat, T # {}
    PROVE  \E n \in T : \A m \in T : n <= m
<1> DEFINE Below == {p \in Nat \X Nat : p[1] < p[2]}
<1>1. \A n, m \in Nat : m < n => <<m, n>> \in Below  OBVIOUS
<1>2. IsWellFoundedOn(Below, Nat)  BY NatLessThanWellFounded DEF OpToRel
<1> HIDE DEF Below
<1>3. PICK n \in T : \A m \in T : <<m, n>> \notin Below  BY <1>2, WFMin
<1>4. ASSUME NEW m \in T PROVE n <= m
  <2>1. n \in Nat /\ m \in Nat  OBVIOUS
  <2>2. ~(m < n)  BY <1>1, <1>3, <2>1
  <2> QED BY <2>1, <2>2
<1> QED BY <1>4

\* Better is a strict order, so of finitely many writers one is outranked by none:
\* the one that the fewest are better than.
LEMMA BestExists ==
    ASSUME NEW S \in SUBSET BGWriters, IsFiniteSet(S), S # {}
    PROVE  \E w \in S : \A v \in S : ~Better(v, w)
<1> DEFINE Above(w) == {v \in S : Better(v, w)}
           counts == {Cardinality(Above(w)) : w \in S}
<1>1. \A w \in S : IsFiniteSet(Above(w)) /\ Cardinality(Above(w)) \in Nat
  <2> SUFFICES ASSUME NEW w \in S PROVE IsFiniteSet(Above(w)) /\ Cardinality(Above(w)) \in Nat
    OBVIOUS
  <2>1. IsFiniteSet(Above(w))  BY FS_Subset
  <2> QED BY <2>1, FS_CardinalityType
<1>2. PICK n \in counts : \A m \in counts : n <= m
  <2>1. counts \in SUBSET Nat /\ counts # {}  BY <1>1
  <2> HIDE DEF counts
  <2> QED BY <2>1, LeastNumber
<1>3. PICK w \in S : n = Cardinality(Above(w))  BY <1>2
<1>4. ASSUME NEW v \in S, Better(v, w) PROVE FALSE
  <2>1. /\ \A x \in BGWriters : BGPriority[x] \in [long : BOOLEAN, gen : Nat, kind : {0, 1}]
    BY BGAssumption DEF BGAssumption
  <2>2. \A x \in S : Better(x, v) => Better(x, w)  BY <1>4, <2>1 DEF Better
  <2>3. ~Better(v, v)  BY <2>1 DEF Better
  <2>4. Above(v) \subseteq Above(w) /\ v \in Above(w) /\ v \notin Above(v)  BY <1>4, <2>2, <2>3
  <2>5. Cardinality(Above(v)) < Cardinality(Above(w))
    <3>1. /\ IsFiniteSet(Above(w)) /\ Cardinality(Above(w)) \in Nat
          /\ Cardinality(Above(v)) \in Nat
      BY <1>1
    <3> HIDE DEF Above
    <3>2. Above(v) # Above(w) /\ Above(v) \in SUBSET Above(w)  BY <2>4
    <3>3. /\ Cardinality(Above(v)) <= Cardinality(Above(w))
          /\ Cardinality(Above(w)) = Cardinality(Above(v)) => Above(w) = Above(v)
      BY <3>1, <3>2, FS_Subset
    <3> QED BY <3>1, <3>2, <3>3
  <2>6. Cardinality(Above(v)) \in counts  OBVIOUS
  <2> HIDE DEF counts
  <2>7. n \in Nat /\ Cardinality(Above(v)) \in Nat  BY <1>1, <1>3
  <2> HIDE DEF Above
  <2> QED BY <1>2, <1>3, <2>5, <2>6, <2>7
<1> QED BY <1>4

\* No wake-up is lost, the gate never has everyone asleep, and the bucket never
\* grants more than the rate and a burst: the safety half of GateDrains, for every
\* number of writers and priorities (prio.go wait, bwlimit.go reserve).
THEOREM GateStaysOpen == BGSpec => [](NobodyForgotten /\ SomebodyMoves /\ BurstHeld)
<1>1. GateKept => NobodyForgotten /\ SomebodyMoves /\ BurstHeld
  <2> SUFFICES ASSUME GateKept PROVE NobodyForgotten /\ SomebodyMoves /\ BurstHeld  OBVIOUS
  <2>1. NobodyForgotten  BY DEF GateKept
  <2>2. SomebodyMoves
    <3> SUFFICES ASSUME bgEntries # {} PROVE \E w \in bgEntries : ~Asleep(w)  BY DEF SomebodyMoves
    <3>1. bgEntries \in SUBSET BGWriters /\ IsFiniteSet(bgEntries)  BY DEF GateKept, BGTypeOK
    <3>2. PICK w \in bgEntries : \A v \in bgEntries : ~Better(v, w)  BY <3>1, BestExists
    <3>3. ~Outranked(w)  BY <3>2 DEF Outranked
    <3> QED BY <2>1, <3>1, <3>3 DEF NobodyForgotten
  <2>3. BurstHeld
    <3>1. Refill(bgBucket) \in 0 .. BGCapacity  BY RefillBounded DEF GateKept
    <3>2. bgDebt \in Nat /\ bgDebt + Refill(bgBucket) <= BGCapacity  BY DEF GateKept, BGTypeOK
    <3> QED BY <3>1, <3>2, BGAssumption DEF BurstHeld, BGAssumption
  <2> QED BY <2>1, <2>2, <2>3
<1> QED BY <1>1, GateInvariance, PTL

-----------------------------------------------------------------------------
(* MuxedFile: what the tables of a muxed file say of its bytes.            *)

\* What holds at 0 and after each turn when it held before holds to the end.
LEMMA UpTo ==
  ASSUME NEW n \in Nat, NEW P, 0 \in P, \A i \in 1 .. n : i - 1 \in P => i \in P
  PROVE  0 .. n \subseteq P
<1> DEFINE Lesser == {p \in Nat \X Nat : p[1] < p[2]}
           out == {i \in Nat : i <= n /\ i \notin P}
<1>1. \A k, m \in Nat : m < k => <<m, k>> \in Lesser  OBVIOUS
<1>2. IsWellFoundedOn(Lesser, Nat)  BY NatLessThanWellFounded DEF OpToRel
<1> HIDE DEF Lesser
<1> SUFFICES ASSUME out # {} PROVE FALSE  OBVIOUS
<1>3. PICK k \in out : \A m \in out : <<m, k>> \notin Lesser
  <2>1. out \subseteq Nat  OBVIOUS
  <2> HIDE DEF out
  <2> QED BY <1>2, <2>1, WFMin
<1>4. k \in 1 .. n /\ k - 1 \in Nat /\ k - 1 < k  OBVIOUS
<1>5. k - 1 \notin out  BY <1>1, <1>3, <1>4
<1> QED BY <1>4, <1>5

\* Whatever a turn does with a value it may meet, there is such a loop.
IsTurn(turn, n, S) == turn \in [1 .. n -> [S -> S]]
IsLoop(g, n, base, turn, S) ==
  g \in [0 .. n -> S] /\ g[0] = base /\ \A i \in 1 .. n : g[i] = turn[i][g[i - 1]]

LEMMA TurnsExist ==
  ASSUME NEW S, NEW base \in S, NEW n \in Nat, NEW turn, IsTurn(turn, n, S)
  PROVE  \E g : IsLoop(g, n, base, turn, S)
<1> USE DEF IsTurn, IsLoop
<1> DEFINE Upto(m) == \E g \in [0 .. m -> S] :
                        g[0] = base /\ \A i \in 1 .. m : g[i] = turn[i][g[i - 1]]
           P == {m \in 0 .. n : Upto(m)}
<1>1. 0 \in P
  <2> DEFINE g == [i \in 0 .. 0 |-> base]
  <2>1. g \in [0 .. 0 -> S] /\ g[0] = base /\ \A i \in 1 .. 0 : g[i] = turn[i][g[i - 1]]
    OBVIOUS
  <2>2. Upto(0)  BY <2>1
  <2> QED BY <2>2
<1>2. ASSUME NEW m \in 1 .. n, m - 1 \in P PROVE m \in P
  <2>1. PICK g \in [0 .. m - 1 -> S] :
          g[0] = base /\ \A i \in 1 .. m - 1 : g[i] = turn[i][g[i - 1]]
    BY <1>2
  <2> DEFINE h == [i \in 0 .. m |-> IF i = m THEN turn[m][g[m - 1]] ELSE g[i]]
  <2>2. g[m - 1] \in S /\ turn[m] \in [S -> S]  BY <2>1
  <2>3. h \in [0 .. m -> S]
    <3>1. \A i \in 0 .. m : i # m => i \in 0 .. m - 1  OBVIOUS
    <3> QED BY <2>1, <2>2, <3>1
  <2>4. h[0] = base  BY <2>1
  <2>5. ASSUME NEW i \in 1 .. m PROVE h[i] = turn[i][h[i - 1]]
    <3>1. i - 1 \in 0 .. m /\ i - 1 # m /\ h[i - 1] = g[i - 1]  OBVIOUS
    <3>2. CASE i = m  BY <3>1, <3>2
    <3>3. CASE i \in 1 .. m - 1  BY <2>1, <3>1, <3>3
    <3> QED BY <3>2, <3>3
  <2>6. Upto(m)
    <3> HIDE DEF h
    <3> QED BY <2>3, <2>4, <2>5
  <2>7. m \in 0 .. n  OBVIOUS
  <2> QED BY <2>6, <2>7
<1>3. n \in P
  <2> HIDE DEF P
  <2>1. 0 .. n \subseteq P  BY <1>1, <1>2, UpTo
  <2> QED BY <2>1
<1> QED BY <1>3

\* The sums so far.
LEMMA SumsTurn ==
  ASSUME NEW s \in Seq(Nat)
  PROVE  /\ Sums(s) \in [0 .. Len(s) -> Nat] /\ Sums(s)[0] = 0
         /\ \A i \in 1 .. Len(s) : Sums(s)[i] = Sums(s)[i - 1] + s[i]
<1> DEFINE n == Len(s)
           turn == [i \in 1 .. n |-> [x \in Nat |-> x + s[i]]]
<1>1. n \in Nat
  OBVIOUS
<1>2. \A i \in 1 .. n : s[i] \in Nat  OBVIOUS
<1>3. turn \in [1 .. n -> [Nat -> Nat]]  BY <1>2
<1>4. IsTurn(turn, n, Nat)  BY <1>3 DEF IsTurn
<1>5. PICK g \in [0 .. n -> Nat] : g[0] = 0 /\ \A i \in 1 .. n : g[i] = g[i - 1] + s[i]
  <2>1. PICK g : IsLoop(g, n, 0, turn, Nat)
    <3>1. 0 \in Nat  OBVIOUS
    <3> HIDE DEF n, turn
    <3> QED BY <1>1, <1>4, <3>1, TurnsExist
  <2>2. ASSUME NEW i \in 1 .. n, NEW x \in Nat PROVE turn[i][x] = x + s[i]  OBVIOUS
  <2>3. \A i \in 1 .. n : i - 1 \in 0 .. n  BY <1>1
  <2> HIDE DEF turn
  <2>4. \A i \in 1 .. n : g[i - 1] \in Nat  BY <2>1, <2>3 DEF IsLoop
  <2>5. \A i \in 1 .. n : g[i] = g[i - 1] + s[i]  BY <2>1, <2>2, <2>4 DEF IsLoop
  <2> QED BY <2>1, <2>5 DEF IsLoop
<1>6. g = [i \in 0 .. n |-> IF i = 0 THEN 0 ELSE g[i - 1] + s[i]]
  <2>1. \A i \in 0 .. n : g[i] = IF i = 0 THEN 0 ELSE g[i - 1] + s[i]  BY <1>5
  <2>2. g = [i \in 0 .. n |-> g[i]]  OBVIOUS
  <2> QED BY <2>1, <2>2
<1>7. Sums(s) = [i \in 0 .. n |-> IF i = 0 THEN 0 ELSE Sums(s)[i - 1] + s[i]]
  BY <1>6 DEF Sums, Turns
<1>8. Sums(s)[0] = 0 /\ \A i \in 1 .. n : Sums(s)[i] = Sums(s)[i - 1] + s[i]
  <2> DEFINE f == Sums(s)
  <2>1. f = [i \in 0 .. n |-> IF i = 0 THEN 0 ELSE f[i - 1] + s[i]]  BY <1>7
  <2> HIDE DEF f
  <2>2. f[0] = 0 /\ \A i \in 1 .. n : f[i] = f[i - 1] + s[i]  BY <1>1, <1>2, <2>1
  <2> QED BY <2>2 DEF f
<1>9. \A i \in 0 .. n : Sums(s)[i] \in Nat
  <2> DEFINE P == {i \in 0 .. n : Sums(s)[i] \in Nat}
  <2>1. 0 \in P  BY <1>1, <1>2, <1>8
  <2>2. \A i \in 1 .. n : i - 1 \in P => i \in P  BY <1>1, <1>2, <1>8
  <2>3. 0 .. n \subseteq P
    <3> HIDE DEF P
    <3> QED BY <1>1, <1>2, <2>1, <2>2, UpTo
  <2> QED BY <2>3
<1> QED BY <1>7, <1>8, <1>9
\* The sequences put end to end so far.
LEMMA FlatTurn ==
  ASSUME NEW T, NEW ss \in Seq(Seq(T))
  PROVE  /\ FlatSoFar(ss) \in [0 .. Len(ss) -> Seq(T)] /\ FlatSoFar(ss)[0] = << >>
         /\ \A i \in 1 .. Len(ss) : FlatSoFar(ss)[i] = FlatSoFar(ss)[i - 1] \o ss[i]
<1> DEFINE n == Len(ss)
           S == Seq(T)
           base == << >>
           Turn(x, i) == x \o ss[i]
           turn == [i \in 1 .. n |-> [x \in S |-> Turn(x, i)]]
           f == FlatSoFar(ss)
<1>1. n \in Nat  OBVIOUS
<1>2. base \in S  OBVIOUS
<1>3. ASSUME NEW i \in 1 .. n, NEW x \in S PROVE Turn(x, i) \in S
  OBVIOUS
<1>4. ASSUME NEW g, g = [i \in 0 .. n |-> IF i = 0 THEN base ELSE Turn(g[i - 1], i)]
      PROVE  f = [i \in 0 .. n |-> IF i = 0 THEN base ELSE Turn(f[i - 1], i)]
  BY <1>4 DEF FlatSoFar, Turns
<1> HIDE DEF n, S, base, Turn, f
<1>5. IsTurn(turn, n, S)  BY <1>3 DEF IsTurn
<1>6. \A i \in 1 .. n, x \in S : turn[i][x] = Turn(x, i)  OBVIOUS
<1> HIDE DEF turn
<1>7. PICK g : IsLoop(g, n, base, turn, S)  BY <1>1, <1>2, <1>5, TurnsExist
<1>8. \A i \in 1 .. n : i - 1 \in 0 .. n /\ g[i] = Turn(g[i - 1], i)
  BY <1>1, <1>6, <1>7 DEF IsLoop
<1>9. g = [i \in 0 .. n |-> IF i = 0 THEN base ELSE Turn(g[i - 1], i)]
  <2>1. \A i \in 0 .. n : g[i] = IF i = 0 THEN base ELSE Turn(g[i - 1], i)
    BY <1>1, <1>7, <1>8 DEF IsLoop
  <2>2. g = [i \in 0 .. n |-> g[i]]  BY <1>7 DEF IsLoop
  <2> QED BY <2>1, <2>2
<1>10. f = [i \in 0 .. n |-> IF i = 0 THEN base ELSE Turn(f[i - 1], i)]  BY <1>4, <1>9
<1>11. f[0] = base /\ \A i \in 1 .. n : i - 1 \in 0 .. n /\ f[i] = Turn(f[i - 1], i)
  BY <1>1, <1>10
<1>12. \A i \in 0 .. n : f[i] \in S
  <2> DEFINE P == {i \in 0 .. n : f[i] \in S}
  <2>1. 0 \in P  BY <1>1, <1>2, <1>11
  <2>2. \A i \in 1 .. n : i - 1 \in P => i \in P  BY <1>3, <1>11
  <2>3. 0 .. n \subseteq P
    <3> HIDE DEF P
    <3> QED BY <1>1, <2>1, <2>2, UpTo
  <2> QED BY <2>3
<1>13. f \in [0 .. n -> S]  BY <1>10, <1>12
<1> QED BY <1>11, <1>13 DEF n, S, base, Turn, f

\* Sums only grow,
LEMMA SumsGrow ==
  ASSUME NEW s \in Seq(Nat)
  PROVE  \A j \in 0 .. Len(s) : \A i \in 0 .. j : Sums(s)[i] <= Sums(s)[j]
<1> DEFINE n == Len(s)
           f == Sums(s)
           P == {j \in 0 .. n : \A i \in 0 .. j : f[i] <= f[j]}
<1>1. n \in Nat /\ f \in [0 .. n -> Nat] /\ \A i \in 1 .. n : f[i] = f[i - 1] + s[i] /\ s[i] \in Nat
  BY SumsTurn
<1> HIDE DEF n, f
<1>2. 0 \in P  BY <1>1
<1>3. ASSUME NEW j \in 1 .. n, j - 1 \in P PROVE j \in P
  <2>0. j - 1 \in 0 .. n /\ j \in 0 .. n  BY <1>1
  <2>1. f[j - 1] <= f[j] /\ f[j - 1] \in Nat /\ f[j] \in Nat
    <3>1. f[j - 1] \in Nat /\ f[j] \in Nat /\ s[j] \in Nat  BY <1>1, <2>0
    <3>2. f[j] = f[j - 1] + s[j]  BY <1>1
    <3> QED BY <3>1, <3>2
  <2>2. ASSUME NEW i \in 0 .. j PROVE f[i] <= f[j]
    <3>1. CASE i = j  BY <2>1, <3>1
    <3>2. CASE i \in 0 .. j - 1
      <4>1. f[i] <= f[j - 1] /\ f[i] \in Nat  BY <1>1, <1>3, <3>2
      <4> QED BY <2>1, <4>1
    <3> QED BY <3>1, <3>2
  <2> QED BY <2>2
<1>4. 0 .. n \subseteq P
  <2> HIDE DEF P
  <2> QED BY <1>1, <1>2, <1>3, UpTo
<1> QED BY <1>4 DEF n, f

\* are the same of the same numbers,
LEMMA SumsAgree ==
  ASSUME NEW s \in Seq(Nat), NEW r \in Seq(Nat), NEW m \in Nat, m <= Len(s), m <= Len(r),
         \A i \in 1 .. m : s[i] = r[i]
  PROVE  \A i \in 0 .. m : Sums(s)[i] = Sums(r)[i]
<1> DEFINE P == {i \in 0 .. m : Sums(s)[i] = Sums(r)[i]}
<1>1. /\ Sums(s)[0] = 0 /\ \A i \in 1 .. Len(s) : Sums(s)[i] = Sums(s)[i - 1] + s[i]
      /\ Sums(r)[0] = 0 /\ \A i \in 1 .. Len(r) : Sums(r)[i] = Sums(r)[i - 1] + r[i]
  BY SumsTurn
<1>2. 0 \in P  BY <1>1
<1>3. \A i \in 1 .. m : i \in 1 .. Len(s) /\ i \in 1 .. Len(r)  OBVIOUS
<1>4. \A i \in 1 .. m : i - 1 \in P => i \in P  BY <1>1, <1>3
<1>5. 0 .. m \subseteq P
  <2> HIDE DEF P
  <2> QED BY <1>2, <1>4, UpTo
<1> QED BY <1>5

\* and one of the numbers, and no other, brings them to n.
LEMMA HolderIs ==
  ASSUME NEW s \in Seq(Nat), NEW c \in 1 .. Len(s), NEW n \in Int,
         Sums(s)[c - 1] < n, n <= Sums(s)[c]
  PROVE  Holder(s, n) = c
<1> DEFINE f == Sums(s)
<1>1. Len(s) \in Nat /\ f \in [0 .. Len(s) -> Nat]  BY SumsTurn
<1>2. \A j \in 0 .. Len(s) : \A i \in 0 .. j : f[i] <= f[j]  BY SumsGrow
<1> HIDE DEF f
<1>3. ASSUME NEW d \in 1 .. Len(s), f[d - 1] < n, n <= f[d] PROVE d = c
  <2>1. /\ c \in 0 .. Len(s) /\ d \in 0 .. Len(s)
        /\ c - 1 \in 0 .. Len(s) /\ d - 1 \in 0 .. Len(s)
    BY <1>1
  <2>2. f[c] \in Nat /\ f[d] \in Nat /\ f[c - 1] \in Nat /\ f[d - 1] \in Nat  BY <1>1, <2>1
  <2>3. f[c - 1] < n /\ n <= f[c]  BY DEF f
  <2>4. ~(c < d)
    <3> SUFFICES ASSUME c < d PROVE FALSE  OBVIOUS
    <3>1. c \in 0 .. d - 1  OBVIOUS
    <3>2. f[c] <= f[d - 1]  BY <1>2, <2>1, <3>1
    <3> QED BY <1>3, <2>2, <2>3, <3>2
  <2>5. ~(d < c)
    <3> SUFFICES ASSUME d < c PROVE FALSE  OBVIOUS
    <3>1. d \in 0 .. c - 1  OBVIOUS
    <3>2. f[d] <= f[c - 1]  BY <1>2, <2>1, <3>1
    <3> QED BY <1>3, <2>2, <2>3, <3>2
  <2> QED BY <2>4, <2>5
<1>4. f[c - 1] < n /\ n <= f[c]  BY DEF f
<1>5. Holder(s, n) = CHOOSE d \in 1 .. Len(s) : f[d - 1] < n /\ n <= f[d]  BY DEF Holder, f
<1> QED BY <1>3, <1>4, <1>5

LEMMA HolderExists ==
  ASSUME NEW s \in Seq(Nat), NEW n \in 1 .. Total(s)
  PROVE  \E c \in 1 .. Len(s) :
           /\ Sums(s)[c - 1] < n /\ n <= Sums(s)[c] /\ Holder(s, n) = c
           /\ n - Sums(s)[c - 1] \in 1 .. s[c]
<1> DEFINE m == Len(s)
           f == Sums(s)
           P == {j \in 0 .. m : f[j] < n}
<1>1. /\ m \in Nat /\ f \in [0 .. m -> Nat] /\ f[0] = 0
      /\ \A i \in 1 .. m : f[i] = f[i - 1] + s[i] /\ s[i] \in Nat
  BY SumsTurn
<1>2. n \in 1 .. f[m] /\ n \in Int /\ f[m] \in Nat  BY <1>1 DEF Total
<1>3. PICK c \in 1 .. m : f[c - 1] < n /\ n <= f[c]
  <2>0. \A c \in 1 .. m : c \in 0 .. m /\ f[c] \in Nat
    <3> HIDE DEF f, m
    <3> QED BY <1>1
  <2> HIDE DEF f, m
  <2> SUFFICES ASSUME \A c \in 1 .. m : f[c - 1] < n => f[c] < n PROVE FALSE
    BY <1>2, <2>0
  <2>1. 0 \in P  BY <1>1, <1>2
  <2>2. \A j \in 1 .. m : j - 1 \in P => j \in P  OBVIOUS
  <2>3. 0 .. m \subseteq P
    <3> HIDE DEF P
    <3> QED BY <1>1, <2>1, <2>2, UpTo
  <2>4. m \in P  BY <1>1, <2>3
  <2> QED BY <1>2, <2>4
<1>4. Holder(s, n) = c  BY <1>2, <1>3, HolderIs
<1>5. n - f[c - 1] \in 1 .. s[c]
  <2>1. f[c - 1] \in Nat /\ f[c] = f[c - 1] + s[c] /\ s[c] \in Nat
    <3>1. c - 1 \in 0 .. m  BY <1>1
    <3> QED BY <1>1, <3>1
  <2> QED BY <1>2, <1>3, <2>1
<1> QED BY <1>3, <1>4, <1>5

\* The lengths of sequences.
Lens(ss) == [c \in 1 .. Len(ss) |-> Len(ss[c])]

LEMMA LensAre ==
  ASSUME NEW T, NEW ss \in Seq(Seq(T))
  PROVE  /\ Lens(ss) \in Seq(Nat) /\ Len(Lens(ss)) = Len(ss) /\ Len(ss) \in Nat
         /\ \A c \in 1 .. Len(ss) : ss[c] \in Seq(T) /\ Lens(ss)[c] = Len(ss[c])
                                    /\ Len(ss[c]) \in Nat
<1>1. Len(ss) \in Nat /\ \A c \in 1 .. Len(ss) : ss[c] \in Seq(T)  OBVIOUS
<1>2. \A c \in 1 .. Len(ss) : Len(ss[c]) \in Nat  BY <1>1
<1> QED BY <1>1, <1>2 DEF Lens

\* Sequences put end to end: how many, and where each element is.
LEMMA FlatIs ==
  ASSUME NEW T, NEW ss \in Seq(Seq(T))
  PROVE  /\ Flat(ss) \in Seq(T) /\ Len(Flat(ss)) = Total(Lens(ss))
         /\ \A c \in 1 .. Len(ss) : \A i \in 1 .. Len(ss[c]) :
              /\ Sums(Lens(ss))[c - 1] + i \in 1 .. Len(Flat(ss))
              /\ Flat(ss)[Sums(Lens(ss))[c - 1] + i] = ss[c][i]
<1> DEFINE n == Len(ss)
           f == Sums(Lens(ss))
           F == FlatSoFar(ss)
           P == {m \in 0 .. n : /\ Len(F[m]) = f[m]
                                /\ \A c \in 1 .. m : \A i \in 1 .. Len(ss[c]) :
                                     f[c - 1] + i \in 1 .. f[m] /\ F[m][f[c - 1] + i] = ss[c][i]}
<1>1. n \in Nat /\ \A c \in 1 .. n : ss[c] \in Seq(T) /\ Len(ss[c]) \in Nat  BY LensAre
<1>2. f \in [0 .. n -> Nat] /\ f[0] = 0 /\ \A c \in 1 .. n : f[c] = f[c - 1] + Len(ss[c])
  <2>1. /\ Lens(ss) \in Seq(Nat) /\ Len(Lens(ss)) = n
        /\ \A c \in 1 .. n : Lens(ss)[c] = Len(ss[c])
    BY LensAre
  <2> QED BY <2>1, SumsTurn
<1>3. F \in [0 .. n -> Seq(T)] /\ F[0] = << >> /\ \A c \in 1 .. n : F[c] = F[c - 1] \o ss[c]
  BY FlatTurn
<1>4. Flat(ss) = F[n] /\ Total(Lens(ss)) = f[n]
  BY LensAre DEF Flat, Total
<1> HIDE DEF n, f, F
<1>5. 0 \in P  BY <1>1, <1>2, <1>3
<1>6. ASSUME NEW m \in 1 .. n, m - 1 \in P PROVE m \in P
  <2> DEFINE a == F[m - 1]
             b == ss[m]
  <2>0. m - 1 \in 0 .. n /\ m \in 0 .. n /\ f[m - 1] \in Nat /\ f[m] \in Nat  BY <1>1, <1>2
  <2>1. a \in Seq(T) /\ b \in Seq(T) /\ F[m] = a \o b /\ f[m] = f[m - 1] + Len(b)
    <3>1. a \in Seq(T)  BY <1>3, <2>0
    <3> QED BY <1>1, <1>2, <1>3, <3>1
  <2>2. /\ Len(a) = f[m - 1]
        /\ \A c \in 1 .. m - 1 : \A i \in 1 .. Len(ss[c]) :
             f[c - 1] + i \in 1 .. f[m - 1] /\ a[f[c - 1] + i] = ss[c][i]
    BY <1>6
  <2>3. Len(b) \in Nat  BY <1>1
  <2> HIDE DEF a
  <2>4. /\ Len(a \o b) = Len(a) + Len(b)
        /\ \A k \in 1 .. Len(a) : (a \o b)[k] = a[k]
        /\ \A k \in 1 .. Len(b) : (a \o b)[Len(a) + k] = b[k]
    <3> HIDE DEF b
    <3> QED BY <2>1
  <2>5. Len(F[m]) = f[m]  BY <2>1, <2>2, <2>4
  <2>6. ASSUME NEW c \in 1 .. m, NEW i \in 1 .. Len(ss[c])
        PROVE  f[c - 1] + i \in 1 .. f[m] /\ F[m][f[c - 1] + i] = ss[c][i]
    <3>1. CASE c = m
      <4>1. i \in 1 .. Len(b) /\ Len(a) + i \in 1 .. f[m]  BY <2>0, <2>1, <2>2, <2>3, <3>1
      <4>2. (a \o b)[Len(a) + i] = b[i]  BY <2>4, <4>1
      <4> QED BY <2>1, <2>2, <3>1, <4>1, <4>2
    <3>2. CASE c \in 1 .. m - 1
      <4>1. f[c - 1] + i \in 1 .. f[m - 1] /\ a[f[c - 1] + i] = ss[c][i]  BY <2>2, <3>2
      <4> DEFINE k == f[c - 1] + i
      <4>2. k \in 1 .. Len(a)  BY <2>2, <4>1
      <4>3. k \in 1 .. f[m] /\ a[k] = ss[c][i]
        <5>1. k \in 1 .. f[m - 1] /\ a[k] = ss[c][i]  BY <4>1
        <5>2. f[m] = f[m - 1] + Len(b)  BY <2>1
        <5>3. f[m - 1] <= f[m]
          <6> HIDE DEF b
          <6> QED BY <2>0, <2>3, <5>2
        <5> HIDE DEF k, b
        <5> QED BY <2>0, <5>1, <5>3
      <4> HIDE DEF k
      <4>4. F[m][k] = ss[c][i]  BY <2>1, <2>4, <4>2, <4>3
      <4> QED BY <4>3, <4>4 DEF k
    <3> QED BY <3>1, <3>2
  <2> QED BY <2>5, <2>6
<1>7. n \in P
  <2>1. 0 .. n \subseteq P
    <3> HIDE DEF P
    <3> QED BY <1>1, <1>5, <1>6, UpTo
  <2> QED BY <1>1, <2>1
<1>8. F[n] \in Seq(T)  BY <1>1, <1>3
<1> QED BY <1>4, <1>7, <1>8 DEF n, f
LEMMA FlatOf ==
  ASSUME NEW T, NEW ss \in Seq(Seq(T)), NEW n \in 1 .. Len(Flat(ss))
  PROVE  \E c \in 1 .. Len(ss) : \E i \in 1 .. Len(ss[c]) :
           n = Sums(Lens(ss))[c - 1] + i /\ Flat(ss)[n] = ss[c][i]
<1> DEFINE s == Lens(ss)
<1>1. /\ s \in Seq(Nat) /\ Len(s) = Len(ss) /\ Len(ss) \in Nat
      /\ \A c \in 1 .. Len(ss) : s[c] = Len(ss[c])
  BY LensAre
<1>2. n \in 1 .. Total(s)  BY FlatIs
<1>3. Sums(s) \in [0 .. Len(s) -> Nat]  BY <1>1, SumsTurn
<1>4. /\ Len(Flat(ss)) = Total(s)
      /\ \A c \in 1 .. Len(ss) : \A i \in 1 .. Len(ss[c]) : Flat(ss)[Sums(s)[c - 1] + i] = ss[c][i]
  BY FlatIs
<1> HIDE DEF s
<1>5. PICK c \in 1 .. Len(s) : n - Sums(s)[c - 1] \in 1 .. s[c]  BY <1>1, <1>2, HolderExists
<1> DEFINE i == n - Sums(s)[c - 1]
<1>6. c \in 1 .. Len(ss) /\ i \in 1 .. Len(ss[c])  BY <1>1, <1>5
<1>7. n = Sums(s)[c - 1] + i
  <2>1. c - 1 \in 0 .. Len(s)  BY <1>1
  <2>2. Sums(s)[c - 1] \in Nat  BY <1>3, <2>1
  <2>3. n \in Int  OBVIOUS
  <2> QED BY <2>2, <2>3
<1> HIDE DEF i
<1>8. Flat(ss)[n] = ss[c][i]  BY <1>4, <1>6, <1>7
<1> QED BY <1>6, <1>7, <1>8 DEF s

\* One sequence more goes to the end.
LEMMA FlatLast ==
  ASSUME NEW T, NEW ss \in Seq(Seq(T)), NEW rr \in Seq(Seq(T)), Len(rr) = Len(ss) + 1,
         \A c \in 1 .. Len(ss) : rr[c] = ss[c]
  PROVE  Flat(rr) = Flat(ss) \o rr[Len(ss) + 1]
<1> DEFINE n == Len(ss)
           f == FlatSoFar(ss)
           g == FlatSoFar(rr)
           P == {i \in 0 .. n : f[i] = g[i]}
<1>1. n \in Nat /\ n + 1 \in 1 .. Len(rr) /\ (n + 1) - 1 = n  OBVIOUS
<1>2. /\ f[0] = << >> /\ \A i \in 1 .. n : f[i] = f[i - 1] \o ss[i]
      /\ g[0] = << >> /\ \A i \in 1 .. n + 1 : g[i] = g[i - 1] \o rr[i]
  BY FlatTurn
<1>3. Flat(ss) = f[n] /\ Flat(rr) = g[n + 1]  BY DEF Flat
<1>4. \A i \in 1 .. n : i \in 1 .. n + 1 /\ rr[i] = ss[i]  OBVIOUS
<1>5. n + 1 \in 1 .. n + 1  BY <1>1
<1> HIDE DEF f, g, n
<1>6. 0 \in P  BY <1>1, <1>2
<1>7. ASSUME NEW i \in 1 .. n, i - 1 \in P PROVE i \in P
  <2>1. f[i] = f[i - 1] \o ss[i] /\ g[i] = g[i - 1] \o rr[i] /\ rr[i] = ss[i]  BY <1>2, <1>4
  <2>2. f[i - 1] = g[i - 1] /\ i \in 0 .. n  BY <1>1, <1>7
  <2>3. f[i] = g[i]  BY <2>1, <2>2
  <2> QED BY <2>2, <2>3
<1>8. n \in P
  <2>1. 0 .. n \subseteq P
    <3> HIDE DEF P
    <3> QED BY <1>1, <1>6, <1>7, UpTo
  <2> QED BY <1>1, <2>1
<1>9. g[n + 1] = g[n] \o rr[n + 1]  BY <1>1, <1>2, <1>5
<1>10. Flat(rr) = Flat(ss) \o rr[n + 1]  BY <1>3, <1>8, <1>9
<1> QED BY <1>10 DEF n

\* A run of equal values: what the runs say of the values so far.
RunOf(V) == [count : Nat, value : V]
Counts(runs) == [k \in 1 .. Len(runs) |-> runs[k].count]
Tells(runs, values, m) ==
  /\ Total(Counts(runs)) = m
  /\ \A k \in 1 .. Len(runs) : \A n \in 1 .. m :
       Sums(Counts(runs))[k - 1] < n /\ n <= Sums(Counts(runs))[k] => runs[k].value = values[n]

LEMMA LongerType ==
  ASSUME NEW V, NEW v \in V, NEW runs \in Seq(RunOf(V))
  PROVE  Longer(runs, v) \in Seq(RunOf(V))
<1>1. CASE runs # << >> /\ runs[Len(runs)].value = v
  <2>1. Len(runs) \in 1 .. Len(runs) /\ Len(runs) \in Nat  BY <1>1
  <2>2. runs[Len(runs)] \in RunOf(V)  BY <2>1
  <2>3. Alike(runs[Len(runs)].count + 1, v) \in RunOf(V)  BY <2>2 DEF Alike, RunOf
  <2> HIDE DEF RunOf
  <2>4. [runs EXCEPT ![Len(runs)] = Alike(runs[Len(runs)].count + 1, v)] \in Seq(RunOf(V))
    BY <2>1, <2>3
  <2> QED BY <1>1, <2>4 DEF Longer
<1>2. CASE ~ (runs # << >> /\ runs[Len(runs)].value = v)
  <2>1. Alike(1, v) \in RunOf(V)  BY DEF Alike, RunOf
  <2>2. Append(runs, Alike(1, v)) \in Seq(RunOf(V))  BY <2>1
  <2> QED BY <1>2, <2>2 DEF Longer
<1> QED BY <1>1, <1>2

LEMMA CountsAre ==
  ASSUME NEW V, NEW runs \in Seq(RunOf(V))
  PROVE  /\ Counts(runs) \in Seq(Nat) /\ Len(Counts(runs)) = Len(runs) /\ Len(runs) \in Nat
         /\ \A k \in 1 .. Len(runs) : Counts(runs)[k] = runs[k].count
                                      /\ runs[k].count \in Nat /\ runs[k] \in RunOf(V)
<1>1. Len(runs) \in Nat /\ \A k \in 1 .. Len(runs) : runs[k] \in RunOf(V)  OBVIOUS
<1>2. \A k \in 1 .. Len(runs) : runs[k].count \in Nat  BY <1>1 DEF RunOf
<1> QED BY <1>1, <1>2 DEF Counts

LEMMA LongerTells ==
  ASSUME NEW V, NEW values \in Seq(V), NEW m \in 1 .. Len(values),
         NEW runs \in Seq(RunOf(V)), Tells(runs, values, m - 1)
  PROVE  Tells(Longer(runs, values[m]), values, m)
<1> DEFINE v == values[m]
           next == Longer(runs, v)
           c == Counts(runs)
           d == Counts(next)
           L == Len(runs)
           f == Sums(c)
           g == Sums(d)
<1>1. m \in Nat /\ v \in V  OBVIOUS
<1>2. next \in Seq(RunOf(V))  BY <1>1, LongerType
<1>3. /\ c \in Seq(Nat) /\ Len(c) = L /\ L \in Nat
      /\ \A k \in 1 .. L : c[k] = runs[k].count /\ c[k] \in Nat
  BY CountsAre
<1>4. /\ d \in Seq(Nat) /\ Len(d) = Len(next) /\ Len(next) \in Nat
      /\ \A k \in 1 .. Len(next) : d[k] = next[k].count /\ d[k] \in Nat
  BY <1>2, CountsAre
<1>5. /\ f \in [0 .. L -> Nat] /\ f[0] = 0 /\ \A i \in 1 .. L : f[i] = f[i - 1] + c[i]
      /\ \A j \in 0 .. L : \A i \in 0 .. j : f[i] <= f[j]
      /\ f[L] = m - 1
      /\ \A k \in 1 .. L : \A n \in 1 .. m - 1 : f[k - 1] < n /\ n <= f[k] => runs[k].value = values[n]
  BY <1>3, SumsTurn, SumsGrow DEF Tells, Total
<1>6. g \in [0 .. Len(next) -> Nat] /\ \A i \in 1 .. Len(next) : g[i] = g[i - 1] + d[i]
  BY <1>4, SumsTurn
<1>7. CASE runs # << >> /\ runs[L].value = v
  <2>1. L \in 1 .. L /\ L - 1 \in Nat /\ L - 1 \in 0 .. L /\ L \in 0 .. L  BY <1>3, <1>7
  <2>2. next = [runs EXCEPT ![L] = Alike(runs[L].count + 1, v)]  BY <1>7 DEF Longer
  <2>3. Len(next) = L /\ next[L] = Alike(runs[L].count + 1, v)
        /\ \A k \in 1 .. L - 1 : next[k] = runs[k]
    <3> HIDE DEF next, v, L
    <3>1. DOMAIN next = 1 .. Len(runs) /\ DOMAIN next = 1 .. Len(next)  BY <1>2, <2>2
    <3>2. Len(next) = L  BY <1>2, <1>3, <1>4, <3>1 DEF L
    <3> QED BY <1>3, <2>1, <2>2, <3>2 DEF L
  <2>4. next[L].value = v /\ next[L].count = c[L] + 1  BY <1>3, <2>1, <2>3 DEF Alike
  <2> HIDE DEF c, d, f, g, next, v, L
  <2>5. ASSUME NEW k \in 1 .. L - 1 PROVE d[k] = c[k]
    <3>1. k \in 1 .. L  BY <2>1
    <3>2. k \in 1 .. Len(next) /\ next[k] = runs[k]  BY <2>3, <3>1
    <3>3. d[k] = next[k].count  BY <1>4, <3>2
    <3>4. c[k] = runs[k].count  BY <1>3, <3>1
    <3> QED BY <3>2, <3>3, <3>4
  <2>6. \A i \in 0 .. L - 1 : g[i] = f[i]
    <3>1. L - 1 <= Len(d) /\ L - 1 <= Len(c)  BY <1>3, <1>4, <2>3
    <3> QED BY <1>3, <1>4, <2>1, <2>5, <3>1, SumsAgree DEF f, g
  <2>7. g[L] = m
    <3>1. d[L] = c[L] + 1  BY <1>4, <2>1, <2>3, <2>4
    <3>2. g[L] = g[L - 1] + d[L] /\ f[L] = f[L - 1] + c[L]  BY <1>5, <1>6, <2>1, <2>3
    <3>3. g[L - 1] = f[L - 1] /\ f[L - 1] \in Nat /\ c[L] \in Nat  BY <1>3, <1>5, <2>1, <2>6
    <3>4. f[L] = m - 1  BY <1>5
    <3>5. f[L] + 1 = m  BY <1>1, <3>4
    <3>6. g[L] = f[L] + 1  BY <3>1, <3>2, <3>3
    <3> QED BY <3>5, <3>6
  <2>8. ASSUME NEW k \in 1 .. L, NEW n \in 1 .. m, g[k - 1] < n, n <= g[k]
        PROVE  next[k].value = values[n]
    <3>1. CASE k = L /\ n = m  BY <2>4, <3>1 DEF v
    <3>2. CASE k = L /\ n # m
      <4>1. n \in 1 .. m - 1 /\ n <= f[L]  BY <1>1, <1>5, <3>2
      <4>2. f[L - 1] < n  BY <2>1, <2>6, <2>8, <3>2
      <4>3. runs[L].value = values[n]  BY <1>5, <2>1, <4>1, <4>2
      <4> QED BY <1>7, <2>4, <3>2, <4>3
    <3>3. CASE k # L
      <4>1. k \in 1 .. L - 1 /\ k \in 0 .. L - 1 /\ k - 1 \in 0 .. L - 1 /\ k \in 0 .. L
        BY <2>1, <3>3
      <4>2. f[k - 1] < n /\ n <= f[k]  BY <2>6, <2>8, <4>1
      <4>3. f[k] <= m - 1 /\ f[k] \in Nat  BY <1>5, <2>1, <4>1
      <4>4. n \in 1 .. m - 1  BY <1>1, <4>2, <4>3
      <4>5. runs[k].value = values[n]  BY <1>5, <4>2, <4>4
      <4> QED BY <2>3, <4>1, <4>5
    <3> QED BY <3>1, <3>2, <3>3
  <2> QED BY <1>4, <2>3, <2>7, <2>8 DEF Tells, Total, d, g, next, v
<1>8. CASE ~ (runs # << >> /\ runs[L].value = v)
  <2>1. next = Append(runs, Alike(1, v))  BY <1>8 DEF Longer
  <2>2. Len(next) = L + 1 /\ next[L + 1] = Alike(1, v) /\ \A k \in 1 .. L : next[k] = runs[k]
    <3> HIDE DEF next, v
    <3> QED BY <2>1
  <2>3. next[L + 1].value = v /\ next[L + 1].count = 1  BY <2>2 DEF Alike
  <2> HIDE DEF c, d, f, g, next, v, L
  <2>4. ASSUME NEW k \in 1 .. L PROVE d[k] = c[k]
    <3>1. k \in 1 .. Len(next) /\ next[k] = runs[k]  BY <1>3, <2>2
    <3>2. d[k] = next[k].count  BY <1>4, <3>1
    <3>3. c[k] = runs[k].count  BY <1>3
    <3> QED BY <3>1, <3>2, <3>3
  <2>5. \A i \in 0 .. L : g[i] = f[i]
    <3>1. L <= Len(d) /\ L <= Len(c)  BY <1>3, <1>4, <2>2
    <3> QED BY <1>3, <1>4, <2>4, <3>1, SumsAgree DEF f, g
  <2>6. L + 1 \in 1 .. Len(next) /\ (L + 1) - 1 = L /\ L \in 0 .. L  BY <1>3, <2>2
  <2>7. g[L + 1] = m /\ g[L] = m - 1
    <3>1. d[L + 1] = 1  BY <1>4, <2>3, <2>6
    <3>2. g[L + 1] = g[L] + d[L + 1]  BY <1>6, <2>6
    <3> QED BY <1>1, <1>5, <2>5, <2>6, <3>1, <3>2
  <2>8. ASSUME NEW k \in 1 .. Len(next), NEW n \in 1 .. m, g[k - 1] < n, n <= g[k]
        PROVE  next[k].value = values[n]
    <3>1. CASE k = L + 1
      <4>1. m - 1 < n  BY <2>6, <2>7, <2>8, <3>1
      <4>2. n = m  BY <1>1, <4>1
      <4> QED BY <2>3, <3>1, <4>2 DEF v
    <3>2. CASE k # L + 1
      <4>1. k \in 1 .. L /\ k \in 0 .. L /\ k - 1 \in 0 .. L  BY <1>3, <2>2, <3>2
      <4>2. f[k - 1] < n /\ n <= f[k]  BY <2>5, <2>8, <4>1
      <4>3. f[k] <= m - 1 /\ f[k] \in Nat  BY <1>5, <2>6, <4>1
      <4>4. n \in 1 .. m - 1  BY <1>1, <4>2, <4>3
      <4>5. runs[k].value = values[n]  BY <1>5, <4>1, <4>2, <4>4
      <4> QED BY <2>2, <4>1, <4>5
    <3> QED BY <3>1, <3>2
  <2> QED BY <1>4, <2>2, <2>7, <2>8 DEF Tells, Total, d, g, next, v
<1> QED BY <1>7, <1>8

\* The runs so far.
LEMMA RunsTurn ==
  ASSUME NEW V, NEW values \in Seq(V)
  PROVE  /\ RunsSoFar(values) \in [0 .. Len(values) -> Seq(RunOf(V))]
         /\ RunsSoFar(values)[0] = << >>
         /\ \A i \in 1 .. Len(values) :
              RunsSoFar(values)[i] = Longer(RunsSoFar(values)[i - 1], values[i])
<1> DEFINE n == Len(values)
           S == Seq(RunOf(V))
           base == << >>
           Turn(x, i) == Longer(x, values[i])
           turn == [i \in 1 .. n |-> [x \in S |-> Turn(x, i)]]
           f == RunsSoFar(values)
<1>1. n \in Nat  OBVIOUS
<1>2. base \in S  OBVIOUS
<1>3. ASSUME NEW i \in 1 .. n, NEW x \in S PROVE Turn(x, i) \in S
  BY LongerType
<1>4. ASSUME NEW g, g = [i \in 0 .. n |-> IF i = 0 THEN base ELSE Turn(g[i - 1], i)]
      PROVE  f = [i \in 0 .. n |-> IF i = 0 THEN base ELSE Turn(f[i - 1], i)]
  BY <1>4 DEF RunsSoFar, Turns
<1> HIDE DEF n, S, base, Turn, f
<1>5. IsTurn(turn, n, S)  BY <1>3 DEF IsTurn
<1>6. \A i \in 1 .. n, x \in S : turn[i][x] = Turn(x, i)  OBVIOUS
<1> HIDE DEF turn
<1>7. PICK g : IsLoop(g, n, base, turn, S)  BY <1>1, <1>2, <1>5, TurnsExist
<1>8. \A i \in 1 .. n : i - 1 \in 0 .. n /\ g[i] = Turn(g[i - 1], i)
  BY <1>1, <1>6, <1>7 DEF IsLoop
<1>9. g = [i \in 0 .. n |-> IF i = 0 THEN base ELSE Turn(g[i - 1], i)]
  <2>1. \A i \in 0 .. n : g[i] = IF i = 0 THEN base ELSE Turn(g[i - 1], i)
    BY <1>1, <1>7, <1>8 DEF IsLoop
  <2>2. g = [i \in 0 .. n |-> g[i]]  BY <1>7 DEF IsLoop
  <2> QED BY <2>1, <2>2
<1>10. f = [i \in 0 .. n |-> IF i = 0 THEN base ELSE Turn(f[i - 1], i)]  BY <1>4, <1>9
<1>11. f[0] = base /\ \A i \in 1 .. n : i - 1 \in 0 .. n /\ f[i] = Turn(f[i - 1], i)
  BY <1>1, <1>10
<1>12. \A i \in 0 .. n : f[i] \in S
  <2> DEFINE P == {i \in 0 .. n : f[i] \in S}
  <2>1. 0 \in P  BY <1>1, <1>2, <1>11
  <2>2. \A i \in 1 .. n : i - 1 \in P => i \in P  BY <1>3, <1>11
  <2>3. 0 .. n \subseteq P
    <3> HIDE DEF P
    <3> QED BY <1>1, <2>1, <2>2, UpTo
  <2> QED BY <2>3
<1>13. f \in [0 .. n -> S]  BY <1>10, <1>12
<1> QED BY <1>11, <1>13 DEF n, S, base, Turn, f

\* What runs say of any value is that value.
LEMMA RunsFind ==
  ASSUME NEW V, NEW values \in Seq(V), NEW n \in 1 .. Len(values)
  PROVE  ValueIn(Runs(values), n) = values[n]
<1> DEFINE N == Len(values)
           F == RunsSoFar(values)
           P == {m \in 0 .. N : Tells(F[m], values, m)}
           runs == F[N]
<1>1. N \in Nat /\ N \in 0 .. N  OBVIOUS
<1>2. F \in [0 .. N -> Seq(RunOf(V))] /\ F[0] = << >>
      /\ \A i \in 1 .. N : F[i] = Longer(F[i - 1], values[i])
  BY RunsTurn
<1>3. Tells(<< >>, values, 0)
  <2>1. Counts(<< >>) \in Seq(Nat) /\ Len(Counts(<< >>)) = 0
    <3>1. << >> \in Seq(RunOf(V)) /\ Len(<< >>) = 0  OBVIOUS
    <3> QED BY <3>1, CountsAre
  <2>2. Total(Counts(<< >>)) = 0  BY <2>1, SumsTurn DEF Total
  <2> QED BY <2>2 DEF Tells
<1> HIDE DEF N, F
<1>4. 0 \in P  BY <1>1, <1>2, <1>3
<1>5. ASSUME NEW i \in 1 .. N, i - 1 \in P PROVE i \in P
  <2>1. i - 1 \in 0 .. N /\ i \in 0 .. N /\ F[i - 1] \in Seq(RunOf(V))  BY <1>1, <1>2
  <2>2. Tells(Longer(F[i - 1], values[i]), values, i)  BY <1>5, <2>1, LongerTells DEF N
  <2> QED BY <1>2, <2>1, <2>2
<1>6. Tells(runs, values, N)
  <2>1. 0 .. N \subseteq P
    <3> HIDE DEF P
    <3> QED BY <1>1, <1>4, <1>5, UpTo
  <2> QED BY <1>1, <2>1
<1>7. runs \in Seq(RunOf(V)) /\ Runs(values) = runs  BY <1>1, <1>2 DEF Runs, F, N
<1> HIDE DEF runs
<1> DEFINE c == Counts(runs)
<1>8. c \in Seq(Nat) /\ Len(c) = Len(runs)  BY <1>7, CountsAre
<1>9. Total(c) = N  BY <1>6 DEF Tells
<1> HIDE DEF c
<1>10. PICK k \in 1 .. Len(c) : Sums(c)[k - 1] < n /\ n <= Sums(c)[k] /\ Holder(c, n) = k
  BY <1>8, <1>9, HolderExists DEF N
<1>11. runs[k].value = values[n]  BY <1>6, <1>8, <1>10 DEF Tells, c, N
<1>12. ValueIn(runs, n) = runs[k].value  BY <1>10 DEF ValueIn, Counts, c
<1> QED BY <1>7, <1>11, <1>12

\* The sample-to-chunk table: the entry that stands for a chunk.
EntryOf == [first : Nat, per : Nat]
Covers(entries, k, c) ==
  entries[k].first <= c /\ \A l \in 1 .. Len(entries) : entries[l].first <= c => l <= k

\* The entries so far.
LEMMA StscTurn ==
  ASSUME NEW T, NEW frags \in Seq(Seq(T))
  PROVE  /\ StscSoFar(frags) \in [0 .. Len(frags) -> Seq(EntryOf)] /\ StscSoFar(frags)[0] = << >>
         /\ \A i \in 1 .. Len(frags) :
              StscSoFar(frags)[i] =
                IF i = 1 \/ Len(frags[i]) # StscSoFar(frags)[i - 1][Len(StscSoFar(frags)[i - 1])].per
                THEN Append(StscSoFar(frags)[i - 1], Entry(i, Len(frags[i])))
                ELSE StscSoFar(frags)[i - 1]
<1> DEFINE n == Len(frags)
           S == Seq(EntryOf)
           base == << >>
           Turn(x, i) == IF i = 1 \/ Len(frags[i]) # x[Len(x)].per
                         THEN Append(x, Entry(i, Len(frags[i]))) ELSE x
           turn == [i \in 1 .. n |-> [x \in S |-> Turn(x, i)]]
           f == StscSoFar(frags)
<1>1. n \in Nat  OBVIOUS
<1>2. base \in S  OBVIOUS
<1>3. ASSUME NEW i \in 1 .. n, NEW x \in S PROVE Turn(x, i) \in S
  <2>1. Entry(i, Len(frags[i])) \in EntryOf
    <3>1. i \in Nat /\ Len(frags[i]) \in Nat  BY LensAre
    <3> QED BY <3>1 DEF Entry, EntryOf
  <2> HIDE DEF EntryOf
  <2>2. Append(x, Entry(i, Len(frags[i]))) \in S  BY <2>1
  <2> QED BY <2>2
<1>4. ASSUME NEW g, g = [i \in 0 .. n |-> IF i = 0 THEN base ELSE Turn(g[i - 1], i)]
      PROVE  f = [i \in 0 .. n |-> IF i = 0 THEN base ELSE Turn(f[i - 1], i)]
  BY <1>4 DEF StscSoFar, Turns
<1> HIDE DEF n, S, base, Turn, f
<1>5. IsTurn(turn, n, S)  BY <1>3 DEF IsTurn
<1>6. \A i \in 1 .. n, x \in S : turn[i][x] = Turn(x, i)  OBVIOUS
<1> HIDE DEF turn
<1>7. PICK g : IsLoop(g, n, base, turn, S)  BY <1>1, <1>2, <1>5, TurnsExist
<1>8. \A i \in 1 .. n : i - 1 \in 0 .. n /\ g[i] = Turn(g[i - 1], i)
  BY <1>1, <1>6, <1>7 DEF IsLoop
<1>9. g = [i \in 0 .. n |-> IF i = 0 THEN base ELSE Turn(g[i - 1], i)]
  <2>1. \A i \in 0 .. n : g[i] = IF i = 0 THEN base ELSE Turn(g[i - 1], i)
    BY <1>1, <1>7, <1>8 DEF IsLoop
  <2>2. g = [i \in 0 .. n |-> g[i]]  BY <1>7 DEF IsLoop
  <2> QED BY <2>1, <2>2
<1>10. f = [i \in 0 .. n |-> IF i = 0 THEN base ELSE Turn(f[i - 1], i)]  BY <1>4, <1>9
<1>11. f[0] = base /\ \A i \in 1 .. n : i - 1 \in 0 .. n /\ f[i] = Turn(f[i - 1], i)
  BY <1>1, <1>10
<1>12. \A i \in 0 .. n : f[i] \in S
  <2> DEFINE P == {i \in 0 .. n : f[i] \in S}
  <2>1. 0 \in P  BY <1>1, <1>2, <1>11
  <2>2. \A i \in 1 .. n : i - 1 \in P => i \in P  BY <1>3, <1>11
  <2>3. 0 .. n \subseteq P
    <3> HIDE DEF P
    <3> QED BY <1>1, <2>1, <2>2, UpTo
  <2> QED BY <2>3
<1>13. f \in [0 .. n -> S]  BY <1>10, <1>12
<1> QED BY <1>11, <1>13 DEF n, S, base, Turn, f

LEMMA StscFinds ==
  ASSUME NEW T, NEW frags \in Seq(Seq(T)), NEW c \in 1 .. Len(frags),
         NEW trak, trak.stsc = WriteStsc(frags)
  PROVE  PerChunk(trak, c) = Len(frags[c])
<1> DEFINE N == Len(frags)
           F == StscSoFar(frags)
           Spoken(e, m) ==
             /\ \A l \in 1 .. Len(e) : e[l].first <= m
             /\ \A d \in 1 .. m : \E k \in 1 .. Len(e) :
                  Covers(e, k, d) /\ e[k].per = Len(frags[d])
           P == {m \in 0 .. N : Spoken(F[m], m)}
<1>1. N \in Nat /\ N \in 0 .. N  OBVIOUS
<1>2. /\ F \in [0 .. N -> Seq(EntryOf)] /\ F[0] = << >>
      /\ \A i \in 1 .. N :
           F[i] = IF i = 1 \/ Len(frags[i]) # F[i - 1][Len(F[i - 1])].per
                  THEN Append(F[i - 1], Entry(i, Len(frags[i]))) ELSE F[i - 1]
  BY StscTurn
<1> HIDE DEF N, F
<1>3. 0 \in P
  <2>1. Spoken(<< >>, 0)  OBVIOUS
  <2> QED BY <1>1, <1>2, <2>1
<1>4. ASSUME NEW i \in 1 .. N, i - 1 \in P PROVE i \in P
  <2> DEFINE e == F[i - 1]
             L == Len(e)
  <2>1. i - 1 \in 0 .. N /\ i \in 0 .. N  BY <1>1
  <2>2. e \in Seq(EntryOf) /\ L \in Nat
    <3>1. F \in [0 .. N -> Seq(EntryOf)]  BY <1>2
    <3>2. e \in Seq(EntryOf)  BY <2>1, <3>1
    <3> HIDE DEF e
    <3> QED BY <3>2
  <2>3. Spoken(e, i - 1)  BY <1>4
  <2> HIDE DEF e
  <2>4. \A l \in 1 .. L : e[l].first \in Nat
    <3>1. \A l \in 1 .. L : e[l] \in EntryOf
      <4> HIDE DEF EntryOf
      <4> QED BY <2>2
    <3> QED BY <3>1 DEF EntryOf
  <2>5. CASE i = 1 \/ Len(frags[i]) # e[L].per
    <3> DEFINE g == Append(e, Entry(i, Len(frags[i])))
    <3>1. F[i] = g  BY <1>2, <2>5 DEF e
    <3>2. /\ Len(g) = L + 1 /\ g[L + 1] = Entry(i, Len(frags[i]))
          /\ \A l \in 1 .. L : g[l] = e[l]
      <4> HIDE DEF EntryOf
      <4> QED BY <2>2
    <3>3. g[L + 1].first = i /\ g[L + 1].per = Len(frags[i])  BY <3>2 DEF Entry
    <3> HIDE DEF g, L
    <3>4. \A l \in 1 .. L + 1 : l \in 1 .. L \/ l = L + 1  BY <2>2
    <3>5. \A l \in 1 .. L : g[l].first <= i - 1 /\ g[l].first \in Nat  BY <2>3, <2>4, <3>2 DEF L
    <3>6. L + 1 \in 1 .. Len(g)  BY <2>2, <3>2
    <3>7. ASSUME NEW l \in 1 .. Len(g) PROVE g[l].first <= i
      <4>1. CASE l \in 1 .. L  BY <3>5, <4>1
      <4>2. CASE l = L + 1  BY <3>3, <4>2
      <4> QED BY <3>2, <3>4, <4>1, <4>2
    <3>8. ASSUME NEW d \in 1 .. i
          PROVE  \E k \in 1 .. Len(g) : Covers(g, k, d) /\ g[k].per = Len(frags[d])
      <4>1. CASE d = i
        <5>1. Covers(g, L + 1, i)
          <6>1. \A l \in 1 .. Len(g) : l <= L + 1  BY <3>2
          <6> QED BY <3>3, <6>1 DEF Covers
        <5> QED BY <3>3, <3>6, <4>1, <5>1
      <4>2. CASE d \in 1 .. i - 1
        <5>1. PICK k \in 1 .. L : Covers(e, k, d) /\ e[k].per = Len(frags[d])
          BY <2>3, <4>2 DEF L
        <5>2. k \in 1 .. Len(g) /\ g[k] = e[k]
          <6>1. k \in 1 .. L + 1  BY <2>2
          <6> QED BY <3>2, <6>1
        <5>3. g[k].first <= d  BY <5>1, <5>2 DEF Covers
        <5>4. ASSUME NEW l \in 1 .. Len(g), g[l].first <= d PROVE l <= k
          <6>1. CASE l \in 1 .. L  BY <3>2, <5>1, <5>4, <6>1 DEF Covers, L
          <6>2. CASE l = L + 1  BY <3>3, <4>2, <5>4, <6>2
          <6> QED BY <3>2, <3>4, <6>1, <6>2
        <5>5. Covers(g, k, d)  BY <5>3, <5>4 DEF Covers
        <5> QED BY <5>1, <5>2, <5>5
      <4> QED BY <4>1, <4>2
    <3> QED BY <2>1, <3>1, <3>7, <3>8
  <2>6. CASE ~ (i = 1 \/ Len(frags[i]) # e[L].per)
    <3>1. F[i] = e  BY <1>2, <2>6 DEF e
    <3>2. i - 1 \in 1 .. i - 1 /\ i - 1 < i  BY <2>6
    <3>3. PICK k \in 1 .. L : Covers(e, k, i - 1)  BY <2>3, <3>2
    <3>4. \A l \in 1 .. L : l <= k  BY <2>3, <3>3 DEF Covers
    <3>5. k = L  BY <2>2, <3>4
    <3>6. e[L].per = Len(frags[i])  BY <2>6
    <3>7. \A l \in 1 .. L : e[l].first <= i  BY <2>3, <2>4, <3>2
    <3>8. Covers(e, k, i)  BY <3>4, <3>7 DEF Covers
    <3>9. ASSUME NEW d \in 1 .. i
          PROVE  \E l \in 1 .. L : Covers(e, l, d) /\ e[l].per = Len(frags[d])
      <4>1. CASE d = i  BY <3>5, <3>6, <3>8, <4>1
      <4>2. CASE d \in 1 .. i - 1  BY <2>3, <4>2
      <4> QED BY <4>1, <4>2
    <3> QED BY <2>1, <3>1, <3>7, <3>9
  <2> QED BY <2>5, <2>6
<1>5. Spoken(F[N], N)
  <2>1. 0 .. N \subseteq P
    <3> HIDE DEF P
    <3> QED BY <1>1, <1>3, <1>4, UpTo
  <2> QED BY <1>1, <2>1
<1> DEFINE e == F[N]
<1>6. e \in Seq(EntryOf) /\ trak.stsc = e  BY <1>1, <1>2 DEF WriteStsc, F, N
<1>7. DOMAIN e = 1 .. Len(e)
  <2> HIDE DEF e, EntryOf
  <2> QED BY <1>6
<1>8. PICK k \in 1 .. Len(e) : Covers(e, k, c) /\ e[k].per = Len(frags[c])  BY <1>5 DEF N
<1> HIDE DEF e
<1>9. \A l \in 1 .. Len(e) : Covers(e, l, c) => l = k  BY <1>8 DEF Covers
<1>10. PerChunk(trak, c) = e[CHOOSE l \in 1 .. Len(e) : Covers(e, l, c)].per
  BY <1>6, <1>7 DEF PerChunk, Covers
<1> QED BY <1>8, <1>9, <1>10
\* The samples that are read, the bytes of a file, and what is written.
SampleOf == [size : Nat, dur : Nat, cto : Int, sync : BOOLEAN, src : [moof : Nat, n : Int]]
Byte == [track : MFTracks, src : [moof : Nat, n : Int]]
OutType == [bytes : Seq(Byte), offsets : [MFTracks -> Seq(Nat)]]

LEMMA BytesAre ==
  ASSUME NEW t \in MFTracks, NEW s \in SampleOf
  PROVE  BytesOf(t, s) \in Seq(Byte) /\ Len(BytesOf(t, s)) = s.size
<1>1. s.size \in Nat /\ s.src.moof \in Nat /\ s.src.n \in Int  BY DEF SampleOf
<1>2. ASSUME NEW b \in 1 .. s.size
      PROVE  [track |-> t, src |-> InMoof(s.src.moof, s.src.n + b - 1)] \in Byte
  <2>1. s.src.n + b - 1 \in Int  BY <1>1
  <2> QED BY <1>1, <2>1 DEF Byte, InMoof
<1> HIDE DEF Byte
<1> QED BY <1>1, <1>2 DEF BytesOf

LEMMA SizesAre ==
  ASSUME NEW samples \in Seq(SampleOf)
  PROVE  /\ Sizes(samples) \in Seq(Nat) /\ Len(Sizes(samples)) = Len(samples)
         /\ Len(samples) \in Nat
         /\ \A i \in 1 .. Len(samples) : /\ samples[i] \in SampleOf /\ samples[i].size \in Nat
                                         /\ Sizes(samples)[i] = samples[i].size
<1>1. Len(samples) \in Nat /\ \A i \in 1 .. Len(samples) : samples[i] \in SampleOf  OBVIOUS
<1>2. \A i \in 1 .. Len(samples) : samples[i].size \in Nat  BY <1>1 DEF SampleOf
<1> QED BY <1>1, <1>2 DEF Sizes

\* A chunk: its samples' bytes lie where their sizes say.
LEMMA BytesInChunk ==
  ASSUME NEW t \in MFTracks, NEW samples \in Seq(SampleOf)
  PROVE  /\ ChunkBytes(t, samples) \in Seq(Byte)
         /\ Len(ChunkBytes(t, samples)) = Total(Sizes(samples))
         /\ \A i \in 1 .. Len(samples) : \A b \in 1 .. samples[i].size :
              /\ Sums(Sizes(samples))[i - 1] + b \in 1 .. Len(ChunkBytes(t, samples))
              /\ ChunkBytes(t, samples)[Sums(Sizes(samples))[i - 1] + b] = BytesOf(t, samples[i])[b]
<1> DEFINE ss == [i \in 1 .. Len(samples) |-> BytesOf(t, samples[i])]
<1>1. Len(samples) \in Nat /\ \A i \in 1 .. Len(samples) : samples[i] \in SampleOf  BY SizesAre
<1>2. \A i \in 1 .. Len(samples) : /\ BytesOf(t, samples[i]) \in Seq(Byte)
                                   /\ Len(BytesOf(t, samples[i])) = samples[i].size
  BY <1>1, BytesAre
<1>3. ss \in Seq(Seq(Byte)) /\ Len(ss) = Len(samples)  BY <1>1, <1>2
<1>4. Lens(ss) = Sizes(samples)
  <2>1. Lens(ss) = [i \in 1 .. Len(samples) |-> Len(ss[i])]  BY <1>3 DEF Lens
  <2>2. \A i \in 1 .. Len(samples) : Len(ss[i]) = samples[i].size  BY <1>2
  <2> HIDE DEF ss
  <2> QED BY <2>1, <2>2 DEF Sizes
<1>5. ChunkBytes(t, samples) = Flat(ss)  BY DEF ChunkBytes
<1>6. \A i \in 1 .. Len(samples) : ss[i] = BytesOf(t, samples[i])  OBVIOUS
<1> HIDE DEF ss
<1>7. /\ Flat(ss) \in Seq(Byte) /\ Len(Flat(ss)) = Total(Lens(ss))
      /\ \A c \in 1 .. Len(ss) : \A i \in 1 .. Len(ss[c]) :
           /\ Sums(Lens(ss))[c - 1] + i \in 1 .. Len(Flat(ss))
           /\ Flat(ss)[Sums(Lens(ss))[c - 1] + i] = ss[c][i]
  BY <1>3, FlatIs
<1>8. \A i \in 1 .. Len(samples) : Len(ss[i]) = samples[i].size  BY <1>2, <1>6
<1> QED BY <1>3, <1>4, <1>5, <1>6, <1>7, <1>8

LEMMA WriteIthType ==
  ASSUME NEW frags \in [MFTracks -> Seq(Seq(SampleOf))], NEW out \in OutType,
         NEW t \in MFTracks, NEW i \in Nat
  PROVE  WriteIth(frags, out, t, i) \in OutType
<1>1. CASE i \in 1 .. Len(frags[t])
  <2>1. frags[t][i] \in Seq(SampleOf)  BY <1>1
  <2> DEFINE x == ChunkBytes(t, frags[t][i])
  <2>2. x \in Seq(Byte)  BY <2>1, BytesInChunk
  <2>3. out.bytes \in Seq(Byte) /\ out.offsets \in [MFTracks -> Seq(Nat)]  BY DEF OutType
  <2> HIDE DEF x
  <2>4. out.bytes \o x \in Seq(Byte)  BY <2>2, <2>3
  <2>5. Header + Len(out.bytes) \in Nat  BY <2>3 DEF Header
  <2>6. [out.offsets EXCEPT ![t] = Append(@, Header + Len(out.bytes))] \in [MFTracks -> Seq(Nat)]
    <3>1. Append(out.offsets[t], Header + Len(out.bytes)) \in Seq(Nat)  BY <2>3, <2>5
    <3> QED BY <2>3, <3>1
  <2>7. WriteIth(frags, out, t, i)
          = [bytes |-> out.bytes \o x,
             offsets |-> [out.offsets EXCEPT ![t] = Append(@, Header + Len(out.bytes))]]
    BY <1>1 DEF WriteIth, WriteChunk, x
  <2> QED BY <2>4, <2>6, <2>7 DEF OutType
<1>2. CASE i \notin 1 .. Len(frags[t])  BY <1>2 DEF WriteIth
<1> QED BY <1>1, <1>2

LEMMA LongestIs ==
  ASSUME NEW frags \in [MFTracks -> Seq(Seq(SampleOf))]
  PROVE  Longest(frags) \in Nat /\ \A t \in MFTracks : Len(frags[t]) \in 0 .. Longest(frags)
<1>1. Len(frags["video"]) \in Nat /\ Len(frags["audio"]) \in Nat  BY DEF MFTracks
<1> QED BY <1>1 DEF Longest, MFTracks

\* The first m chunks of a track are where the offsets say.
Lies(bytes, offset, chunk) ==
  /\ offset - Header \in Nat /\ offset - Header + Len(chunk) <= Len(bytes)
  /\ \A b \in 1 .. Len(chunk) : bytes[offset - Header + b] = chunk[b]
Lays(out, frags, t, m) ==
  /\ Len(out.offsets[t]) = m
  /\ \A c \in 1 .. m : Lies(out.bytes, out.offsets[t][c], ChunkBytes(t, frags[t][c]))
Upto(frags, t, i) == IF i <= Len(frags[t]) THEN i ELSE Len(frags[t])

LEMMA LiesOn ==
  ASSUME NEW bytes \in Seq(Byte), NEW more \in Seq(Byte), NEW chunk \in Seq(Byte),
         NEW offset \in Nat, Lies(bytes, offset, chunk)
  PROVE  Lies(bytes \o more, offset, chunk)
<1> DEFINE o == offset - Header
           both == bytes \o more
<1>1. o \in Nat /\ o + Len(chunk) <= Len(bytes) /\ \A b \in 1 .. Len(chunk) : bytes[o + b] = chunk[b]
  BY DEF Lies
<1>2. Len(bytes) \in Nat /\ Len(more) \in Nat /\ Len(chunk) \in Nat  OBVIOUS
<1>3. Len(both) = Len(bytes) + Len(more) /\ \A k \in 1 .. Len(bytes) : both[k] = bytes[k]  OBVIOUS
<1> HIDE DEF o, both
<1>4. o + Len(chunk) <= Len(both)  BY <1>1, <1>2, <1>3
<1>5. ASSUME NEW b \in 1 .. Len(chunk) PROVE both[o + b] = chunk[b]
  <2>1. o + b \in 1 .. Len(bytes)  BY <1>1, <1>2
  <2> QED BY <1>1, <1>3, <2>1
<1> QED BY <1>1, <1>4, <1>5 DEF Lies, o, both

\* The i-th chunk of a track is laid behind those before it,
LEMMA WriteIthLays ==
  ASSUME NEW frags \in [MFTracks -> Seq(Seq(SampleOf))], NEW out \in OutType,
         NEW t \in MFTracks, NEW i \in Nat, i > 0, Lays(out, frags, t, Upto(frags, t, i - 1))
  PROVE  Lays(WriteIth(frags, out, t, i), frags, t, Upto(frags, t, i))
<1>1. frags[t] \in Seq(Seq(SampleOf)) /\ Len(frags[t]) \in Nat  OBVIOUS
<1>2. CASE i > Len(frags[t])
  <2>1. Upto(frags, t, i - 1) = Upto(frags, t, i) /\ i \notin 1 .. Len(frags[t])
    <3> DEFINE L == Len(frags[t])
    <3>1. L \in Nat /\ i > L  BY <1>1, <1>2
    <3> HIDE DEF L
    <3>2. ~ (i <= L) /\ (i - 1 <= L => i - 1 = L) /\ i \notin 1 .. L  BY <3>1
    <3> QED BY <3>2 DEF Upto, L
  <2> QED BY <2>1 DEF WriteIth
<1>3. CASE i <= Len(frags[t])
  <2>1. /\ i \in 1 .. Len(frags[t]) /\ Upto(frags, t, i) = i /\ Upto(frags, t, i - 1) = i - 1
        /\ i - 1 \in Nat
    BY <1>1, <1>3 DEF Upto
  <2> DEFINE x == ChunkBytes(t, frags[t][i])
             next == WriteIth(frags, out, t, i)
             o == Header + Len(out.bytes)
             offs == out.offsets[t]
  <2>2. x \in Seq(Byte) /\ \A c \in 1 .. Len(frags[t]) : ChunkBytes(t, frags[t][c]) \in Seq(Byte)
    <3>1. \A c \in 1 .. Len(frags[t]) : frags[t][c] \in Seq(SampleOf)  BY <1>1
    <3> QED BY <2>1, <3>1, BytesInChunk
  <2>3. out.bytes \in Seq(Byte) /\ out.offsets \in [MFTracks -> Seq(Nat)] /\ offs \in Seq(Nat)
    BY DEF OutType
  <2>4. next.bytes = out.bytes \o x /\ next.offsets[t] = Append(offs, o)
    BY <2>1, <2>3 DEF WriteIth, WriteChunk
  <2>5. Len(offs) = i - 1 /\ \A c \in 1 .. i - 1 : Lies(out.bytes, offs[c], ChunkBytes(t, frags[t][c]))
    BY <2>1 DEF Lays
  <2> HIDE DEF x, next, offs
  <2>6. o \in Nat /\ o - Header = Len(out.bytes)  BY <2>3 DEF Header
  <2> HIDE DEF o
  <2>7. /\ Len(next.offsets[t]) = i /\ next.offsets[t][i] = o
        /\ \A c \in 1 .. i - 1 : next.offsets[t][c] = offs[c] /\ offs[c] \in Nat
    <3>1. /\ Len(Append(offs, o)) = Len(offs) + 1 /\ Append(offs, o)[Len(offs) + 1] = o
          /\ \A c \in 1 .. Len(offs) : Append(offs, o)[c] = offs[c] /\ offs[c] \in Nat
      BY <2>3, <2>6
    <3>2. (i - 1) + 1 = i  OBVIOUS
    <3> QED BY <2>4, <2>5, <3>1, <3>2
  <2>8. Lies(out.bytes \o x, o, x)
    <3>1. /\ Len(out.bytes \o x) = Len(out.bytes) + Len(x) /\ Len(out.bytes) \in Nat /\ Len(x) \in Nat
          /\ \A b \in 1 .. Len(x) : (out.bytes \o x)[Len(out.bytes) + b] = x[b]
      BY <2>2, <2>3
    <3> QED BY <2>6, <3>1 DEF Lies
  <2>9. ASSUME NEW c \in 1 .. i PROVE Lies(next.bytes, next.offsets[t][c], ChunkBytes(t, frags[t][c]))
    <3>1. CASE c = i  BY <2>4, <2>7, <2>8, <3>1 DEF x
    <3>2. CASE c \in 1 .. i - 1
      <4>1. c \in 1 .. Len(frags[t])  BY <1>1, <1>3
      <4>2. Lies(out.bytes \o x, offs[c], ChunkBytes(t, frags[t][c]))
        BY <2>2, <2>3, <2>5, <2>7, <3>2, <4>1, LiesOn
      <4> QED BY <2>4, <2>7, <3>2, <4>2
    <3> QED BY <3>1, <3>2
  <2> QED BY <2>1, <2>7, <2>9 DEF Lays, next
<1> QED BY <1>1, <1>2, <1>3

\* and moves none of the other's.
LEMMA WriteIthSpares ==
  ASSUME NEW frags \in [MFTracks -> Seq(Seq(SampleOf))], NEW out \in OutType,
         NEW t \in MFTracks, NEW u \in MFTracks, u # t, NEW i \in Nat, NEW m \in Nat,
         m <= Len(frags[u]), Lays(out, frags, u, m)
  PROVE  Lays(WriteIth(frags, out, t, i), frags, u, m)
<1>1. CASE i \notin 1 .. Len(frags[t])  BY <1>1 DEF WriteIth
<1>2. CASE i \in 1 .. Len(frags[t])
  <2> DEFINE x == ChunkBytes(t, frags[t][i])
             next == WriteIth(frags, out, t, i)
  <2>1. frags[t] \in Seq(Seq(SampleOf)) /\ frags[u] \in Seq(Seq(SampleOf)) /\ Len(frags[u]) \in Nat
    OBVIOUS
  <2>2. x \in Seq(Byte) /\ \A c \in 1 .. m : ChunkBytes(u, frags[u][c]) \in Seq(Byte)
    <3>1. frags[t][i] \in Seq(SampleOf) /\ \A c \in 1 .. m : frags[u][c] \in Seq(SampleOf)
      BY <1>2, <2>1
    <3> QED BY <3>1, BytesInChunk
  <2>3. out.bytes \in Seq(Byte) /\ out.offsets \in [MFTracks -> Seq(Nat)] /\ out.offsets[u] \in Seq(Nat)
    BY DEF OutType
  <2>4. next.bytes = out.bytes \o x /\ next.offsets[u] = out.offsets[u]
    BY <1>2, <2>3 DEF WriteIth, WriteChunk
  <2>5. /\ Len(out.offsets[u]) = m
        /\ \A c \in 1 .. m : Lies(out.bytes, out.offsets[u][c], ChunkBytes(u, frags[u][c]))
    BY DEF Lays
  <2> HIDE DEF x, next
  <2>6. \A c \in 1 .. m : out.offsets[u][c] \in Nat  BY <2>3, <2>5
  <2>7. \A c \in 1 .. m : Lies(out.bytes \o x, out.offsets[u][c], ChunkBytes(u, frags[u][c]))
    BY <2>2, <2>3, <2>5, <2>6, LiesOn
  <2> QED BY <2>4, <2>5, <2>7 DEF Lays, next
<1> QED BY <1>1, <1>2

\* What is written so far.
LEMMA WrittenTurn ==
  ASSUME NEW frags \in [MFTracks -> Seq(Seq(SampleOf))]
  PROVE  /\ WrittenSoFar(frags) \in [0 .. Longest(frags) -> OutType]
         /\ WrittenSoFar(frags)[0] = [bytes |-> << >>, offsets |-> [t \in MFTracks |-> << >>]]
         /\ \A i \in 1 .. Longest(frags) :
              WrittenSoFar(frags)[i]
                = WriteIth(frags, WriteIth(frags, WrittenSoFar(frags)[i - 1], "video", i), "audio", i)
<1> DEFINE n == Longest(frags)
           S == OutType
           base == [bytes |-> << >>, offsets |-> [t \in MFTracks |-> << >>]]
           Turn(x, i) == WriteIth(frags, WriteIth(frags, x, "video", i), "audio", i)
           turn == [i \in 1 .. n |-> [x \in S |-> Turn(x, i)]]
           f == WrittenSoFar(frags)
<1>1. n \in Nat  BY LongestIs
<1>2. base \in S  BY DEF OutType
<1>3. ASSUME NEW i \in 1 .. n, NEW x \in S PROVE Turn(x, i) \in S
  <2>1. "video" \in MFTracks /\ "audio" \in MFTracks  BY DEF MFTracks
  <2>2. i \in Nat  OBVIOUS
  <2> QED BY <2>1, <2>2, WriteIthType
<1>4. ASSUME NEW g, g = [i \in 0 .. n |-> IF i = 0 THEN base ELSE Turn(g[i - 1], i)]
      PROVE  f = [i \in 0 .. n |-> IF i = 0 THEN base ELSE Turn(f[i - 1], i)]
  BY <1>4 DEF WrittenSoFar, Turns
<1> HIDE DEF n, S, base, Turn, f
<1>5. IsTurn(turn, n, S)  BY <1>3 DEF IsTurn
<1>6. \A i \in 1 .. n, x \in S : turn[i][x] = Turn(x, i)  OBVIOUS
<1> HIDE DEF turn
<1>7. PICK g : IsLoop(g, n, base, turn, S)  BY <1>1, <1>2, <1>5, TurnsExist
<1>8. \A i \in 1 .. n : i - 1 \in 0 .. n /\ g[i] = Turn(g[i - 1], i)
  BY <1>1, <1>6, <1>7 DEF IsLoop
<1>9. g = [i \in 0 .. n |-> IF i = 0 THEN base ELSE Turn(g[i - 1], i)]
  <2>1. \A i \in 0 .. n : g[i] = IF i = 0 THEN base ELSE Turn(g[i - 1], i)
    BY <1>1, <1>7, <1>8 DEF IsLoop
  <2>2. g = [i \in 0 .. n |-> g[i]]  BY <1>7 DEF IsLoop
  <2> QED BY <2>1, <2>2
<1>10. f = [i \in 0 .. n |-> IF i = 0 THEN base ELSE Turn(f[i - 1], i)]  BY <1>4, <1>9
<1>11. f[0] = base /\ \A i \in 1 .. n : i - 1 \in 0 .. n /\ f[i] = Turn(f[i - 1], i)
  BY <1>1, <1>10
<1>12. \A i \in 0 .. n : f[i] \in S
  <2> DEFINE P == {i \in 0 .. n : f[i] \in S}
  <2>1. 0 \in P  BY <1>1, <1>2, <1>11
  <2>2. \A i \in 1 .. n : i - 1 \in P => i \in P  BY <1>3, <1>11
  <2>3. 0 .. n \subseteq P
    <3> HIDE DEF P
    <3> QED BY <1>1, <2>1, <2>2, UpTo
  <2> QED BY <2>3
<1>13. f \in [0 .. n -> S]  BY <1>10, <1>12
<1> QED BY <1>11, <1>13 DEF n, S, base, Turn, f

\* All chunks of both tracks are where their offsets say.
LEMMA MdatLays ==
  ASSUME NEW frags \in [MFTracks -> Seq(Seq(SampleOf))]
  PROVE  /\ WriteMdat(frags) \in OutType
         /\ \A t \in MFTracks : Lays(WriteMdat(frags), frags, t, Len(frags[t]))
<1> DEFINE N == Longest(frags)
           F == WrittenSoFar(frags)
           P == {i \in 0 .. N : \A t \in MFTracks : Lays(F[i], frags, t, Upto(frags, t, i))}
<1>1. N \in Nat /\ N \in 0 .. N /\ \A t \in MFTracks : Len(frags[t]) \in 0 .. N  BY LongestIs
<1>2. /\ F \in [0 .. N -> OutType] /\ F[0] = [bytes |-> << >>, offsets |-> [t \in MFTracks |-> << >>]]
      /\ \A i \in 1 .. N : F[i] = WriteIth(frags, WriteIth(frags, F[i - 1], "video", i), "audio", i)
  BY WrittenTurn
<1>3. MFTracks = {"video", "audio"} /\ "video" # "audio"  BY DEF MFTracks
<1>4. \A t \in MFTracks : Len(frags[t]) \in Nat  OBVIOUS
<1>5. \A t \in MFTracks, i \in Nat : Upto(frags, t, i) \in Nat /\ Upto(frags, t, i) <= Len(frags[t])
  BY <1>4 DEF Upto
<1> HIDE DEF N, F
<1>6. 0 \in P
  <2>1. ASSUME NEW t \in MFTracks PROVE Lays(F[0], frags, t, Upto(frags, t, 0))
    <3>1. Upto(frags, t, 0) = 0  BY <1>4 DEF Upto
    <3>2. Len(F[0].offsets[t]) = 0  BY <1>2
    <3> QED BY <3>1, <3>2 DEF Lays
  <2> QED BY <1>1, <2>1
<1>7. ASSUME NEW i \in 1 .. N, i - 1 \in P PROVE i \in P
  <2> DEFINE out == F[i - 1]
             half == WriteIth(frags, out, "video", i)
             next == WriteIth(frags, half, "audio", i)
  <2>1. i - 1 \in 0 .. N /\ i \in 0 .. N /\ i \in Nat /\ i - 1 \in Nat /\ i > 0  BY <1>1
  <2>2. out \in OutType /\ F[i] = next  BY <1>2, <2>1
  <2>3. Lays(out, frags, "video", Upto(frags, "video", i - 1))
        /\ Lays(out, frags, "audio", Upto(frags, "audio", i - 1))
    BY <1>3, <1>7
  <2> HIDE DEF out
  <2>4. half \in OutType  BY <1>3, <2>1, <2>2, WriteIthType
  <2>5. Lays(half, frags, "video", Upto(frags, "video", i))  BY <1>3, <2>1, <2>2, <2>3, WriteIthLays
  <2>6. Lays(half, frags, "audio", Upto(frags, "audio", i - 1))
    <3>1. Upto(frags, "audio", i - 1) \in Nat /\ Upto(frags, "audio", i - 1) <= Len(frags["audio"])
      BY <1>3, <1>5, <2>1
    <3> QED BY <1>3, <2>1, <2>2, <2>3, <3>1, WriteIthSpares
  <2> HIDE DEF half
  <2>7. Lays(next, frags, "audio", Upto(frags, "audio", i))  BY <1>3, <2>1, <2>4, <2>6, WriteIthLays
  <2>8. Lays(next, frags, "video", Upto(frags, "video", i))
    <3>1. Upto(frags, "video", i) \in Nat /\ Upto(frags, "video", i) <= Len(frags["video"])
      BY <1>3, <1>5, <2>1
    <3> QED BY <1>3, <2>1, <2>4, <2>5, <3>1, WriteIthSpares
  <2> QED BY <1>3, <2>1, <2>2, <2>7, <2>8
<1>8. N \in P
  <2>1. 0 .. N \subseteq P
    <3> HIDE DEF P
    <3> QED BY <1>1, <1>6, <1>7, UpTo
  <2> QED BY <1>1, <2>1
<1>9. \A t \in MFTracks : Upto(frags, t, N) = Len(frags[t])  BY <1>1, <1>4 DEF Upto
<1>10. WriteMdat(frags) = F[N]  BY DEF WriteMdat, F, N
<1> QED BY <1>1, <1>2, <1>8, <1>9, <1>10

\* What the muxer read of a sample, and what a player is to make of it.
Meets(t, s) == [bytes |-> BytesOf(t, s), dur |-> s.dur, cto |-> s.cto, sync |-> s.sync]

\* The tables that say a sample's duration, composition offset and seek mark.
LEMMA FieldsFound ==
  ASSUME NEW samples \in Seq(SampleOf), NEW n \in 1 .. Len(samples)
  PROVE  /\ ValueIn(WriteStts(samples), n) = samples[n].dur
         /\ (IF WriteCtts(samples) = {} THEN 0
             ELSE ValueIn((CHOOSE table \in WriteCtts(samples) : TRUE).runs, n)) = samples[n].cto
         /\ (\A table \in WriteStss(samples) : n \in table) = samples[n].sync
<1> DEFINE N == Len(samples)
           durs == Durations(samples)
           ctos == [i \in 1 .. N |-> samples[i].cto]
<1>1. N \in Nat /\ \A i \in 1 .. N : samples[i] \in SampleOf  OBVIOUS
<1>2. \A i \in 1 .. N : samples[i].dur \in Nat /\ samples[i].cto \in Int /\ samples[i].sync \in BOOLEAN
  BY <1>1 DEF SampleOf
<1>3. ValueIn(WriteStts(samples), n) = samples[n].dur
  <2>1. durs \in Seq(Nat) /\ Len(durs) = N /\ durs[n] = samples[n].dur
    BY <1>1, <1>2 DEF Durations
  <2> HIDE DEF durs
  <2>2. ValueIn(Runs(durs), n) = durs[n]  BY <2>1, RunsFind
  <2> QED BY <2>1, <2>2 DEF WriteStts, durs
<1>4. (IF WriteCtts(samples) = {} THEN 0
       ELSE ValueIn((CHOOSE table \in WriteCtts(samples) : TRUE).runs, n)) = samples[n].cto
  <2>1. CASE \E i \in 1 .. N : samples[i].cto # 0
    <3>1. ctos \in Seq(Int) /\ Len(ctos) = N /\ ctos[n] = samples[n].cto  BY <1>1, <1>2
    <3> DEFINE box == [version |-> AnalyzeCtts(samples).version, runs |-> Runs(ctos)]
    <3>2. WriteCtts(samples) = {box}  BY <2>1 DEF WriteCtts, AnalyzeCtts
    <3>3. box.runs = Runs(ctos)  OBVIOUS
    <3> HIDE DEF ctos, box
    <3>4. ValueIn(Runs(ctos), n) = ctos[n]  BY <3>1, RunsFind
    <3>5. WriteCtts(samples) # {} /\ (CHOOSE table \in WriteCtts(samples) : TRUE) = box  BY <3>2
    <3> QED BY <3>1, <3>3, <3>4, <3>5
  <2>2. CASE ~ \E i \in 1 .. N : samples[i].cto # 0
    <3>1. WriteCtts(samples) = {}  BY <2>2 DEF WriteCtts, AnalyzeCtts
    <3> QED BY <2>2, <3>1
  <2> QED BY <2>1, <2>2
<1>5. (\A table \in WriteStss(samples) : n \in table) = samples[n].sync
  <2>1. CASE \A i \in 1 .. N : samples[i].sync
    <3>1. WriteStss(samples) = {}  BY <2>1 DEF WriteStss
    <3> QED BY <1>2, <2>1, <3>1
  <2>2. CASE ~ \A i \in 1 .. N : samples[i].sync
    <3>1. WriteStss(samples) = {{i \in 1 .. N : samples[i].sync}}  BY <2>2 DEF WriteStss
    <3>2. (\A table \in WriteStss(samples) : n \in table) <=> samples[n].sync  BY <3>1
    <3> QED BY <1>2, <3>2
  <2> QED BY <2>1, <2>2
<1> QED BY <1>3, <1>4, <1>5

\* The samples before one in its chunk take as much room as the sizes say.
LEMMA RoomBefore ==
  ASSUME NEW chunk \in Seq(SampleOf), NEW i \in 1 .. Len(chunk), NEW q,
         q = [j \in 1 .. i - 1 |-> chunk[j].size]
  PROVE  Total(q) = Sums(Sizes(chunk))[i - 1]
<1>1. /\ Sizes(chunk) \in Seq(Nat) /\ Len(Sizes(chunk)) = Len(chunk) /\ Len(chunk) \in Nat
      /\ \A j \in 1 .. Len(chunk) : chunk[j].size \in Nat /\ Sizes(chunk)[j] = chunk[j].size
  BY SizesAre
<1>2. i - 1 \in Nat /\ i - 1 <= Len(chunk) /\ \A j \in 1 .. i - 1 : j \in 1 .. Len(chunk)  BY <1>1
<1>3. q \in Seq(Nat) /\ Len(q) = i - 1 /\ \A j \in 1 .. i - 1 : q[j] = chunk[j].size
  BY <1>1, <1>2
<1>4. \A j \in 1 .. i - 1 : q[j] = Sizes(chunk)[j]  BY <1>1, <1>2, <1>3
<1>5. i - 1 <= Len(q)  BY <1>2, <1>3
<1>6. \A j \in 0 .. i - 1 : Sums(q)[j] = Sums(Sizes(chunk))[j]
  BY <1>1, <1>2, <1>3, <1>4, <1>5, SumsAgree
<1>7. i - 1 \in 0 .. i - 1  BY <1>2
<1> QED BY <1>3, <1>6, <1>7 DEF Total

\* A sequence met from a place on, element by element, is cut out there.
IsMet(s, from, own) == \A b \in 1 .. Len(own) : s[from + b] = own[b]

LEMMA CutIs ==
  ASSUME NEW T, NEW s, NEW own \in Seq(T), NEW from \in Nat, IsMet(s, from, own)
  PROVE  SubSeq(s, from + 1, from + Len(own)) = own
<1> DEFINE L == Len(own)
           m == from + 1
           n == from + L
           cut == SubSeq(s, m, n)
<1>1. L \in Nat /\ \A b \in 1 .. L : own[b] \in T  OBVIOUS
<1>2. own = [b \in 1 .. L |-> own[b]]  OBVIOUS
<1> HIDE DEF L
<1>3. m \in Int /\ n \in Int /\ n - m + 1 = L /\ (~ (m <= n) => L = 0)  BY <1>1
<1>4. \A b \in 1 .. L : m + b - 1 = from + b  BY <1>1
<1>5. ASSUME NEW k \in m .. n PROVE s[k] \in T
  <2>1. k - from \in 1 .. L /\ from + (k - from) = k  BY <1>1
  <2> QED BY <1>1, <2>1 DEF L, IsMet
<1>6. \A b \in 1 .. L : s[from + b] = own[b]  BY DEF L, IsMet
<1> HIDE DEF m, n
<1>7. /\ cut \in Seq(T) /\ Len(cut) = IF m <= n THEN n - m + 1 ELSE 0
      /\ \A b \in 1 .. n - m + 1 : cut[b] = s[m + b - 1]
  BY <1>3, <1>5, SubSeqProperties
<1> HIDE DEF cut
<1>8. Len(cut) = L  BY <1>3, <1>7
<1>9. \A b \in 1 .. L : cut[b] = own[b]
  <2>1. \A b \in 1 .. L : cut[b] = s[m + b - 1]  BY <1>3, <1>7
  <2> QED BY <1>4, <1>6, <2>1
<1>10. cut = [b \in 1 .. L |-> cut[b]]  BY <1>7, <1>8
<1>11. cut = own  BY <1>2, <1>9, <1>10
<1> QED BY <1>11 DEF cut, m, n, L

\* Where a sample is said to be, its bytes are.
LEMMA BytesFound ==
  ASSUME NEW bytes \in Seq(Byte), NEW t \in MFTracks, NEW chunk \in Seq(SampleOf),
         NEW i \in 1 .. Len(chunk), NEW offset \in Nat, Lies(bytes, offset, ChunkBytes(t, chunk)),
         NEW from, from = offset + Sums(Sizes(chunk))[i - 1] - Header
  PROVE  SubSeq(bytes, from + 1, from + chunk[i].size) = BytesOf(t, chunk[i])
<1> DEFINE x == ChunkBytes(t, chunk)
           own == BytesOf(t, chunk[i])
           size == chunk[i].size
           before == Sums(Sizes(chunk))[i - 1]
           o == offset - Header
<1>1. /\ x \in Seq(Byte)
      /\ \A b \in 1 .. size : before + b \in 1 .. Len(x) /\ x[before + b] = own[b]
  BY BytesInChunk
<1>2. chunk[i] \in SampleOf /\ size \in Nat /\ Sizes(chunk) \in Seq(Nat) /\ Len(chunk) \in Nat
      /\ Len(Sizes(chunk)) = Len(chunk)
  BY SizesAre
<1>3. own \in Seq(Byte) /\ Len(own) = size  BY <1>2, BytesAre
<1>4. before \in Nat
  <2>1. i - 1 \in 0 .. Len(Sizes(chunk))  BY <1>2
  <2> QED BY <1>2, <2>1, SumsTurn
<1>5. o \in Nat /\ \A b \in 1 .. Len(x) : bytes[o + b] = x[b]  BY DEF Lies
<1>6. Header \in Nat  BY DEF Header
<1>7. from = o + before  BY <1>4, <1>6
<1> HIDE DEF x, own, size, before, o
<1>8. \A b \in 1 .. size : bytes[from + b] = own[b]
  <2> SUFFICES ASSUME NEW b \in 1 .. size PROVE bytes[from + b] = own[b]  OBVIOUS
  <2>1. before + b \in 1 .. Len(x) /\ x[before + b] = own[b]  BY <1>1
  <2>2. bytes[o + (before + b)] = x[before + b]  BY <1>5, <2>1
  <2>3. o + (before + b) = from + b  BY <1>2, <1>4, <1>5, <1>7
  <2> QED BY <2>1, <2>2, <2>3
<1>9. from \in Nat  BY <1>4, <1>5, <1>7
<1> HIDE DEF Header
<1>10. SubSeq(bytes, from + 1, from + Len(own)) = own
  <2>1. IsMet(bytes, from, own)  BY <1>3, <1>8 DEF IsMet
  <2>2. own \in Seq(Byte)  BY <1>3
  <2> QED BY <1>9, <2>1, <2>2, CutIs
<1> QED BY <1>3, <1>10 DEF own, size

\* The track a file has for one of its sources.
IsTrak(trak, file, frags, t, info, movie) ==
  /\ trak = file.moov.traks[t] /\ file.mdat = WriteMdat(frags).bytes
  /\ trak = WriteTrak(info, frags[t], WriteMdat(frags).offsets[t], movie)

\* A track of the muxed file: a player finds each of its samples.
LEMMA TrakFinds ==
  ASSUME NEW frags \in [MFTracks -> Seq(Seq(SampleOf))], NEW t \in MFTracks,
         NEW info, NEW movie, NEW file, NEW trak, IsTrak(trak, file, frags, t, info, movie)
  PROVE  /\ Flat(frags[t]) \in Seq(SampleOf)
         /\ Len(trak.stsz) = Len(Flat(frags[t]))
         /\ Before(trak, Len(trak.co64) + 1) = Len(Flat(frags[t]))
         /\ \A n \in 1 .. Len(Flat(frags[t])) : PlaysAs(file, t, n) = Meets(t, Flat(frags[t])[n])
<1> DEFINE fs == frags[t]
           samples == Flat(fs)
           mdat == WriteMdat(frags)
           s == Lens(fs)
           S == Sums(s)
<1>0. /\ trak = file.moov.traks[t] /\ file.mdat = mdat.bytes
      /\ trak = WriteTrak(info, fs, mdat.offsets[t], movie)
  BY DEF IsTrak
<1>1. fs \in Seq(Seq(SampleOf))  OBVIOUS
<1>2. /\ trak.stsz = Sizes(samples) /\ trak.stts = WriteStts(samples)
      /\ trak.ctts = WriteCtts(samples) /\ trak.stss = WriteStss(samples)
      /\ trak.stsc = WriteStsc(fs) /\ trak.co64 = mdat.offsets[t]
  BY <1>0 DEF WriteTrak, WriteStsz
<1>3. mdat \in OutType /\ Lays(mdat, frags, t, Len(fs))  BY MdatLays
<1> HIDE DEF mdat, fs
<1>4. /\ samples \in Seq(SampleOf) /\ Len(samples) = Total(s)
      /\ s \in Seq(Nat) /\ Len(s) = Len(fs) /\ Len(fs) \in Nat
      /\ \A c \in 1 .. Len(fs) : s[c] = Len(fs[c]) /\ fs[c] \in Seq(SampleOf) /\ Len(fs[c]) \in Nat
  BY <1>1, FlatIs, LensAre
<1>5. S \in [0 .. Len(fs) -> Nat] /\ \A c \in 1 .. Len(fs) : S[c] = S[c - 1] + s[c]
  BY <1>4, SumsTurn
<1>6. mdat.bytes \in Seq(Byte) /\ mdat.offsets[t] \in Seq(Nat) /\ Len(trak.co64) = Len(fs)
      /\ \A c \in 1 .. Len(fs) : Lies(mdat.bytes, trak.co64[c], ChunkBytes(t, fs[c]))
  BY <1>2, <1>3 DEF Lays, OutType, fs
<1>7. \A c : Before(trak, c) = S[c - 1]
  <2>1. \A c \in 1 .. Len(fs) : PerChunk(trak, c) = Len(fs[c])  BY <1>1, <1>2, StscFinds
  <2>2. [d \in 1 .. Len(trak.co64) |-> PerChunk(trak, d)] = s  BY <1>6, <2>1 DEF Lens
  <2> QED BY <2>2 DEF Before
<1>8. Len(trak.stsz) = Len(samples)  BY <1>2, <1>4, SizesAre
<1>9. Before(trak, Len(trak.co64) + 1) = Len(samples)
  <2>1. (Len(trak.co64) + 1) - 1 = Len(s)  BY <1>4, <1>6
  <2>2. Before(trak, Len(trak.co64) + 1) = S[(Len(trak.co64) + 1) - 1]  BY <1>7
  <2> QED BY <1>4, <2>1, <2>2 DEF Total
<1>10. ASSUME NEW n \in 1 .. Len(samples) PROVE PlaysAs(file, t, n) = Meets(t, samples[n])
  <2>0. PICK c \in 1 .. Len(fs) :
          \E i \in 1 .. Len(fs[c]) : n = S[c - 1] + i /\ samples[n] = fs[c][i]
    BY <1>1, FlatOf
  <2>1. PICK i \in 1 .. Len(fs[c]) : n = S[c - 1] + i /\ samples[n] = fs[c][i]
    BY <2>0
  <2> DEFINE chunk == fs[c]
             first == S[c - 1]
             q == [j \in 1 .. n - 1 - first |-> trak.stsz[first + j]]
  <2>2. chunk \in Seq(SampleOf) /\ Len(chunk) \in Nat /\ s[c] = Len(chunk)  BY <1>4
  <2>3. first \in Nat /\ S[c] = first + Len(chunk) /\ c - 1 \in 0 .. Len(fs)
    <3>1. c - 1 \in 0 .. Len(fs)  BY <1>4
    <3> QED BY <1>4, <1>5, <3>1
  <2>4. first < n /\ n <= S[c] /\ n - 1 - first = i - 1 /\ n \in Int
    <3> HIDE DEF samples, chunk, first
    <3>1. i \in 1 .. Len(chunk) /\ n = first + i  BY <2>1 DEF chunk, first
    <3> QED BY <2>2, <2>3, <3>1
  <2>5. ChunkOf(trak, n) = c
    <3>1. \A d \in 1 .. Len(trak.co64) : Before(trak, d) = S[d - 1] /\ Before(trak, d + 1) = S[d]
      <4>1. \A d \in 1 .. Len(trak.co64) : (d + 1) - 1 = d  OBVIOUS
      <4> QED BY <1>7, <4>1
    <3>2. ChunkOf(trak, n) = Holder(s, n)  BY <1>4, <1>6, <3>1 DEF ChunkOf, Holder
    <3>3. Holder(s, n) = c  BY <1>4, <2>4, HolderIs
    <3> QED BY <3>2, <3>3
  <2>6. Place(trak, n) = trak.co64[c] + Total(q)
    <3>1. Before(trak, c) = first  BY <1>7
    <3> HIDE DEF first
    <3> QED BY <2>5, <3>1 DEF Place
  <2>7. Total(q) = Sums(Sizes(chunk))[i - 1]
    <3>1. ASSUME NEW j \in 1 .. i - 1 PROVE trak.stsz[first + j] = chunk[j].size
      <4>1. j \in 1 .. Len(chunk)  BY <2>2
      <4>2. first + j \in 1 .. Len(samples) /\ samples[first + j] = chunk[j]
        BY <1>1, <4>1, FlatIs
      <4>3. Sizes(samples)[first + j] = samples[first + j].size  BY <1>4, <4>2, SizesAre
      <4> QED BY <1>2, <4>2, <4>3
    <3>2. q = [j \in 1 .. i - 1 |-> chunk[j].size]  BY <2>4, <3>1
    <3> HIDE DEF q, chunk
    <3>3. i \in 1 .. Len(chunk)  BY DEF chunk
    <3> QED BY <2>2, <3>2, <3>3, RoomBefore
  <2>8. trak.stsz[n] = chunk[i].size  BY <1>2, <1>4, <2>1, SizesAre
  <2> HIDE DEF q
  <2>9. SubSeq(file.mdat, Place(trak, n) - Header + 1, Place(trak, n) - Header + trak.stsz[n])
          = BytesOf(t, samples[n])
    <3> DEFINE from == Place(trak, n) - Header
    <3>1. from = trak.co64[c] + Sums(Sizes(chunk))[i - 1] - Header
      <4> HIDE DEF chunk
      <4>1. Place(trak, n) = trak.co64[c] + Sums(Sizes(chunk))[i - 1]  BY <2>6, <2>7
      <4>2. Sums(Sizes(chunk))[i - 1] \in Nat
        <5> DEFINE sizes == Sizes(chunk)
        <5>1. sizes \in Seq(Nat) /\ Len(sizes) = Len(chunk)  BY <2>2, SizesAre
        <5>2. i - 1 \in 0 .. Len(chunk)  BY <2>2 DEF chunk
        <5> HIDE DEF sizes
        <5>3. Sums(sizes)[i - 1] \in Nat  BY <5>1, <5>2, SumsTurn
        <5> QED BY <5>3 DEF sizes
      <4>3. trak.co64[c] \in Nat /\ Header \in Nat  BY <1>2, <1>6 DEF Header
      <4> QED BY <4>1, <4>2, <4>3
    <3>2. trak.co64[c] \in Nat /\ Lies(mdat.bytes, trak.co64[c], ChunkBytes(t, chunk))
      <4> DEFINE offs == trak.co64
      <4>1. offs \in Seq(Nat) /\ Len(offs) = Len(fs)  BY <1>2, <1>6
      <4>2. Lies(mdat.bytes, offs[c], ChunkBytes(t, fs[c]))  BY <1>6
      <4> HIDE DEF offs
      <4>3. offs[c] \in Nat  BY <4>1
      <4> QED BY <4>2, <4>3 DEF offs, chunk
    <3> HIDE DEF from, chunk
    <3>3. i \in 1 .. Len(chunk)  BY DEF chunk
    <3>4. SubSeq(mdat.bytes, from + 1, from + chunk[i].size) = BytesOf(t, chunk[i])
      BY <1>6, <2>2, <3>1, <3>2, <3>3, BytesFound
    <3> QED BY <1>0, <2>1, <2>8, <3>4 DEF from, chunk
  <2>10. /\ ValueIn(trak.stts, n) = samples[n].dur
         /\ (IF trak.ctts = {} THEN 0
             ELSE ValueIn((CHOOSE table \in trak.ctts : TRUE).runs, n)) = samples[n].cto
         /\ (\A table \in trak.stss : n \in table) = samples[n].sync
    <3> HIDE DEF samples
    <3>1. /\ ValueIn(WriteStts(samples), n) = samples[n].dur
          /\ (IF WriteCtts(samples) = {} THEN 0
              ELSE ValueIn((CHOOSE table \in WriteCtts(samples) : TRUE).runs, n))
               = samples[n].cto
          /\ (\A table \in WriteStss(samples) : n \in table) = samples[n].sync
      BY <1>4, FieldsFound
    <3> HIDE DEF chunk, first
    <3> QED BY <1>2, <3>1
  <2> HIDE DEF samples
  <2> QED BY <1>0, <2>9, <2>10 DEF PlaysAs, Meets
<1> QED BY <1>4, <1>8, <1>9, <1>10 DEF fs

\* What is known of a moof that has samples to read.
LEMMA MoofIs ==
  ASSUME MFTypeOK, NEW t \in MFTracks, Readable(t), NEW k \in 1 .. Len(mfFiles[t]),
         mfFiles[t][k].traf
  PROVE  /\ mfFiles[t][k].tfhd \in HeadType /\ mfFiles[t][k].truns \in Seq(TrunType)
         /\ Len(mfFiles[t][k].truns) \in Nat /\ mfMoov[t].trex \in TrexType
         /\ \A j \in 1 .. Len(mfFiles[t][k].truns) :
              /\ mfFiles[t][k].truns[j] \in TrunType
              /\ j # 1 => mfFiles[t][k].truns[j].offset # None
<1> DEFINE moof == mfFiles[t][k]
<1>1. moof \in MFMoofs /\ mfMoov[t] \in MFMoovs
  <2>1. mfFiles[t] \in Seq(MFMoofs)  BY DEF MFTypeOK
  <2> QED BY <2>1 DEF MFTypeOK
<1>2. moof \in MoofType /\ mfMoov[t] \in MoovType
      /\ \A j \in 2 .. Len(moof.truns) : moof.truns[j].offset # None
  BY <1>1, MFAssumption
<1>3. moof.tfhd # None  BY DEF Readable
<1> HIDE DEF moof
<1>4. moof.tfhd \in HeadType /\ moof.truns \in Seq(TrunType) /\ mfMoov[t].trex \in TrexType
  BY <1>2, <1>3 DEF MoofType, MoovType, Optional
<1>5. Len(moof.truns) \in Nat /\ \A j \in 1 .. Len(moof.truns) : moof.truns[j] \in TrunType
  <2> DEFINE truns == moof.truns
  <2>1. truns \in Seq(TrunType)  BY <1>4
  <2> HIDE DEF truns, TrunType
  <2>2. Len(truns) \in Nat /\ \A j \in 1 .. Len(truns) : truns[j] \in TrunType  BY <2>1
  <2> QED BY <2>2 DEF truns
<1>6. \A j \in 1 .. Len(moof.truns) : j # 1 => j \in 2 .. Len(moof.truns)  BY <1>5
<1> QED BY <1>2, <1>4, <1>5, <1>6 DEF moof

\* A run's entries, with the defaults filled in.
LEMMA EntryIs ==
  ASSUME NEW t \in MFTracks, NEW moof, moof.tfhd \in HeadType, mfMoov[t].trex \in TrexType,
         NEW run \in TrunType, NEW i \in 1 .. Len(run.entries), NEW e,
         e = ReadEntry(run, i, Defaults(t, moof))
  PROVE  /\ e.size \in Nat /\ e.dur \in Nat /\ e.cto \in Int /\ e.sync \in BOOLEAN
         /\ e.size = Or(run.entries[i].size, Or(moof.tfhd.size, mfMoov[t].trex.size))
         /\ e.dur = Or(run.entries[i].dur, Or(moof.tfhd.dur, mfMoov[t].trex.dur))
         /\ e.cto = Or(run.entries[i].cto, 0)
         /\ e.sync = ~ (IF i = 1 /\ run.first # None THEN run.first
                        ELSE Or(run.entries[i].nonsync,
                                Or(moof.tfhd.nonsync, mfMoov[t].trex.nonsync)))
<1> DEFINE entry == run.entries[i]
           head == moof.tfhd
           trex == mfMoov[t].trex
<1>1. entry \in EntryType
  <2>1. run.entries \in Seq(EntryType)  BY DEF TrunType
  <2> DEFINE es == run.entries
  <2>2. es \in Seq(EntryType) /\ i \in 1 .. Len(es)  BY <2>1
  <2> HIDE DEF es, EntryType
  <2>3. es[i] \in EntryType  BY <2>2
  <2> QED BY <2>3 DEF es
<1> HIDE DEF entry
<1>2. /\ entry.size \in Nat \/ entry.size = None
      /\ entry.dur \in Nat \/ entry.dur = None
      /\ entry.cto \in Int \/ entry.cto = None
  BY <1>1 DEF EntryType, Optional
<1>3. /\ head.size \in Nat \/ head.size = None
      /\ head.dur \in Nat \/ head.dur = None
      /\ trex.size \in Nat /\ trex.dur \in Nat
  BY DEF HeadType, TrexType, Optional
<1>4. /\ e.size = Or(entry.size, Or(head.size, trex.size))
      /\ e.dur = Or(entry.dur, Or(head.dur, trex.dur))
      /\ e.cto = Or(entry.cto, 0)
      /\ e.sync = ~ (IF i = 1 /\ run.first # None THEN run.first
                     ELSE Or(entry.nonsync, Or(head.nonsync, trex.nonsync)))
  BY DEF ReadEntry, Defaults, entry
<1>5. e.sync \in BOOLEAN  BY <1>4
<1> HIDE DEF head, trex
<1>6. e.size \in Nat /\ e.dur \in Nat /\ e.cto \in Int  BY <1>2, <1>3, <1>4 DEF Or
<1> QED BY <1>4, <1>5, <1>6 DEF entry, head, trex

\* A run of samples: each is read as the standard would have it.
MeetsAll(t, s) == [i \in 1 .. Len(s) |-> Meets(t, s[i])]
MeetOf == [bytes : Seq(Byte), dur : Nat, cto : Int, sync : BOOLEAN]

LEMMA RunMeets ==
  ASSUME MFTypeOK, NEW t \in MFTracks, Readable(t), NEW k \in 1 .. Len(mfFiles[t]),
         mfFiles[t][k].traf, NEW j \in 1 .. Len(mfFiles[t][k].truns),
         NEW rs, rs = ReadRun(t, mfFiles[t][k], k, mfFiles[t][k].truns[j])
  PROVE  /\ rs \in Seq(SampleOf)
         /\ SourceRun(t, k, j) = MeetsAll(t, rs)
<1> DEFINE moof == mfFiles[t][k]
           run == moof.truns[j]
           head == moof.tfhd
           trex == mfMoov[t].trex
           L == Len(run.entries)
           entry(i) == ReadEntry(run, i, Defaults(t, moof))
           es == [i \in 1 .. L |-> entry(i)]
           from == Or(run.offset, 0)
<1>1. head \in HeadType /\ trex \in TrexType /\ run \in TrunType /\ (j # 1 => run.offset # None)
  BY MoofIs
<1>2. L \in Nat /\ Len(es) = L /\ k \in Nat
  <2>1. run.entries \in Seq(EntryType)  BY <1>1 DEF TrunType
  <2> DEFINE entries == run.entries
  <2>2. Len(entries) \in Nat
    <3>1. entries \in Seq(EntryType)  BY <2>1
    <3> HIDE DEF entries, EntryType
    <3> QED BY <3>1
  <2>3. L \in Nat  BY <2>2
  <2> HIDE DEF L, entry
  <2> QED BY <2>3
<1>3. from \in Int
  <2>1. run.offset \in Int \/ run.offset = None  BY <1>1 DEF TrunType, Optional
  <2> QED BY <2>1 DEF Or
<1>4. from = IF j = 1 /\ run.offset = None THEN 0 ELSE run.offset  BY <1>1 DEF Or
<1>5. \A i \in 1 .. L :
        /\ es[i].size \in Nat /\ es[i].dur \in Nat /\ es[i].cto \in Int /\ es[i].sync \in BOOLEAN
        /\ es[i].size = Or(run.entries[i].size, Or(head.size, trex.size))
        /\ es[i].dur = Or(run.entries[i].dur, Or(head.dur, trex.dur))
        /\ es[i].cto = Or(run.entries[i].cto, 0)
        /\ es[i].sync = ~ (IF i = 1 /\ run.first # None THEN run.first
                           ELSE Or(run.entries[i].nonsync, Or(head.nonsync, trex.nonsync)))
  <2> SUFFICES ASSUME NEW i \in 1 .. L
      PROVE  /\ es[i].size \in Nat /\ es[i].dur \in Nat /\ es[i].cto \in Int
             /\ es[i].sync \in BOOLEAN
             /\ es[i].size = Or(run.entries[i].size, Or(head.size, trex.size))
             /\ es[i].dur = Or(run.entries[i].dur, Or(head.dur, trex.dur))
             /\ es[i].cto = Or(run.entries[i].cto, 0)
             /\ es[i].sync = ~ (IF i = 1 /\ run.first # None THEN run.first
                                ELSE Or(run.entries[i].nonsync, Or(head.nonsync, trex.nonsync)))
    OBVIOUS
  <2>1. es[i] = ReadEntry(run, i, Defaults(t, moof))  OBVIOUS
  <2> HIDE DEF es, moof, run
  <2> QED BY <1>1, <2>1, EntryIs
<1> DEFINE sizes == Sizes(es)
<1>6. sizes = [i \in 1 .. L |-> Or(run.entries[i].size, Or(head.size, trex.size))]
      /\ sizes \in Seq(Nat) /\ Len(sizes) = L
  <2>1. sizes = [i \in 1 .. L |-> es[i].size]  BY <1>2 DEF Sizes
  <2> HIDE DEF es, sizes, L
  <2>2. sizes = [i \in 1 .. L |-> Or(run.entries[i].size, Or(head.size, trex.size))]  BY <1>5, <2>1
  <2>3. \A i \in 1 .. L : es[i].size \in Nat  BY <1>5
  <2>4. sizes \in Seq(Nat) /\ Len(sizes) = L
    <3> HIDE DEF run, head, trex
    <3> QED BY <1>2, <2>1, <2>3
  <2> QED BY <2>2, <2>4
<1>7. \A i \in 1 .. L : Sums(sizes)[i - 1] \in Nat
  <2>1. \A i \in 1 .. L : i - 1 \in 0 .. L  BY <1>2
  <2> HIDE DEF sizes, L
  <2> QED BY <1>6, <2>1, SumsTurn
<1> DEFINE src(i) == InMoof(k, from + Sums(sizes)[i - 1])
           sample(i) == [size |-> es[i].size, dur |-> es[i].dur, cto |-> es[i].cto,
                         sync |-> es[i].sync, src |-> src(i)]
<1>8. rs = [i \in 1 .. L |-> sample(i)]
  <2>1. rs = [i \in 1 .. Len(es) |-> sample(i)]  BY DEF ReadRun
  <2> QED BY <1>2, <2>1
<1>9. \A i \in 1 .. L : sample(i) \in SampleOf
  <2> SUFFICES ASSUME NEW i \in 1 .. L PROVE sample(i) \in SampleOf  OBVIOUS
  <2>1. src(i) \in [moof : Nat, n : Int]
    <3> HIDE DEF from, sizes, L
    <3>1. from + Sums(sizes)[i - 1] \in Int  BY <1>3, <1>7
    <3> QED BY <1>2, <3>1 DEF InMoof
  <2> HIDE DEF src, es
  <2> QED BY <1>5, <2>1 DEF SampleOf
<1>10. rs \in Seq(SampleOf) /\ Len(rs) = L /\ \A i \in 1 .. L : rs[i] = sample(i)
  <2> HIDE DEF sample, L
  <2> QED BY <1>2, <1>8, <1>9
<1>11. SourceRun(t, k, j)
         = [i \in 1 .. L |->
              [bytes |-> [b \in 1 .. sizes[i] |->
                            [track |-> t, src |-> InMoof(k, from + Sums(sizes)[i - 1] + b - 1)]],
               dur |-> Or(run.entries[i].dur, Or(head.dur, trex.dur)),
               cto |-> Or(run.entries[i].cto, 0),
               sync |-> ~ (IF i = 1 /\ run.first # None THEN run.first
                           ELSE Or(run.entries[i].nonsync, Or(head.nonsync, trex.nonsync)))]]
  BY <1>4, <1>6 DEF SourceRun
<1>12. ASSUME NEW i \in 1 .. L PROVE SourceRun(t, k, j)[i] = Meets(t, rs[i])
  <2> DEFINE e == es[i]
             base == from + Sums(sizes)[i - 1]
             bytes == [b \in 1 .. sizes[i] |-> [track |-> t, src |-> InMoof(k, base + b - 1)]]
             dur == Or(run.entries[i].dur, Or(head.dur, trex.dur))
             cto == Or(run.entries[i].cto, 0)
             sync == ~ (IF i = 1 /\ run.first # None THEN run.first
                        ELSE Or(run.entries[i].nonsync, Or(head.nonsync, trex.nonsync)))
  <2>1. e.size = sizes[i] /\ e.dur = dur /\ e.cto = cto /\ e.sync = sync
    <3> HIDE DEF es, sizes, run, head, trex, L
    <3>1. /\ es[i].size = Or(run.entries[i].size, Or(head.size, trex.size))
          /\ es[i].dur = Or(run.entries[i].dur, Or(head.dur, trex.dur))
          /\ es[i].cto = Or(run.entries[i].cto, 0)
          /\ es[i].sync = ~ (IF i = 1 /\ run.first # None THEN run.first
                             ELSE Or(run.entries[i].nonsync, Or(head.nonsync, trex.nonsync)))
      BY <1>5
    <3>2. sizes[i] = Or(run.entries[i].size, Or(head.size, trex.size))  BY <1>6
    <3> QED BY <3>1, <3>2
  <2>2. rs[i] = [size |-> e.size, dur |-> e.dur, cto |-> e.cto, sync |-> e.sync,
                 src |-> InMoof(k, base)]
    <3> HIDE DEF es, sizes, from, L
    <3> QED BY <1>10
  <2>3. SourceRun(t, k, j)[i] = [bytes |-> bytes, dur |-> dur, cto |-> cto, sync |-> sync]
    <3> HIDE DEF run, head, trex, sizes, from, L
    <3> QED BY <1>11
  <2> HIDE DEF e, base, dur, cto, sync
  <2>4. /\ rs[i].size = e.size /\ rs[i].dur = e.dur /\ rs[i].cto = e.cto /\ rs[i].sync = e.sync
        /\ rs[i].src = InMoof(k, base)
    BY <2>2
  <2>5. BytesOf(t, rs[i]) = bytes
    <3>1. rs[i].src.moof = k /\ rs[i].src.n = base
      <4>1. InMoof(k, base).moof = k /\ InMoof(k, base).n = base  BY DEF InMoof
      <4>2. rs[i].src = InMoof(k, base)  BY <2>4
      <4> QED BY <4>1, <4>2
    <3> HIDE DEF sizes
    <3> QED BY <2>1, <2>4, <3>1 DEF BytesOf
  <2> HIDE DEF bytes
  <2> QED BY <2>1, <2>3, <2>4, <2>5 DEF Meets
<1>13. SourceRun(t, k, j) = [i \in 1 .. L |-> SourceRun(t, k, j)[i]]
  <2> HIDE DEF L, sizes, from
  <2> QED BY <1>11
<1>14. SourceRun(t, k, j) = [i \in 1 .. L |-> Meets(t, rs[i])]  BY <1>12, <1>13
<1>15. Len(rs) = L  BY <1>10
<1> QED BY <1>10, <1>14, <1>15 DEF MeetsAll

\* What is read of a moof is samples,
LEMMA ParseType ==
  ASSUME MFTypeOK, NEW t \in MFTracks, Readable(t), NEW k \in 1 .. Len(mfFiles[t]),
         mfFiles[t][k].traf, NEW runs,
         runs = [j \in 1 .. Len(mfFiles[t][k].truns) |->
                   ReadRun(t, mfFiles[t][k], k, mfFiles[t][k].truns[j])]
  PROVE  /\ runs \in Seq(Seq(SampleOf))
         /\ ParseMoofIntoSamples(t, mfFiles[t][k], k) = Flat(runs)
         /\ ParseMoofIntoSamples(t, mfFiles[t][k], k) \in Seq(SampleOf)
<1> DEFINE N == Len(mfFiles[t][k].truns)
<1>1. N \in Nat  BY MoofIs
<1>2. \A j \in 1 .. N : ReadRun(t, mfFiles[t][k], k, mfFiles[t][k].truns[j]) \in Seq(SampleOf)
  BY RunMeets
<1>3. runs \in Seq(Seq(SampleOf))
  <2>1. runs = [j \in 1 .. N |-> ReadRun(t, mfFiles[t][k], k, mfFiles[t][k].truns[j])]
    OBVIOUS
  <2> HIDE DEF N, SampleOf
  <2> QED BY <1>1, <1>2, <2>1
<1>4. ParseMoofIntoSamples(t, mfFiles[t][k], k) = Flat(runs)  BY DEF ParseMoofIntoSamples
<1>5. Flat(runs) \in Seq(SampleOf)  BY <1>3, FlatIs
<1> QED BY <1>3, <1>4, <1>5

\* A function over 1 .. n is a sequence of its values.
LEMMA ListType ==
  ASSUME NEW S, NEW n \in Nat, NEW f, f = [i \in 1 .. n |-> f[i]], \A i \in 1 .. n : f[i] \in S
  PROVE  f \in Seq(S) /\ Len(f) = n
OBVIOUS

\* A sample that is met is a record of its own.
LEMMA MeetsType ==
  ASSUME NEW t \in MFTracks, NEW s \in SampleOf
  PROVE  Meets(t, s) \in MeetOf
<1>1. BytesOf(t, s) \in Seq(Byte)  BY BytesAre
<1>2. s.dur \in Nat /\ s.cto \in Int /\ s.sync \in BOOLEAN  BY DEF SampleOf
<1> HIDE DEF Byte
<1> QED BY <1>1, <1>2 DEF Meets, MeetOf

MeetsEach(t, ss) == [c \in 1 .. Len(ss) |-> MeetsAll(t, ss[c])]

LEMMA MeetsAllType ==
  ASSUME NEW t \in MFTracks, NEW s \in Seq(SampleOf)
  PROVE  MeetsAll(t, s) \in Seq(MeetOf) /\ Len(MeetsAll(t, s)) = Len(s)
<1> DEFINE m == Len(s)
           f == MeetsAll(t, s)
<1>1. m \in Nat /\ \A i \in 1 .. m : s[i] \in SampleOf
  <2> HIDE DEF SampleOf
  <2> QED OBVIOUS
<1>2. \A i \in 1 .. m : Meets(t, s[i]) \in MeetOf  BY <1>1, MeetsType
<1> HIDE DEF m
<1>3. f = [i \in 1 .. m |-> Meets(t, s[i])]  BY DEF MeetsAll, m
<1> HIDE DEF f
<1>4. f = [i \in 1 .. m |-> f[i]] /\ \A i \in 1 .. m : f[i] \in MeetOf  BY <1>2, <1>3
<1>5. f \in Seq(MeetOf) /\ Len(f) = m  BY <1>1, <1>4, ListType
<1> QED BY <1>5 DEF f, m

\* and sequences of them put end to end are met element by element.
LEMMA FlatMeets ==
  ASSUME NEW t \in MFTracks, NEW ss \in Seq(Seq(SampleOf)), NEW rr,
         rr = MeetsEach(t, ss)
  PROVE  rr \in Seq(Seq(MeetOf)) /\ Flat(rr) = MeetsAll(t, Flat(ss))
<1> DEFINE N == Len(ss)
<1>1. /\ N \in Nat /\ Lens(ss) \in Seq(Nat) /\ Len(Lens(ss)) = N
      /\ \A c \in 1 .. N : ss[c] \in Seq(SampleOf) /\ Len(ss[c]) \in Nat /\ Lens(ss)[c] = Len(ss[c])
  BY LensAre
<1>2. /\ rr = [c \in 1 .. N |-> rr[c]]
      /\ \A c \in 1 .. N : /\ rr[c] = MeetsAll(t, ss[c]) /\ rr[c] \in Seq(MeetOf)
                            /\ Len(rr[c]) = Len(ss[c])
  <2>1. rr = [c \in 1 .. N |-> MeetsAll(t, ss[c])]  BY DEF MeetsEach
  <2>2. \A c \in 1 .. N : MeetsAll(t, ss[c]) \in Seq(MeetOf)
                           /\ Len(MeetsAll(t, ss[c])) = Len(ss[c])
    BY <1>1, MeetsAllType
  <2> HIDE DEF N
  <2> QED BY <2>1, <2>2
<1>3. rr \in Seq(Seq(MeetOf)) /\ Len(rr) = N
  <2> HIDE DEF N, MeetOf
  <2> QED BY <1>1, <1>2, ListType
<1>4. Lens(rr) = Lens(ss)
  <2>1. \A c \in 1 .. N : Len(rr[c]) = Len(ss[c])  BY <1>2
  <2>2. Lens(rr) = [c \in 1 .. N |-> Len(rr[c])]  BY <1>3 DEF Lens
  <2>3. Lens(ss) = [c \in 1 .. N |-> Len(ss[c])]  BY DEF Lens
  <2> HIDE DEF N
  <2> QED BY <2>1, <2>2, <2>3
<1> DEFINE S == Sums(Lens(ss))
<1>5. Flat(rr) \in Seq(MeetOf) /\ Len(Flat(rr)) = Len(Flat(ss)) /\ Len(Flat(ss)) \in Nat
  <2>1. Flat(ss) \in Seq(SampleOf) /\ Len(Flat(ss)) = Total(Lens(ss))  BY FlatIs
  <2>2. Flat(rr) \in Seq(MeetOf) /\ Len(Flat(rr)) = Total(Lens(rr))  BY <1>3, FlatIs
  <2>3. Len(Flat(ss)) \in Nat
    <3> HIDE DEF SampleOf
    <3> QED BY <2>1
  <2> QED BY <1>4, <2>1, <2>2, <2>3
<1>6. \A c \in 1 .. N : \A i \in 1 .. Len(rr[c]) : Flat(rr)[S[c - 1] + i] = rr[c][i]
  <2>1. \A c \in 1 .. Len(rr) : \A i \in 1 .. Len(rr[c]) :
          Flat(rr)[Sums(Lens(rr))[c - 1] + i] = rr[c][i]
    <3> HIDE DEF MeetOf
    <3> QED BY <1>3, FlatIs
  <2> QED BY <1>3, <1>4, <2>1
<1>7. ASSUME NEW n \in 1 .. Len(Flat(ss)) PROVE Flat(rr)[n] = Meets(t, Flat(ss)[n])
  <2>1. PICK c \in 1 .. N : \E i \in 1 .. Len(ss[c]) : n = S[c - 1] + i /\ Flat(ss)[n] = ss[c][i]
    BY FlatOf
  <2>2. PICK i \in 1 .. Len(ss[c]) : n = S[c - 1] + i /\ Flat(ss)[n] = ss[c][i]  BY <2>1
  <2>3. i \in 1 .. Len(rr[c]) /\ rr[c][i] = Meets(t, ss[c][i])
    <3>1. rr[c] = MeetsAll(t, ss[c]) /\ Len(rr[c]) = Len(ss[c])  BY <1>2
    <3> QED BY <3>1 DEF MeetsAll
  <2>4. Flat(rr)[S[c - 1] + i] = rr[c][i]  BY <1>6, <2>3
  <2> QED BY <2>2, <2>3, <2>4
<1>8. Flat(rr) = [n \in 1 .. Len(Flat(ss)) |-> Flat(rr)[n]]
  <2> DEFINE flat == Flat(rr)
  <2>1. flat \in Seq(MeetOf) /\ Len(flat) = Len(Flat(ss))  BY <1>5
  <2> HIDE DEF flat, MeetOf
  <2>2. flat = [n \in 1 .. Len(flat) |-> flat[n]]  BY <2>1
  <2> QED BY <2>1, <2>2 DEF flat
<1>9. Flat(rr) = MeetsAll(t, Flat(ss))  BY <1>7, <1>8 DEF MeetsAll
<1> QED BY <1>3, <1>9

\* The groups read so far.
LEMMA ReadTurn ==
  ASSUME MFTypeOK, NEW t \in MFTracks, Readable(t)
  PROVE  /\ ReadSoFar(t) \in [0 .. Len(mfFiles[t]) -> Seq(Seq(SampleOf))]
         /\ ReadSoFar(t)[0] = << >>
         /\ \A i \in 1 .. Len(mfFiles[t]) :
              ReadSoFar(t)[i] =
                IF mfFiles[t][i].traf
                THEN Append(ReadSoFar(t)[i - 1], ParseMoofIntoSamples(t, mfFiles[t][i], i))
                ELSE ReadSoFar(t)[i - 1]
<1> DEFINE n == Len(mfFiles[t])
           S == Seq(Seq(SampleOf))
           base == << >>
           Turn(x, i) ==
             IF mfFiles[t][i].traf THEN Append(x, ParseMoofIntoSamples(t, mfFiles[t][i], i)) ELSE x
           turn == [i \in 1 .. n |-> [x \in S |-> Turn(x, i)]]
           f == ReadSoFar(t)
<1>1. n \in Nat  BY DEF MFTypeOK
<1>2. base \in S  OBVIOUS
<1>3. ASSUME NEW i \in 1 .. n, NEW x \in S PROVE Turn(x, i) \in S
  <2>1. CASE mfFiles[t][i].traf
    <3>1. ParseMoofIntoSamples(t, mfFiles[t][i], i) \in Seq(SampleOf)  BY <2>1, ParseType
    <3> DEFINE p == ParseMoofIntoSamples(t, mfFiles[t][i], i)
    <3>2. p \in Seq(SampleOf)  BY <3>1
    <3> HIDE DEF p
    <3>3. Append(x, p) \in Seq(Seq(SampleOf))  BY <3>2
    <3> QED BY <2>1, <3>3 DEF p
  <2>2. CASE ~ mfFiles[t][i].traf  BY <2>2
  <2> QED BY <2>1, <2>2
<1>4. ASSUME NEW g, g = [i \in 0 .. n |-> IF i = 0 THEN base ELSE Turn(g[i - 1], i)]
      PROVE  f = [i \in 0 .. n |-> IF i = 0 THEN base ELSE Turn(f[i - 1], i)]
  BY <1>4 DEF ReadSoFar, Turns
<1> HIDE DEF n, S, base, Turn, f
<1>5. IsTurn(turn, n, S)  BY <1>3 DEF IsTurn
<1>6. \A i \in 1 .. n, x \in S : turn[i][x] = Turn(x, i)  OBVIOUS
<1> HIDE DEF turn
<1>7. PICK g : IsLoop(g, n, base, turn, S)  BY <1>1, <1>2, <1>5, TurnsExist
<1>8. \A i \in 1 .. n : i - 1 \in 0 .. n /\ g[i] = Turn(g[i - 1], i)
  BY <1>1, <1>6, <1>7 DEF IsLoop
<1>9. g = [i \in 0 .. n |-> IF i = 0 THEN base ELSE Turn(g[i - 1], i)]
  <2>1. \A i \in 0 .. n : g[i] = IF i = 0 THEN base ELSE Turn(g[i - 1], i)
    BY <1>1, <1>7, <1>8 DEF IsLoop
  <2>2. g = [i \in 0 .. n |-> g[i]]  BY <1>7 DEF IsLoop
  <2> QED BY <2>1, <2>2
<1>10. f = [i \in 0 .. n |-> IF i = 0 THEN base ELSE Turn(f[i - 1], i)]  BY <1>4, <1>9
<1>11. f[0] = base /\ \A i \in 1 .. n : i - 1 \in 0 .. n /\ f[i] = Turn(f[i - 1], i)
  BY <1>1, <1>10
<1>12. \A i \in 0 .. n : f[i] \in S
  <2> DEFINE P == {i \in 0 .. n : f[i] \in S}
  <2>1. 0 \in P  BY <1>1, <1>2, <1>11
  <2>2. \A i \in 1 .. n : i - 1 \in P => i \in P  BY <1>3, <1>11
  <2>3. 0 .. n \subseteq P
    <3> HIDE DEF P
    <3> QED BY <1>1, <2>1, <2>2, UpTo
  <2> QED BY <2>3
<1>13. f \in [0 .. n -> S]  BY <1>10, <1>12
<1> QED BY <1>11, <1>13 DEF n, S, base, Turn, f


\* A moof is read as the standard would have it.
LEMMA MoofMeets ==
  ASSUME MFTypeOK, NEW t \in MFTracks, Readable(t), NEW k \in 1 .. Len(mfFiles[t]),
         mfFiles[t][k].traf, NEW p, p = ParseMoofIntoSamples(t, mfFiles[t][k], k)
  PROVE  /\ p \in Seq(SampleOf)
         /\ SourceMoof(t, k) = MeetsAll(t, p)
         /\ SourceMoof(t, k) \in Seq(MeetOf)
<1> DEFINE N == Len(mfFiles[t][k].truns)
           runs == [j \in 1 .. N |-> ReadRun(t, mfFiles[t][k], k, mfFiles[t][k].truns[j])]
           rr == MeetsEach(t, runs)
<1>1. runs \in Seq(Seq(SampleOf)) /\ p = Flat(runs) /\ p \in Seq(SampleOf)  BY ParseType
<1>2. N \in Nat /\ Len(runs) = N
  <2>1. N \in Nat  BY MoofIs
  <2> HIDE DEF N
  <2> QED BY <2>1
<1>3. \A j \in 1 .. N :
        SourceRun(t, k, j) = MeetsAll(t, runs[j])
  <2> SUFFICES ASSUME NEW j \in 1 .. N PROVE SourceRun(t, k, j) = MeetsAll(t, runs[j])
    OBVIOUS
  <2> DEFINE rs == runs[j]
  <2>1. rs = ReadRun(t, mfFiles[t][k], k, mfFiles[t][k].truns[j])  OBVIOUS
  <2>0. j \in 1 .. Len(mfFiles[t][k].truns)  OBVIOUS
  <2> HIDE DEF rs, runs, N
  <2>2. SourceRun(t, k, j) = MeetsAll(t, rs)  BY <2>0, <2>1, RunMeets
  <2> QED BY <2>2 DEF rs
<1>4. [j \in 1 .. N |-> SourceRun(t, k, j)] = rr
  <2> HIDE DEF N, runs
  <2> QED BY <1>2, <1>3 DEF MeetsEach
<1>5. SourceMoof(t, k) = Flat(rr)  BY <1>4 DEF SourceMoof
<1> HIDE DEF runs
<1>6. Flat(rr) = MeetsAll(t, Flat(runs)) /\ rr \in Seq(Seq(MeetOf))
  BY <1>1, FlatMeets
<1>7. Flat(rr) \in Seq(MeetOf)  BY <1>6, FlatIs
<1> QED BY <1>1, <1>5, <1>6, <1>7

\* What is met of some samples, and of some more.
LEMMA MeetsMore ==
  ASSUME NEW t \in MFTracks, NEW a \in Seq(SampleOf), NEW b \in Seq(SampleOf)
  PROVE  MeetsAll(t, a \o b) = MeetsAll(t, a) \o MeetsAll(t, b)
<1> DEFINE f == MeetsAll(t, a)
           g == MeetsAll(t, b)
           m(s) == Meets(t, s)
<1>1. /\ Len(a) \in Nat /\ Len(b) \in Nat /\ Len(a \o b) = Len(a) + Len(b)
      /\ \A i \in 1 .. Len(a) + Len(b) :
           (a \o b)[i] = IF i <= Len(a) THEN a[i] ELSE b[i - Len(a)]
  <2> HIDE DEF SampleOf
  <2> QED OBVIOUS
<1> HIDE DEF m
<1>2. /\ Len(f) = Len(a) /\ \A i \in 1 .. Len(a) : f[i] = m(a[i])
      /\ Len(g) = Len(b) /\ \A i \in 1 .. Len(b) : g[i] = m(b[i])
  <2>1. f = [i \in 1 .. Len(a) |-> m(a[i])] /\ g = [i \in 1 .. Len(b) |-> m(b[i])]
    BY DEF MeetsAll, m
  <2> HIDE DEF f, g
  <2> QED BY <1>1, <2>1
<1>0. f \in Seq(MeetOf) /\ g \in Seq(MeetOf)  BY MeetsAllType
<1>3. \A i \in 1 .. Len(a) + Len(b) : (f \o g)[i] = m((a \o b)[i])
  <2> HIDE DEF f, g
  <2>1. \A i \in 1 .. Len(f) + Len(g) : (f \o g)[i] = IF i <= Len(f) THEN f[i] ELSE g[i - Len(f)]
    OBVIOUS
  <2> SUFFICES ASSUME NEW i \in 1 .. Len(a) + Len(b) PROVE (f \o g)[i] = m((a \o b)[i])
    OBVIOUS
  <2>2. CASE i <= Len(a)
    <3>1. i \in 1 .. Len(a)  BY <1>1, <2>2
    <3> QED BY <1>1, <1>2, <2>1, <2>2, <3>1
  <2>3. CASE ~ (i <= Len(a))
    <3>1. i - Len(a) \in 1 .. Len(b)  BY <1>1, <2>3
    <3> QED BY <1>1, <1>2, <2>1, <2>3, <3>1
  <2> QED BY <2>2, <2>3
<1>4. f \o g = [i \in 1 .. Len(a) + Len(b) |-> (f \o g)[i]]
  <2> DEFINE h == f \o g
  <2> HIDE DEF f, g, MeetOf
  <2>1. h \in Seq(MeetOf) /\ Len(h) = Len(f) + Len(g)  BY <1>0, ConcatProperties
  <2> HIDE DEF h
  <2>2. h = [i \in 1 .. Len(h) |-> h[i]]  BY <2>1
  <2>3. Len(f) = Len(a) /\ Len(g) = Len(b)  BY <1>2
  <2> QED BY <2>1, <2>2, <2>3 DEF h
<1>5. MeetsAll(t, a \o b) = [i \in 1 .. Len(a) + Len(b) |-> m((a \o b)[i])]
  BY <1>1 DEF MeetsAll, m
<1> HIDE DEF f, g
<1>6. f \o g = MeetsAll(t, a \o b)  BY <1>3, <1>4, <1>5
<1> QED BY <1>6 DEF f, g

\* A source is read as the standard would have it, as far as it goes.
LEMMA SourceMeets ==
  ASSUME MFTypeOK, NEW t \in MFTracks, Readable(t)
  PROVE  /\ ReadFragmentSamples(t) \in Seq(Seq(SampleOf))
         /\ SourceSamples(t) = MeetsAll(t, Flat(ReadFragmentSamples(t)))
<1> DEFINE N == Len(mfFiles[t])
           R == ReadSoFar(t)
           sm == [k \in 1 .. N |-> SourceMoof(t, k)]
           F == FlatSoFar(sm)
           P == {k \in 0 .. N : F[k] = MeetsAll(t, Flat(R[k]))}
<1>1. N \in Nat  BY DEF MFTypeOK
<1>2. /\ R \in [0 .. N -> Seq(Seq(SampleOf))] /\ R[0] = << >>
      /\ \A k \in 1 .. N :
           R[k] = IF mfFiles[t][k].traf
                  THEN Append(R[k - 1], ParseMoofIntoSamples(t, mfFiles[t][k], k)) ELSE R[k - 1]
  BY ReadTurn
<1>3. \A k \in 1 .. N : SourceMoof(t, k) \in Seq(MeetOf)
  <2> SUFFICES ASSUME NEW k \in 1 .. N PROVE SourceMoof(t, k) \in Seq(MeetOf)  OBVIOUS
  <2>1. CASE mfFiles[t][k].traf  BY <2>1, MoofMeets
  <2>2. CASE ~ mfFiles[t][k].traf
    <3>1. SourceMoof(t, k) = << >>  BY <2>2 DEF SourceMoof
    <3> QED BY <3>1
  <2> QED BY <2>1, <2>2
<1>4. sm \in Seq(Seq(MeetOf)) /\ Len(sm) = N /\ \A k \in 1 .. N : sm[k] = SourceMoof(t, k)
  <2> HIDE DEF N, MeetOf
  <2> QED BY <1>1, <1>3
<1> HIDE DEF R, sm
<1>5. /\ F \in [0 .. N -> Seq(MeetOf)] /\ F[0] = << >>
      /\ \A k \in 1 .. N : F[k] = F[k - 1] \o SourceMoof(t, k)
  BY <1>4, FlatTurn
<1> HIDE DEF F, N
<1>6. 0 \in P
  <2> DEFINE none == << >>
  <2>1. none \in Seq(Seq(SampleOf)) /\ Len(none) = 0  OBVIOUS
  <2>2. Flat(none) = << >>
    <3>1. FlatSoFar(none)[0] = << >>
      <4> HIDE DEF none
      <4>1. FlatSoFar(none)[0] = << >>  BY <2>1, FlatTurn
      <4> QED BY <4>1
    <3> QED BY <2>1, <3>1 DEF Flat
  <2>3. MeetsAll(t, << >>) = << >>  BY DEF MeetsAll
  <2> QED BY <1>1, <1>2, <1>5, <2>2, <2>3
<1>7. ASSUME NEW k \in 1 .. N, k - 1 \in P PROVE k \in P
  <2>1. F[k - 1] = MeetsAll(t, Flat(R[k - 1])) /\ F[k] = F[k - 1] \o SourceMoof(t, k)
        /\ k - 1 \in 0 .. N /\ k \in 0 .. N
    <3>1. F[k - 1] = MeetsAll(t, Flat(R[k - 1])) /\ k - 1 \in 0 .. N  BY <1>7
    <3>2. k \in 0 .. N  BY <1>1
    <3> QED BY <1>5, <3>1, <3>2
  <2>2. CASE mfFiles[t][k].traf
    <3> DEFINE p == ParseMoofIntoSamples(t, mfFiles[t][k], k)
               q == R[k - 1]
               more == Append(q, p)
    <3>1. p \in Seq(SampleOf) /\ SourceMoof(t, k) = MeetsAll(t, p)
      <4>1. k \in 1 .. Len(mfFiles[t])  BY DEF N
      <4> QED BY <2>2, <4>1, MoofMeets
    <3>2. q \in Seq(Seq(SampleOf)) /\ R[k] = more
      <4>1. k - 1 \in 0 .. N  BY <2>1
      <4> QED BY <1>2, <2>2, <4>1
    <3> HIDE DEF p, q
    <3>3. /\ more \in Seq(Seq(SampleOf)) /\ Len(more) = Len(q) + 1 /\ more[Len(q) + 1] = p
          /\ \A c \in 1 .. Len(q) : more[c] = q[c]
      <4> HIDE DEF SampleOf
      <4> QED BY <3>1, <3>2
    <3> HIDE DEF more
    <3>4. Flat(more) = Flat(q) \o p  BY <3>2, <3>3, FlatLast
    <3>5. Flat(q) \in Seq(SampleOf)  BY <3>2, FlatIs
    <3>6. MeetsAll(t, Flat(q) \o p) = MeetsAll(t, Flat(q)) \o MeetsAll(t, p)
      BY <3>1, <3>5, MeetsMore
    <3>7. F[k - 1] = MeetsAll(t, Flat(q))  BY <2>1 DEF q
    <3> QED BY <2>1, <3>1, <3>2, <3>4, <3>6, <3>7
  <2>3. CASE ~ mfFiles[t][k].traf
    <3>1. SourceMoof(t, k) = << >>  BY <2>3 DEF SourceMoof
    <3>2. R[k] = R[k - 1]  BY <1>2, <2>3
    <3>3. F[k - 1] \in Seq(MeetOf)  BY <1>5, <2>1
    <3>4. F[k - 1] \o << >> = F[k - 1]
      <4> DEFINE x == F[k - 1]
      <4>1. x \in Seq(MeetOf)  BY <3>3
      <4> HIDE DEF x, MeetOf
      <4>2. x \o << >> = x  BY <4>1
      <4> QED BY <4>2 DEF x
    <3> QED BY <2>1, <3>1, <3>2, <3>4
  <2> QED BY <2>2, <2>3
<1>8. N \in P
  <2> HIDE DEF P
  <2>1. 0 .. N \subseteq P  BY <1>1, <1>6, <1>7, UpTo
  <2> QED BY <1>1, <2>1
<1>9. ReadFragmentSamples(t) = R[N]  BY DEF ReadFragmentSamples, R, N
<1>10. SourceSamples(t) = F[N]  BY <1>4 DEF SourceSamples, Flat, F, sm, N
<1>11. R[N] \in Seq(Seq(SampleOf))
  <2>1. N \in 0 .. N  BY <1>1
  <2> QED BY <1>2, <2>1
<1> QED BY <1>8, <1>9, <1>10, <1>11

\* The headers run as long as the longer track.
LEMMA HeaderIs ==
  ASSUME MFTypeOK, NEW t \in MFTracks, NEW frags \in Seq(Seq(SampleOf)), NEW offsets,
         ReadTrackInfo(t) # None, NEW movie \in Nat
  PROVE  WriteTrak(ReadTrackInfo(t), frags, offsets, movie).tkhd \in Int
<1> DEFINE samples == Flat(frags)
           from == ReadTrackInfo(t).mediaTimescale
           d == TotalDuration(samples)
<1>1. samples \in Seq(SampleOf)  BY FlatIs
<1>2. d \in Nat
  <2>1. Durations(samples) \in Seq(Nat)
    <3>1. Len(samples) \in Nat /\ \A i \in 1 .. Len(samples) : samples[i] \in SampleOf
      <4> HIDE DEF samples, SampleOf
      <4> QED BY <1>1
    <3>2. \A i \in 1 .. Len(samples) : samples[i].dur \in Nat  BY <3>1 DEF SampleOf
    <3> HIDE DEF samples
    <3> QED BY <3>1, <3>2 DEF Durations
  <2> DEFINE s == Durations(samples)
  <2>2. s \in Seq(Nat) /\ Len(s) \in 0 .. Len(s)
    <3> HIDE DEF s
    <3> QED BY <2>1 DEF s
  <2> HIDE DEF s
  <2>3. Sums(s)[Len(s)] \in Nat  BY <2>2, SumsTurn
  <2> QED BY <2>3 DEF TotalDuration, Total, s
<1>3. from \in Nat
  <2>1. mfMoov[t] \in MoovType  BY MFAssumption DEF MFTypeOK
  <2>2. from = mfMoov[t].media  BY DEF ReadTrackInfo
  <2> QED BY <2>1, <2>2 DEF MoovType
<1> HIDE DEF d, from
<1>4. ScaleDuration(d, from, movie) \in Int
  <2>1. CASE from = 0  BY <1>2, <2>1 DEF ScaleDuration
  <2>2. CASE from # 0
    <3>1. d * movie \in Nat /\ from \in Nat \ {0}  BY <1>2, <1>3, <2>2
    <3>2. (d * movie) \div from \in Int  BY <3>1
    <3> QED BY <1>2, <3>2 DEF ScaleDuration
  <2> QED BY <2>1, <2>2
<1> QED BY <1>4 DEF WriteTrak, d, from

\* PlayerFindsEverySample: of every pair of sources that is muxed.
LEMMA PlayerFinds == MFTypeOK => PlayerFindsEverySample
<1> SUFFICES ASSUME MFTypeOK, Muxes PROVE PlayerFindsEverySample
  BY DEF PlayerFindsEverySample
<1> DEFINE frags == [t \in MFTracks |-> ReadFragmentSamples(t)]
           mdat == WriteMdat(frags)
           own == ReadTrackInfo("video").movieTimescale
           movie == IF own = 0 THEN 1000 ELSE own
           trak(t) == WriteTrak(ReadTrackInfo(t), frags[t], mdat.offsets[t], movie)
           traks == [t \in MFTracks |-> trak(t)]
           mvhd == IF traks["audio"].tkhd > traks["video"].tkhd THEN traks["audio"].tkhd
                   ELSE traks["video"].tkhd
           file == MuxFragmentedMP4
<1>1. file = [mdat |-> mdat.bytes, moov |-> [traks |-> traks, mvhd |-> mvhd]]
  BY DEF MuxFragmentedMP4, WriteProgressiveMoov
<1>2. \A t \in MFTracks : /\ ReadTrackInfo(t) # None /\ Readable(t)
                          /\ ReadFragmentSamples(t) \in Seq(Seq(SampleOf))
                          /\ SourceSamples(t) = MeetsAll(t, Flat(ReadFragmentSamples(t)))
  BY SourceMeets DEF Muxes
<1>3. frags \in [MFTracks -> Seq(Seq(SampleOf))]
      /\ \A t \in MFTracks : frags[t] = ReadFragmentSamples(t)
  <2> HIDE DEF SampleOf
  <2> QED BY <1>2
<1> HIDE DEF frags, mdat
<1>4. movie \in Nat
  <2>1. "video" \in MFTracks  BY DEF MFTracks
  <2>2. mfMoov["video"] \in MoovType  BY <2>1, MFAssumption DEF MFTypeOK
  <2>3. own = mfMoov["video"].movie  BY <1>2, <2>1 DEF ReadTrackInfo
  <2>4. own \in Nat  BY <2>2, <2>3 DEF MoovType
  <2> QED BY <2>4
<1> HIDE DEF movie, own
<1>5. \A t \in MFTracks : trak(t).tkhd \in Int  BY <1>2, <1>3, <1>4, HeaderIs
<1> HIDE DEF trak
<1>6. /\ file.mdat = mdat.bytes /\ file.moov.traks = traks /\ file.moov.mvhd = mvhd
      /\ \A t \in MFTracks : traks[t] = trak(t)
  <2> HIDE DEF mvhd
  <2>1. file.mdat = mdat.bytes /\ file.moov = [traks |-> traks, mvhd |-> mvhd]
    <3> HIDE DEF traks, file
    <3> QED BY <1>1
  <2> HIDE DEF file
  <2> QED BY <2>1
<1>7. \A t \in MFTracks : file.moov.mvhd >= file.moov.traks[t].tkhd
  <2> DEFINE a == trak("audio").tkhd
             v == trak("video").tkhd
  <2>1. a \in Int /\ v \in Int  BY <1>5 DEF MFTracks
  <2>2. traks["audio"] = trak("audio") /\ traks["video"] = trak("video")  BY DEF MFTracks
  <2>3. mvhd = IF a > v THEN a ELSE v
    <3> HIDE DEF traks
    <3> QED BY <2>2
  <2>4. \A t \in MFTracks : traks[t].tkhd = a \/ traks[t].tkhd = v
    <3> HIDE DEF traks
    <3> QED BY <2>2 DEF MFTracks
  <2> HIDE DEF a, v, mvhd, traks, file
  <2> QED BY <1>6, <2>1, <2>3, <2>4
<1> HIDE DEF traks, mvhd, file
<1>8. ASSUME NEW t \in MFTracks
      PROVE  /\ Len(file.moov.traks[t].stsz) = Len(SourceSamples(t))
             /\ Before(file.moov.traks[t], Len(file.moov.traks[t].co64) + 1) = Len(SourceSamples(t))
             /\ \A n \in 1 .. Len(SourceSamples(t)) : PlaysAs(file, t, n) = SourceSamples(t)[n]
  <2> DEFINE tk == file.moov.traks[t]
             samples == Flat(frags[t])
             want == SourceSamples(t)
  <2>1. tk = WriteTrak(ReadTrackInfo(t), frags[t], mdat.offsets[t], movie)  BY <1>6 DEF trak
  <2> DEFINE k == tk
             info == ReadTrackInfo(t)
  <2>3. IsTrak(k, file, frags, t, info, movie)
    <3>1. file.mdat = WriteMdat(frags).bytes  BY <1>6 DEF mdat
    <3> QED BY <2>1, <3>1 DEF IsTrak, mdat
  <2> HIDE DEF k, info
  <2>4. /\ samples \in Seq(SampleOf) /\ Len(k.stsz) = Len(samples)
        /\ Before(k, Len(k.co64) + 1) = Len(samples)
        /\ \A n \in 1 .. Len(samples) : PlaysAs(file, t, n) = Meets(t, samples[n])
    <3>1. frags \in [MFTracks -> Seq(Seq(SampleOf))]  BY <1>3
    <3> QED BY <2>3, <3>1, TrakFinds
  <2>5. want = MeetsAll(t, samples)  BY <1>2, <1>3
  <2> HIDE DEF samples, want
  <2>6. Len(want) = Len(samples)  BY <2>4, <2>5, MeetsAllType
  <2>7. \A n \in 1 .. Len(samples) : want[n] = Meets(t, samples[n])  BY <2>5 DEF MeetsAll
  <2>8. \A n \in 1 .. Len(want) : PlaysAs(file, t, n) = want[n]  BY <2>4, <2>6, <2>7
  <2>9. Len(k.stsz) = Len(want) /\ Before(k, Len(k.co64) + 1) = Len(want)  BY <2>4, <2>6
  <2> QED BY <2>8, <2>9 DEF k, want
<1> QED BY <1>7, <1>8 DEF PlayerFindsEverySample, file

\* The files keep their types: a step appends one of the moofs that may come.
THEOREM MuxTypes == MFSpec => []MFTypeOK
<1>1. MFInit => MFTypeOK
  <2> SUFFICES ASSUME MFInit PROVE MFTypeOK  OBVIOUS
  <2>1. << >> \in Seq(MFMoofs)  OBVIOUS
  <2> QED BY <2>1 DEF MFInit, MFTypeOK
<1>2. MFTypeOK /\ [MFNext]_mfVars => MFTypeOK'
  <2> SUFFICES ASSUME MFTypeOK, [MFNext]_mfVars PROVE MFTypeOK'  OBVIOUS
  <2>1. CASE MFNext
    <3>1. PICK t \in MFTracks : \E moof \in MFMoofs : NextFragment(t, moof)
      BY <2>1 DEF MFNext
    <3>2. PICK moof \in MFMoofs : NextFragment(t, moof)  BY <3>1
    <3>3. mfFiles[t] \in Seq(MFMoofs)  BY DEF MFTypeOK
    <3>4. Append(mfFiles[t], moof) \in Seq(MFMoofs)  BY <3>3
    <3> QED BY <3>2, <3>4 DEF NextFragment, MFTypeOK
  <2>2. CASE UNCHANGED mfVars  BY <2>2 DEF mfVars, MFTypeOK
  <2> QED BY <2>1, <2>2
<1> QED BY <1>1, <1>2, PTL DEF MFSpec

\* PlayerFindsEverySample: whatever moofs the two sources are made of, a player
\* that follows the tables finds each of their samples
\* (progressive_mux.go MuxFragmentedMP4).
THEOREM MuxedFilePlays == MFSpec => []PlayerFindsEverySample
BY MuxTypes, PlayerFinds, PTL
=============================================================================
