-------------------------- MODULE MediaIndexProofs --------------------------
(***************************************************************************)
(* The media index for every set of URLs, keys, contents and deleters:     *)
(* its types, that a row which names a file names one that is there, that  *)
(* a bigger file keeps its key, and that Saves do not deadlock.            *)
(***************************************************************************)
EXTENDS MediaIndex, WellFoundedInduction, TLAPS

\* Every step keeps every variable's type.
LEMMA TypeStep == TypeOK /\ [Next]_vars => TypeOK'
<1> SUFFICES ASSUME TypeOK, [Next]_vars PROVE TypeOK'
  OBVIOUS
<1> USE BoundsAssumption, CanonAssumption, NoHashAssumption
      DEF TypeOK, Rows, PubPcs, Locking, Placed, InTx, Idle, DelIdle, EvIdle,
         HashOrNone, Publishes, Passes, Deletes, Sweeps, Swept
<1>1. ASSUME NEW u \in Urls, NEW h \in Hashes, Stage(u, h) PROVE TypeOK'
  BY <1>1 DEF Stage
<1>2. ASSUME NEW u \in Urls, LockForPublish(u) PROVE TypeOK'
  BY <1>2 DEF LockForPublish, At
<1>3. ASSUME NEW u \in Urls, Place(u) PROVE TypeOK'
  BY <1>3 DEF Place, At
<1>4. ASSUME NEW u \in Urls, UpsertContent(u) PROVE TypeOK'
  BY <1>4 DEF UpsertContent, At
<1>5. ASSUME NEW u \in Urls, CommitKeep(u) PROVE TypeOK'
  BY <1>5 DEF CommitKeep, Return
<1>6. ASSUME NEW u \in Urls, UpsertUrl(u) PROVE TypeOK'
  BY <1>6 DEF UpsertUrl, At
<1>7. ASSUME NEW u \in Urls, CommitRepoint(u) PROVE TypeOK'
  BY <1>7 DEF CommitRepoint, Return
<1>8. ASSUME NEW u \in Urls, SnapshotOrphan(u) PROVE TypeOK'
  BY <1>8 DEF SnapshotOrphan, At
<1>9. ASSUME NEW u \in Urls, CommitOrphan(u) PROVE TypeOK'
  BY <1>9 DEF CommitOrphan, Return
<1>10. ASSUME NEW u \in Urls, AbortSave(u) PROVE TypeOK'
  BY <1>10 DEF AbortSave, Return
<1>11. ASSUME NEW u \in Urls, SaveFails(u) PROVE TypeOK'
  BY <1>11 DEF SaveFails, Return
<1>12. ASSUME NEW B \in SUBSET Hashes, RunOnceStarts(B) PROVE TypeOK'
  BY <1>12 DEF RunOnceStarts, NextTick
<1>13. ASSUME RunOnceSkips PROVE TypeOK'
  BY <1>13 DEF RunOnceSkips, NextTick
<1>14. ASSUME NEW h \in Hashes, LockForEviction(h) PROVE TypeOK'
  BY <1>14 DEF LockForEviction
<1>15. ASSUME RemoveFile PROVE TypeOK'
  BY <1>15 DEF RemoveFile
<1>16. ASSUME MarkEvicted PROVE TypeOK'
  BY <1>16 DEF MarkEvicted, NextCandidate
<1>17. ASSUME EvictionFails PROVE TypeOK'
  BY <1>17 DEF EvictionFails, NextCandidate, Halfway, Resident
<1>18. ASSUME NEW d \in Deleters, NEW k \in Keys, DeleteUrl(d, k) PROVE TypeOK'
  <2>1. url[k] \in Hashes
    BY <1>18 DEF DeleteUrl
  <2>2. [pc |-> "orphan", key |-> k, hash |-> url[k],
         file |-> content[url[k]] = "resident"] \in Deletes
    BY <2>1
  <2>3. CASE ReferencedBeside(url[k], k)
    BY <1>18, <2>3 DEF DeleteUrl
  <2>4. CASE ~ReferencedBeside(url[k], k)
    <3> DEFINE r == [pc |-> "orphan", key |-> k, hash |-> url[k],
                     file |-> content[url[k]] = "resident"]
    <3>1. del' = [del EXCEPT ![d] = r] /\ url' = url
      BY <1>18, <2>4 DEF DeleteUrl
    <3>2. r \in Deletes /\ r.hash \in Hashes
      BY <2>1, <2>2
    <3> HIDE DEF r
    <3>3. QED
      BY <1>18, <3>1, <3>2 DEF DeleteUrl
  <2>5. QED
    BY <2>3, <2>4
<1>19. ASSUME NEW d \in Deleters, DeleteOrphan(d) PROVE TypeOK'
  BY <1>19 DEF DeleteOrphan
<1>20. ASSUME NEW d \in Deleters, Unlink(d) PROVE TypeOK'
  BY <1>20 DEF Unlink, Resident, InPlace
<1>21. ASSUME NEW d \in Deleters, AbortDelete(d) PROVE TypeOK'
  BY <1>21 DEF AbortDelete
<1>22. ASSUME SweepNext PROVE TypeOK'
  BY <1>22 DEF SweepNext, SweepRows, SweepOrphans, AbortSweep
<1>23. ASSUME Crash PROVE TypeOK'
  BY <1>23 DEF Crash, Halfway, Resident
<1>24. CASE UNCHANGED vars
  BY <1>24 DEF vars
<1>q. QED
  BY <1>1, <1>2, <1>3, <1>4, <1>5, <1>6, <1>7, <1>8, <1>9, <1>10, <1>11, <1>12, <1>13, <1>14, <1>15, <1>16, <1>17, <1>18, <1>19, <1>20, <1>21, <1>22, <1>23, <1>24
     DEF Next, PublishNext, EvictNext, DeleteNext

\* A Save that the deadlock detector can abort is in its transaction.
LEMMA DeadlockedInTx ==
    ASSUME NEW u \in Urls, Deadlocked(u)
    PROVE  pub[u].pc \in InTx
<1>1. WaitsFor(u) # {}
  BY DEF Deadlocked
<1>2. u # Sweeper /\ u \notin Deleters
  BY ProcsAssumption
<1>3. QED
  BY <1>1, <1>2 DEF WaitsFor, InTx

\* A lock is taken when free and released by its holder.
LEMMA LocksStep == IInv /\ [Next]_vars => LocksHeld'
<1> SUFFICES ASSUME IInv, [Next]_vars PROVE LocksHeld'
  BY DEF IInv
<1> USE BoundsAssumption, NoHashAssumption, ProcsAssumption
    DEF IInv, TypeOK, LocksHeld, PubPcs, Locking, Placed, InTx, Idle, EvIdle, HashOrNone
<1>1. ASSUME NEW u \in Urls, NEW h \in Hashes, Stage(u, h) PROVE LocksHeld'
  BY <1>1 DEF Stage
<1>2. ASSUME NEW u \in Urls, LockForPublish(u) PROVE LocksHeld'
  BY <1>2 DEF LockForPublish, At
<1>3. ASSUME NEW u \in Urls, Place(u) PROVE LocksHeld'
  BY <1>3 DEF Place, At
<1>4. ASSUME NEW u \in Urls, UpsertContent(u) PROVE LocksHeld'
  BY <1>4 DEF UpsertContent, At
<1>5. ASSUME NEW u \in Urls, CommitKeep(u) PROVE LocksHeld'
  BY <1>5 DEF CommitKeep, Return
<1>6. ASSUME NEW u \in Urls, UpsertUrl(u) PROVE LocksHeld'
  BY <1>6 DEF UpsertUrl, At
<1>7. ASSUME NEW u \in Urls, CommitRepoint(u) PROVE LocksHeld'
  BY <1>7 DEF CommitRepoint, Return
<1>8. ASSUME NEW u \in Urls, SnapshotOrphan(u) PROVE LocksHeld'
  BY <1>8 DEF SnapshotOrphan, At
<1>9. ASSUME NEW u \in Urls, CommitOrphan(u) PROVE LocksHeld'
  BY <1>9 DEF CommitOrphan, Return
<1>10. ASSUME NEW u \in Urls, AbortSave(u) PROVE LocksHeld'
  BY <1>10, DeadlockedInTx DEF AbortSave, Return
<1>11. ASSUME NEW u \in Urls, SaveFails(u) PROVE LocksHeld'
  BY <1>11 DEF SaveFails, Return
<1>12. ASSUME NEW B \in SUBSET Hashes, RunOnceStarts(B) PROVE LocksHeld'
  BY <1>12 DEF RunOnceStarts, NextTick
<1>13. ASSUME RunOnceSkips PROVE LocksHeld'
  BY <1>13 DEF RunOnceSkips, NextTick
<1>14. ASSUME NEW h \in Hashes, LockForEviction(h) PROVE LocksHeld'
  BY <1>14 DEF LockForEviction
<1>15. ASSUME RemoveFile PROVE LocksHeld'
  BY <1>15 DEF RemoveFile
<1>16. ASSUME MarkEvicted PROVE LocksHeld'
  BY <1>16 DEF MarkEvicted, NextCandidate
<1>17. ASSUME EvictionFails PROVE LocksHeld'
  BY <1>17 DEF EvictionFails, NextCandidate, Halfway, Resident
<1>18. ASSUME NEW d \in Deleters, NEW k \in Keys, DeleteUrl(d, k) PROVE LocksHeld'
  BY <1>18 DEF DeleteUrl
<1>19. ASSUME NEW d \in Deleters, DeleteOrphan(d) PROVE LocksHeld'
  BY <1>19 DEF DeleteOrphan
<1>20. ASSUME NEW d \in Deleters, Unlink(d) PROVE LocksHeld'
  BY <1>20 DEF Unlink, Resident, InPlace
<1>21. ASSUME NEW d \in Deleters, AbortDelete(d) PROVE LocksHeld'
  BY <1>21 DEF AbortDelete
<1>22. ASSUME SweepNext PROVE LocksHeld'
  BY <1>22 DEF SweepNext, SweepRows, SweepOrphans, AbortSweep
<1>23. ASSUME Crash PROVE LocksHeld'
  BY <1>23 DEF Crash, Halfway, Resident
<1>24. CASE UNCHANGED vars
  BY <1>24 DEF vars
<1>q. QED
  BY <1>1, <1>2, <1>3, <1>4, <1>5, <1>6, <1>7, <1>8, <1>9, <1>10, <1>11, <1>12, <1>13, <1>14, <1>15, <1>16, <1>17, <1>18, <1>19, <1>20, <1>21, <1>22, <1>23, <1>24
     DEF Next, PublishNext, EvictNext, DeleteNext

\* Only the holder of a placed file's lock, or an unlink without it, removes it.
LEMMA PlacedStep ==
    ASSUME IInv, [Next]_vars, LocksHeld'
    PROVE  PlacedStays'
<1> USE ProcsAssumption DEF IInv, TypeOK, LocksHeld, PlacedStays, PubPcs, Locking, Placed, InTx, Idle
<1>1. ASSUME NEW u \in Urls, NEW h \in Hashes, Stage(u, h)
      PROVE  PlacedStays'
  BY <1>1 DEF Stage
<1>2. ASSUME NEW u \in Urls,
             LockForPublish(u) \/ UpsertContent(u) \/ UpsertUrl(u) \/ SnapshotOrphan(u)
      PROVE  PlacedStays'
  BY <1>2 DEF LockForPublish, UpsertContent, UpsertUrl, SnapshotOrphan, At
<1>3. ASSUME NEW u \in Urls, Place(u)
      PROVE  PlacedStays'
  BY <1>3 DEF Place, At
<1>4. ASSUME NEW u \in Urls, CommitKeep(u) \/ CommitRepoint(u)
      PROVE  PlacedStays'
  BY <1>4 DEF CommitKeep, CommitRepoint, Return
<1>5. ASSUME NEW u \in Urls, CommitOrphan(u)
      PROVE  PlacedStays'
  BY <1>5 DEF CommitOrphan, Return
<1>6. ASSUME NEW u \in Urls, AbortSave(u) \/ SaveFails(u)
      PROVE  PlacedStays'
  BY <1>6 DEF AbortSave, SaveFails, Return
<1>7. ASSUME NEW B \in SUBSET Hashes, RunOnceStarts(B)
      PROVE  PlacedStays'
  BY <1>7 DEF RunOnceStarts
<1>8. CASE RunOnceSkips
  BY <1>8 DEF RunOnceSkips
<1>9. ASSUME NEW h \in Hashes, LockForEviction(h)
      PROVE  PlacedStays'
  BY <1>9 DEF LockForEviction
<1>10. CASE RemoveFile
  BY <1>10 DEF RemoveFile
<1>11. CASE MarkEvicted
  BY <1>11 DEF MarkEvicted, NextCandidate
<1>12. CASE EvictionFails
  BY <1>12 DEF EvictionFails, NextCandidate, Halfway, Resident
<1>13. ASSUME NEW d \in Deleters, NEW k \in Keys, DeleteUrl(d, k)
      PROVE  PlacedStays'
  BY <1>13 DEF DeleteUrl
<1>14. ASSUME NEW d \in Deleters, DeleteOrphan(d) \/ AbortDelete(d)
      PROVE  PlacedStays'
  BY <1>14 DEF DeleteOrphan, AbortDelete
<1>15. ASSUME NEW d \in Deleters, Unlink(d)
      PROVE  PlacedStays'
  BY <1>15 DEF Unlink, Resident, InPlace
<1>16. ASSUME SweepNext
      PROVE  PlacedStays'
  BY <1>16 DEF SweepNext, SweepRows, SweepOrphans, AbortSweep
<1>17. CASE Crash
  BY <1>17 DEF Crash, Halfway, Resident
<1>18. CASE UNCHANGED vars
  BY <1>18 DEF vars
<1>q. QED
  BY <1>1, <1>2, <1>3, <1>4, <1>5, <1>6, <1>7, <1>8, <1>9, <1>10, <1>11, <1>12, <1>13, <1>14, <1>15, <1>16, <1>17, <1>18
     DEF Next, PublishNext, EvictNext, DeleteNext

\* A row comes to name a file only by the commit of a placed file.
LEMMA ResidentStep ==
    ASSUME IInv, [Next]_vars
    PROVE  ResidentOnDisk'
<1> USE ProcsAssumption
    DEF IInv, TypeOK, LocksHeld, PlacedStays, ResidentOnDisk, Resident, Halfway,
        PubPcs, Locking, Placed, InTx, EvIdle
<1>1. ASSUME NEW u \in Urls, NEW h \in Hashes, Stage(u, h)
      PROVE  ResidentOnDisk'
  BY <1>1 DEF Stage
<1>2. ASSUME NEW u \in Urls,
             LockForPublish(u) \/ UpsertContent(u) \/ UpsertUrl(u) \/ SnapshotOrphan(u)
      PROVE  ResidentOnDisk'
  BY <1>2 DEF LockForPublish, UpsertContent, UpsertUrl, SnapshotOrphan, At
<1>3. ASSUME NEW u \in Urls, Place(u)
      PROVE  ResidentOnDisk'
  BY <1>3 DEF Place, At
<1>4. ASSUME NEW u \in Urls, CommitKeep(u) \/ CommitRepoint(u)
      PROVE  ResidentOnDisk'
  BY <1>4 DEF CommitKeep, CommitRepoint, Return
<1>5. ASSUME NEW u \in Urls, CommitOrphan(u)
      PROVE  ResidentOnDisk'
  BY <1>5 DEF CommitOrphan, Return
<1>6. ASSUME NEW u \in Urls, AbortSave(u) \/ SaveFails(u)
      PROVE  ResidentOnDisk'
  BY <1>6 DEF AbortSave, SaveFails, Return
<1>7. ASSUME NEW B \in SUBSET Hashes, RunOnceStarts(B)
      PROVE  ResidentOnDisk'
  BY <1>7 DEF RunOnceStarts
<1>8. CASE RunOnceSkips
  BY <1>8 DEF RunOnceSkips
<1>9. ASSUME NEW h \in Hashes, LockForEviction(h)
      PROVE  ResidentOnDisk'
  BY <1>9 DEF LockForEviction
<1>10. CASE RemoveFile
  BY <1>10 DEF RemoveFile
<1>11. CASE MarkEvicted
  BY <1>11 DEF MarkEvicted, NextCandidate
<1>12. CASE EvictionFails
  BY <1>12 DEF EvictionFails, NextCandidate, Halfway, Resident
<1>13. ASSUME NEW d \in Deleters, NEW k \in Keys, DeleteUrl(d, k)
      PROVE  ResidentOnDisk'
  BY <1>13 DEF DeleteUrl
<1>14. ASSUME NEW d \in Deleters, DeleteOrphan(d) \/ AbortDelete(d)
      PROVE  ResidentOnDisk'
  BY <1>14 DEF DeleteOrphan, AbortDelete
<1>15. ASSUME NEW d \in Deleters, Unlink(d)
      PROVE  ResidentOnDisk'
  BY <1>15 DEF Unlink, Resident, InPlace
<1>16. ASSUME SweepNext
      PROVE  ResidentOnDisk'
  BY <1>16 DEF SweepNext, SweepRows, SweepOrphans, AbortSweep
<1>17. CASE Crash
  BY <1>17 DEF Crash, Halfway, Resident
<1>18. CASE UNCHANGED vars
  BY <1>18 DEF vars
<1>q. QED
  BY <1>1, <1>2, <1>3, <1>4, <1>5, <1>6, <1>7, <1>8, <1>9, <1>10, <1>11, <1>12, <1>13, <1>14, <1>15, <1>16, <1>17, <1>18
     DEF Next, PublishNext, EvictNext, DeleteNext

\* The invariant holds initially and is kept by every step.
THEOREM Invariance == Spec => []IInv
<1>1. Init => IInv
  <2>1. Init => TypeOK
    BY BoundsAssumption
       DEF Init, TypeOK, Rows, PubPcs, Locking, Placed, InTx, Idle, DelIdle, EvIdle,
           HashOrNone, Publishes, Passes, Deletes, Sweeps, Swept
  <2>2. QED
    BY <2>1 DEF Init, IInv, LocksHeld, PlacedStays, ResidentOnDisk, Resident,
                Locking, Placed, InTx, Idle, EvIdle
<1>2. IInv /\ [Next]_vars => IInv'
  BY TypeStep, LocksStep, PlacedStep, ResidentStep DEF IInv
<1>3. QED
  BY <1>1, <1>2, PTL DEF Spec

\* Every variable has its type in every state.
THEOREM TypeCorrect == Spec => []TypeOK
  BY Invariance, PTL DEF IInv

\* A row that names a file names one that is there, for any number of
\* publishers, contents, crashes and failed statements.
THEOREM RowsNameFiles == Spec => []ResidentOnDisk
  BY Invariance, PTL DEF IInv

\* No eviction removes a file between its rename and its Save's commit.
THEOREM PlacedFilesStay == Spec => []PlacedStays
  BY Invariance, PTL DEF IInv

\* Index and disk agree from rename to removal (LockHash), for any number of
\* publishers and deleters.
THEOREM FilesStayAccounted == Spec => []FilesAccounted
<1>1. ResidentOnDisk /\ PlacedStays => FilesAccounted  BY DEF FilesAccounted
<1>q. QED BY <1>1, RowsNameFiles, PlacedFilesStay, PTL
-----------------------------------------------------------------------------
(* What a Save has read and which row locks it waits for.                   *)

\* A Save is past the size comparison before it has the url row.
LEMMA ReplacesStep ==
    ASSUME SavesInv, [Next]_vars
    PROVE  ReplacesSmaller'
<1> USE NoHashAssumption
    DEF SavesInv, IInv, TypeOK, ReplacesSmaller, Repoints, Idle, At, Return
<1>1. ASSUME NEW u \in Urls, NEW h \in Hashes, Stage(u, h)
      PROVE  ReplacesSmaller'
  BY <1>1 DEF Stage
<1>2. ASSUME NEW u \in Urls, LockForPublish(u) \/ Place(u) \/ UpsertContent(u)
      PROVE  ReplacesSmaller'
  BY <1>2 DEF LockForPublish, Place, UpsertContent
<1>3. ASSUME NEW u \in Urls, CommitKeep(u) \/ CommitRepoint(u) \/ CommitOrphan(u)
      PROVE  ReplacesSmaller'
  BY <1>3 DEF CommitKeep, CommitRepoint, CommitOrphan
<1>4. ASSUME NEW u \in Urls, UpsertUrl(u) \/ SnapshotOrphan(u)
      PROVE  ReplacesSmaller'
  BY <1>4 DEF UpsertUrl, SnapshotOrphan
<1>5. ASSUME NEW u \in Urls, AbortSave(u) \/ SaveFails(u)
      PROVE  ReplacesSmaller'
  BY <1>5 DEF AbortSave, SaveFails
<1>6. CASE EvictNext
  BY <1>6 DEF EvictNext, RunOnceStarts, RunOnceSkips, LockForEviction, RemoveFile,
              MarkEvicted, EvictionFails
<1>7. CASE DeleteNext
  BY <1>7 DEF DeleteNext, DeleteUrl, DeleteOrphan, Unlink, AbortDelete
<1>8. CASE SweepNext
  BY <1>8 DEF SweepNext, SweepRows, SweepOrphans, AbortSweep
<1>9. CASE Crash
  BY <1>9 DEF Crash
<1>10. CASE UNCHANGED vars
  BY <1>10 DEF vars
<1>q. QED
  BY <1>1, <1>2, <1>3, <1>4, <1>5, <1>6, <1>7, <1>8, <1>9, <1>10 DEF Next, PublishNext

\* A commit changes its own key only; a delete and the sweep unmap keys.
LEMMA MappingStep ==
    ASSUME SavesInv, [Next]_vars
    PROVE  MappingReadStays'
<1> USE CanonAssumption
    DEF SavesInv, IInv, TypeOK, MappingReadStays, OneSource, InTx, Idle, At, Return
<1>1. ASSUME NEW u \in Urls, NEW h \in Hashes, Stage(u, h)
      PROVE  MappingReadStays'
  BY <1>1 DEF Stage
<1>2. ASSUME NEW u \in Urls, LockForPublish(u) \/ Place(u) \/ UpsertContent(u)
      PROVE  MappingReadStays'
  BY <1>2 DEF LockForPublish, Place, UpsertContent
<1>3. ASSUME NEW u \in Urls, CommitKeep(u) \/ CommitRepoint(u) \/ CommitOrphan(u)
      PROVE  MappingReadStays'
  BY <1>3 DEF CommitKeep, CommitRepoint, CommitOrphan
<1>4. ASSUME NEW u \in Urls, UpsertUrl(u) \/ SnapshotOrphan(u)
      PROVE  MappingReadStays'
  BY <1>4 DEF UpsertUrl, SnapshotOrphan
<1>5. ASSUME NEW u \in Urls, AbortSave(u) \/ SaveFails(u)
      PROVE  MappingReadStays'
  BY <1>5 DEF AbortSave, SaveFails
<1>6. CASE EvictNext
  BY <1>6 DEF EvictNext, RunOnceStarts, RunOnceSkips, LockForEviction, RemoveFile,
              MarkEvicted, EvictionFails
<1>7. CASE DeleteNext
  BY <1>7 DEF DeleteNext, DeleteUrl, DeleteOrphan, Unlink, AbortDelete
<1>8. CASE SweepNext
  BY <1>8 DEF SweepNext, SweepRows, SweepOrphans, AbortSweep
<1>9. CASE Crash
  BY <1>9 DEF Crash
<1>10. CASE UNCHANGED vars
  BY <1>10 DEF vars
<1>q. QED
  BY <1>1, <1>2, <1>3, <1>4, <1>5, <1>6, <1>7, <1>8, <1>9, <1>10 DEF Next, PublishNext

\* The invariant of the row locks, in every state.
THEOREM SavesInvariance == Spec => []SavesInv
<1>1. Init => ReplacesSmaller /\ MappingReadStays
  BY DEF Init, ReplacesSmaller, MappingReadStays, InTx, Idle
<1>2. SavesInv /\ [Next]_vars => ReplacesSmaller' /\ MappingReadStays'
  BY ReplacesStep, MappingStep
<1>3. QED
  BY <1>1, <1>2, Invariance, PTL DEF Spec, SavesInv

\* A set of naturals has a least element.
LEMMA LeastNatural ==
    ASSUME NEW T \in SUBSET Nat, T # {}
    PROVE  \E x \in T : \A y \in T : x =< y
<1> DEFINE R == {ss \in Nat \X Nat : ss[1] < ss[2]}
<1>1. \A x, y \in Nat : y < x => <<y, x>> \in R
  OBVIOUS
<1>2. IsWellFoundedOn(R, Nat)
  BY NatLessThanWellFounded DEF OpToRel
<1> HIDE DEF R
<1>3. PICK x \in T : \A y \in T : ~ (<<y, x>> \in R)
  BY <1>2, WFMin
<1>4. ASSUME NEW y \in T
      PROVE  x =< y
  <2>1. x \in Nat /\ y \in Nat
    OBVIOUS
  <2>2. ~(y < x)
    BY <2>1, <1>1, <1>3
  <2>3. QED
    BY <2>1, <2>2
<1>5. QED
  BY <1>4

\* Among Saves of keys with one raw URL, only the clearing of an old content's
\* row waits, and for a Save of a smaller file.
LEMMA WaitsForSmaller ==
    ASSUME SavesInv,
           NEW q \in Urls, OneSource(Canon[q]),
           NEW r \in Urls, r \in WaitsFor(q)
    PROVE  /\ pub[q].hash \in Hashes /\ pub[r].hash \in Hashes
           /\ Size[pub[r].hash] < Size[pub[q].hash]
<1> USE DEF SavesInv, IInv, TypeOK, InTx
<1>1. q # Sweeper /\ q \notin Deleters
  BY ProcsAssumption
<1>2. CASE pub[q].pc = "selected"
  <2>1. r \in HoldsUrl(Canon[q])
    BY <1>1, <1>2 DEF WaitsFor
  <2>2. r \notin Deleters /\ r # Sweeper
    BY ProcsAssumption
  <2>3. pub[r].pc \in {"url", "orphan"} /\ Canon[r] = Canon[q]
    BY <2>1, <2>2 DEF HoldsUrl
  <2>4. r = q
    BY <2>3 DEF OneSource
  <2>5. QED
    BY <2>3, <2>4, <1>2
<1>3. CASE pub[q].pc = "orphan"
  <2>1. pub[r].pc \in InTx /\ pub[r].hash = pub[q].old
    BY <1>1, <1>3 DEF WaitsFor, HoldsContent
  <2>2. Size[pub[q].old] < Size[pub[q].hash]
    BY <1>3 DEF ReplacesSmaller, Repoints
  <2>3. QED
    BY <2>1, <2>2, <1>3
<1>4. pub[q].pc \in {"selected", "orphan"}
  BY <1>1 DEF WaitsFor
<1>5. QED
  BY <1>2, <1>3, <1>4

\* The Save of the smallest file among them waits for none of the others.
LEMMA NoCycle ==
    ASSUME SavesInv
    PROVE  NoRowDeadlock
<1> SUFFICES ASSUME NEW S \in SUBSET {u \in Urls : OneSource(Canon[u])}, S # {},
                    \A q \in S : \E r \in S : r \in WaitsFor(q)
             PROVE  FALSE
  BY DEF NoRowDeadlock
<1> DEFINE Sz(q) == Size[pub[q].hash]
           T == {Sz(q) : q \in S}
<1>1. ASSUME NEW q \in S
      PROVE  Sz(q) \in Nat /\ \E r \in S : Sz(r) \in Nat /\ Sz(r) < Sz(q)
  BY <1>1, WaitsForSmaller, SizeAssumption
<1>2. T \in SUBSET Nat /\ T # {}
  BY <1>1
<1>3. PICK x \in T : \A y \in T : x =< y
  <2> HIDE DEF T
  <2> QED BY <1>2, LeastNatural
<1>4. PICK q \in S : x = Sz(q)
  OBVIOUS
<1>5. PICK r \in S : Sz(r) < Sz(q) /\ Sz(r) \in Nat /\ Sz(q) \in Nat
  BY <1>1
<1>6. Sz(q) =< Sz(r)
  BY <1>3, <1>4
<1>7. QED
  BY <1>5, <1>6

\* Saves of keys with one raw URL each never wait for each other in a cycle, for
\* any number of them.
THEOREM SavesNeverDeadlock == Spec => []NoRowDeadlock
  BY SavesInvariance, NoCycle, PTL

\* What a step may do to a key's mapping.
LEMMA BiggerStep ==
    ASSUME SavesInv, [Next]_vars, NEW k \in Keys
    PROVE  \/ url'[k] = url[k] \/ url[k] = NoHash \/ url'[k] = NoHash
           \/ Size[url[k]] < Size[url'[k]]
           \/ Overtaken(k)
<1> USE DEF SavesInv, IInv, TypeOK
<1>1. ASSUME NEW u \in Urls, CommitRepoint(u) \/ CommitOrphan(u), Canon[u] = k
      PROVE  url[k] = NoHash \/ Size[url[k]] < Size[url'[k]] \/ Overtaken(k)
  <2>1. pub[u].pc \in {"url", "orphan"} /\ url' = [url EXCEPT ![k] = pub[u].hash]
    BY <1>1 DEF CommitRepoint, CommitOrphan
  <2>2. pub' = [pub EXCEPT ![u] = Idle]
    BY <1>1 DEF CommitRepoint, CommitOrphan, Return
  <2>3. url'[k] = pub[u].hash /\ pub'[u] = Idle
    BY <2>1, <2>2
  <2>4. CASE pub[u].old = url[k]
    <3>1. Repoints(u)
      BY <2>1 DEF ReplacesSmaller
    <3>2. QED
      BY <2>3, <2>4, <3>1 DEF Repoints
  <2>5. CASE pub[u].old # url[k] /\ url[k] # NoHash
    <3>1. ~OneSource(Canon[u])
      BY <1>1, <2>1, <2>5 DEF MappingReadStays, InTx
    <3>2. PICK v \in Urls : v # u /\ Canon[v] = k
      BY <1>1, <3>1 DEF OneSource
    <3>3. QED
      BY <1>1, <2>1, <2>3, <2>5, <3>2 DEF Overtaken
  <2>6. QED
    BY <2>4, <2>5
<1>2. ASSUME NEW u \in Urls, CommitRepoint(u) \/ CommitOrphan(u), Canon[u] # k
      PROVE  url'[k] = url[k]
  BY <1>2 DEF CommitRepoint, CommitOrphan
<1>3. ASSUME NEW u \in Urls,
             \/ \E h \in Hashes : Stage(u, h)
             \/ LockForPublish(u) \/ Place(u) \/ UpsertContent(u) \/ CommitKeep(u)
             \/ UpsertUrl(u) \/ SnapshotOrphan(u) \/ AbortSave(u) \/ SaveFails(u)
      PROVE  url' = url
  BY <1>3 DEF Stage, LockForPublish, Place, UpsertContent, CommitKeep, UpsertUrl,
              SnapshotOrphan, AbortSave, SaveFails
<1>4. CASE EvictNext
  BY <1>4 DEF EvictNext, RunOnceStarts, RunOnceSkips, LockForEviction, RemoveFile,
              MarkEvicted, EvictionFails
<1>5. CASE DeleteNext
  BY <1>5 DEF DeleteNext, DeleteUrl, DeleteOrphan, Unlink, AbortDelete
<1>6. CASE SweepNext
  BY <1>6 DEF SweepNext, SweepRows, SweepOrphans, AbortSweep
<1>7. CASE Crash \/ UNCHANGED vars
  BY <1>7 DEF Crash, vars
<1>8. QED
  BY <1>1, <1>2, <1>3, <1>4, <1>5, <1>6, <1>7 DEF Next, PublishNext

\* store/media.go Save: a key moves to a file that is not bigger only when it
\* commits over the commit of another raw URL of the key, which came after the
\* mapping was read; for any number of raw URLs, keys, deleters and faults.
THEOREM BiggerFileWins == Spec => BiggerWins
<1>1. SavesInv /\ [Next]_vars =>
        [\A k \in Keys :
            \/ url'[k] = url[k] \/ url[k] = NoHash \/ url'[k] = NoHash
            \/ Size[url[k]] < Size[url'[k]]
            \/ Overtaken(k)]_vars
  BY BiggerStep
<1>2. QED
  BY <1>1, SavesInvariance, PTL DEF Spec, BiggerWins
=============================================================================
