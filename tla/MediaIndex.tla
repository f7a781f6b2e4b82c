----------------------------- MODULE MediaIndex -----------------------------
(***************************************************************************)
(* The content-addressed media cache: the tables media_url and             *)
(* media_content, the blobs on disk, and the goroutines that change both.  *)
(*                                                                         *)
(*   publishers  media/proxy.go Download and media/mux.go downloadMuxed,   *)
(*               downloadSilent: put a fetched file in its place and Save  *)
(*               it.  dlInflight and muxInflight let one run per raw URL,  *)
(*               so a publisher is named by its raw URL.                   *)
(*   the evictor media/eviction.go RunOnce, one ticker goroutine.          *)
(*   deleters    purge and dropLegacyPlainRow: Delete a row, unlink.       *)
(*   the sweep   SweepSupersededPlainRows, once after each start.          *)
(*                                                                         *)
(* Save is a READ COMMITTED transaction and is modelled statement by       *)
(* statement: what it writes is visible to others, and its row locks are   *)
(* released, only by the step that commits.                                *)
(***************************************************************************)
EXTENDS Integers, FiniteSets, FiniteSetsExt

CONSTANTS
    Urls,           \* raw URLs, one publisher each
    Keys,           \* canonical keys: scheme, host and path, query stripped
    Canon,          \* reddit.CanonicalKey, on Urls
    Hashes,         \* sha256 of file contents
    Size,           \* file size of each content
    Deleters,       \* goroutines that run purge or dropLegacyPlainRow
    Disposable,     \* keys whose rows may be purged or dropped
    MuxedOf,        \* the "muxed:" key of each plain v.redd.it key
    MaxBytes,       \* media.max_size_gb
    ReconcileEvery, \* evictionReconcileEveryNTicks
    MaxFaults,      \* bound on crashes and failed statements
    NoHash, NoProc, Evictor, Sweeper

ASSUME CanonAssumption == Canon \in [Urls -> Keys]
ASSUME SizeAssumption == Size \in [Hashes -> Nat]
ASSUME KeysAssumption == Disposable \subseteq Keys
ASSUME MuxedAssumption ==
    /\ DOMAIN MuxedOf \subseteq Keys
    /\ MuxedOf \in [DOMAIN MuxedOf -> Keys]
ASSUME NoHashAssumption == NoHash \notin Hashes
ASSUME ProcsAssumption ==
    /\ NoProc \notin Urls \union {Evictor}
    /\ Evictor \notin Urls
    /\ Urls \intersect (Deleters \union {Sweeper}) = {}
    /\ Sweeper \notin Deleters
ASSUME BoundsAssumption ==
    /\ MaxBytes \in Nat /\ MaxFaults \in Nat
    /\ ReconcileEvery \in Nat \ {0}

VARIABLES
    content,   \* media_content: no row, file_path set, or file_path NULL
    url,       \* media_url: the content each canonical key maps to
    disk,      \* the contents whose file is at its place under root_path
    hashLock,  \* LockHash: the holder of each content's publish lock
    pub,       \* the publish under way for each raw URL
    ev,        \* the evictor: its place in RunOnce and the rest of its batch
    del,       \* each deleter
    sweep,     \* the startup sweep and the contents it orphaned
    tick,      \* Evictor.tick
    faults,    \* crashes and failed statements so far
    torn       \* history: contents whose file was unlinked under a live row

vars == <<content, url, disk, hashLock, pub, ev, del, sweep, tick, faults, torn>>

-----------------------------------------------------------------------------
Rows == {"none", "resident", "absent"}

\* A publisher holds LockHash from "locked" on, has its file in place from
\* "placed" on, and has an open transaction from "selected" on.
InTx     == {"selected", "url", "orphan"}
Placed   == {"placed"} \union InTx
Locking  == {"locked"} \union Placed
PubPcs   == {"idle", "staged"} \union Locking

At(u, p, o) == [pc |-> p, hash |-> pub[u].hash, old |-> o]
Idle == [pc |-> "idle", hash |-> NoHash, old |-> NoHash]

Resident == {h \in Hashes : content[h] = "resident"}
InPlace  == {pub[u].hash : u \in {v \in Urls : pub[v].pc \in Placed}}
Bytes(S) == MapThenSumSet(LAMBDA h : Size[h], S)

\* The row locks of open transactions.  content rows: the one a Save has
\* upserted.  url rows: those a Save has repointed, a Delete or the sweep removed.
HoldsContent(h) == {u \in Urls : pub[u].pc \in InTx /\ pub[u].hash = h}
HoldsUrl(k) ==
    {u \in Urls : pub[u].pc \in {"url", "orphan"} /\ Canon[u] = k}
    \union {d \in Deleters : del[d].pc = "orphan" /\ del[d].key = k}
    \union {s \in {Sweeper} : sweep.pc = "orphan" /\ k \in sweep.rows}

ReferencedBeside(h, k) == \E k2 \in Keys \ {k} : url[k2] = h

HashOrNone == Hashes \union {NoHash}
Publishes  == [pc : PubPcs, hash : HashOrNone, old : HashOrNone]
Passes     == [pc : {"idle", "pass", "remove", "mark"},
               batch : SUBSET Hashes, hash : HashOrNone]
Deletes    == [pc : {"idle", "orphan", "unlink"},
               key : Keys \union {NoHash}, hash : HashOrNone, file : BOOLEAN]
Sweeps     == [pc : {"todo", "orphan", "done"},
               rows : SUBSET Keys, orphans : SUBSET Hashes]

TypeOK ==
    /\ content \in [Hashes -> Rows]
    /\ url \in [Keys -> HashOrNone]
    /\ disk \subseteq Hashes
    /\ hashLock \in [Hashes -> Urls \union {Evictor, NoProc}]
    /\ pub \in [Urls -> Publishes]
    /\ \A u \in Urls : pub[u].pc # "idle" => pub[u].hash \in Hashes
    /\ ev \in Passes
    /\ ev.pc \in {"remove", "mark"} => ev.hash \in Hashes
    /\ del \in [Deleters -> Deletes]
    /\ \A d \in Deleters : del[d].pc # "idle" => del[d].hash \in Hashes
    /\ sweep \in Sweeps
    /\ tick \in 0..(ReconcileEvery - 1)
    /\ faults \in 0..MaxFaults
    /\ torn \subseteq Hashes

DelIdle == [pc |-> "idle", key |-> NoHash, hash |-> NoHash, file |-> FALSE]
Swept(p, S, O) == [pc |-> p, rows |-> S, orphans |-> O]
EvIdle  == [pc |-> "idle", batch |-> {}, hash |-> NoHash]

Init ==
    /\ content = [h \in Hashes |-> "none"]
    /\ url = [k \in Keys |-> NoHash]
    /\ disk = {}
    /\ hashLock = [h \in Hashes |-> NoProc]
    /\ pub = [u \in Urls |-> Idle]
    /\ ev = EvIdle
    /\ del = [d \in Deleters |-> DelIdle]
    /\ sweep = Swept("todo", {}, {})
    /\ tick = 0
    /\ faults = 0
    /\ torn = {}

-----------------------------------------------------------------------------
(* Publishing: staging file, LockHash, rename, Save.                       *)

\* The body is in the staging file and hashed: the CDN may serve any variant.
Stage(u, h) ==
    /\ pub[u].pc = "idle"
    /\ pub' = [pub EXCEPT ![u] = [pc |-> "staged", hash |-> h, old |-> NoHash]]
    /\ UNCHANGED <<content, url, disk, hashLock, ev, del, sweep, tick, faults, torn>>

\* Mutant: rename and Save without taking LockHash first.
LockForPublishBlind(u) ==
    /\ pub[u].pc = "staged"
    /\ pub' = [pub EXCEPT ![u] = At(u, "locked", NoHash)]
    /\ UNCHANGED <<content, url, disk, hashLock, ev, del, sweep, tick, faults, torn>>

LockForPublish(u) ==
    /\ pub[u].pc = "staged"
    /\ hashLock[pub[u].hash] = NoProc
    /\ hashLock' = [hashLock EXCEPT ![pub[u].hash] = u]
    /\ pub' = [pub EXCEPT ![u] = At(u, "locked", NoHash)]
    /\ UNCHANGED <<content, url, disk, ev, del, sweep, tick, faults, torn>>

\* os.Stat finds the same bytes and drops the staging file, or os.Rename.
Place(u) ==
    /\ pub[u].pc = "locked"
    /\ disk' = disk \union {pub[u].hash}
    /\ torn' = torn \ {pub[u].hash}
    /\ pub' = [pub EXCEPT ![u] = At(u, "placed", NoHash)]
    /\ UNCHANGED <<content, url, hashLock, ev, del, sweep, tick, faults>>

\* Leaving Download: the deferred unlock, and the single flight is over.
Return(u) ==
    /\ hashLock' = [hashLock EXCEPT ![pub[u].hash] = NoProc]
    /\ pub' = [pub EXCEPT ![u] = Idle]

\* Upsert the content row, then read what the key maps to.
UpsertContent(u) ==
    /\ pub[u].pc = "placed"
    /\ HoldsContent(pub[u].hash) = {}
    /\ pub' = [pub EXCEPT ![u] = At(u, "selected", url[Canon[u]])]
    /\ UNCHANGED <<content, url, disk, hashLock, ev, del, sweep, tick, faults, torn>>

\* Mutant: the latest file wins, whatever its size.
RepointsAlways(u) == pub[u].old # pub[u].hash

\* Does the fresh file replace the one the key maps to?
Repoints(u) ==
    pub[u].old # NoHash => Size[pub[u].old] < Size[pub[u].hash]

\* The same content again (raw_url is refreshed, under the url row's lock), or
\* one that is not bigger (the url row is left alone): commit.
CommitKeep(u) ==
    /\ pub[u].pc = "selected"
    /\ ~Repoints(u)
    /\ pub[u].old = pub[u].hash => HoldsUrl(Canon[u]) = {}
    /\ content' = [content EXCEPT ![pub[u].hash] = "resident"]
    /\ Return(u)
    /\ UNCHANGED <<url, disk, ev, del, sweep, tick, faults, torn>>

\* INSERT INTO media_url ... ON CONFLICT DO UPDATE waits for the row's lock.
UpsertUrl(u) ==
    /\ pub[u].pc = "selected"
    /\ Repoints(u)
    /\ HoldsUrl(Canon[u]) = {}
    /\ pub' = [pub EXCEPT ![u] = At(u, "url", pub[u].old)]
    /\ UNCHANGED <<content, url, disk, hashLock, ev, del, sweep, tick, faults, torn>>

\* Nothing to orphan: the key was unmapped, or another key maps to the old
\* content in the snapshot the UPDATE reads.
CommitRepoint(u) ==
    /\ pub[u].pc = "url"
    /\ pub[u].old = NoHash \/ ReferencedBeside(pub[u].old, Canon[u])
    /\ url' = [url EXCEPT ![Canon[u]] = pub[u].hash]
    /\ content' = [content EXCEPT ![pub[u].hash] = "resident"]
    /\ Return(u)
    /\ UNCHANGED <<disk, ev, del, sweep, tick, faults, torn>>

\* The snapshot of UPDATE media_content ... WHERE NOT EXISTS shows no other
\* reference to the old content.
SnapshotOrphan(u) ==
    /\ pub[u].pc = "url"
    /\ pub[u].old # NoHash
    /\ ~ReferencedBeside(pub[u].old, Canon[u])
    /\ pub' = [pub EXCEPT ![u] = At(u, "orphan", pub[u].old)]
    /\ UNCHANGED <<content, url, disk, hashLock, ev, del, sweep, tick, faults, torn>>

\* It gets the old content's row, clears file_path, and the Save commits.
CommitOrphan(u) ==
    /\ pub[u].pc = "orphan"
    /\ HoldsContent(pub[u].old) = {}
    /\ url' = [url EXCEPT ![Canon[u]] = pub[u].hash]
    /\ content' = [content EXCEPT ![pub[u].old] = "absent",
                                  ![pub[u].hash] = "resident"]
    /\ Return(u)
    /\ UNCHANGED <<disk, ev, del, sweep, tick, faults, torn>>

-----------------------------------------------------------------------------
(* Row locks: whom a transaction waits for, and PostgreSQL's detector.       *)

Txs == Urls \union Deleters \union {Sweeper}

WaitsFor(p) ==
    CASE p = Sweeper ->
            IF sweep.pc = "orphan" THEN UNION {HoldsContent(h) : h \in sweep.orphans} ELSE {}
      [] p \in Deleters ->
            IF del[p].pc = "orphan" THEN HoldsContent(del[p].hash) ELSE {}
      [] p \in Urls ->
            CASE pub[p].pc = "selected" /\ (Repoints(p) \/ pub[p].old = pub[p].hash) ->
                    HoldsUrl(Canon[p])
              [] pub[p].pc = "orphan" -> HoldsContent(pub[p].old)
              [] OTHER -> {}

\* p is on a cycle: a row lock has one holder, so a set in which everyone
\* waits and everyone is waited for is made of cycles.
Deadlocked(p) ==
    /\ WaitsFor(p) # {}
    /\ \E D \in SUBSET Txs :
        /\ p \in D
        /\ \A q \in D : /\ WaitsFor(q) \intersect D # {}
                         /\ \E r \in D : q \in WaitsFor(r)

\* The detector fails one statement of the cycle; tx.Rollback, unlock.
AbortSave(u) ==
    /\ Deadlocked(u)
    /\ Return(u)
    /\ UNCHANGED <<content, url, disk, ev, del, sweep, tick, faults, torn>>

AbortDelete(d) ==
    /\ Deadlocked(d)
    /\ del' = [del EXCEPT ![d] = DelIdle]
    /\ UNCHANGED <<content, url, disk, hashLock, pub, ev, sweep, tick, faults, torn>>

\* Any other failed statement: the transaction rolls back, the file stays.
SaveFails(u) ==
    /\ pub[u].pc \in Placed
    /\ faults < MaxFaults
    /\ faults' = faults + 1
    /\ Return(u)
    /\ UNCHANGED <<content, url, disk, ev, del, sweep, tick, torn>>

PublishNext ==
    \E u \in Urls :
        \/ \E h \in Hashes : Stage(u, h)
        \/ LockForPublish(u) \/ Place(u) \/ UpsertContent(u)
        \/ CommitKeep(u) \/ UpsertUrl(u) \/ CommitRepoint(u)
        \/ SnapshotOrphan(u) \/ CommitOrphan(u)
        \/ AbortSave(u) \/ SaveFails(u)

-----------------------------------------------------------------------------
(* Eviction.                                                               *)

\* The estimate is read unless this is a reconciliation tick; the walk of the
\* disk decides.
WalkNeeded(t) == t = 0 \/ 10 * Bytes(Resident) >= 9 * MaxBytes
\* Mutant: usage must exceed the cap.
OverCapStrictly(t) == WalkNeeded(t) /\ Bytes(disk) > MaxBytes

OverCap(t) == WalkNeeded(t) /\ Bytes(disk) >= MaxBytes

\* The shortest prefixes, over the orders the scores may give the resident
\* rows, whose sizes add up to a tenth of the cap.
EvictionBatches ==
    {B \in SUBSET Resident :
        /\ \E last \in B : 10 * Bytes(B \ {last}) < MaxBytes
        /\ 10 * Bytes(B) >= MaxBytes \/ B = Resident}

NextTick == IF tick + 1 = ReconcileEvery THEN 0 ELSE tick + 1

RunOnceStarts(B) ==
    /\ ev.pc = "idle"
    /\ OverCap(NextTick)
    /\ B \in EvictionBatches
    /\ tick' = NextTick
    /\ ev' = [pc |-> "pass", batch |-> B, hash |-> NoHash]
    /\ UNCHANGED <<content, url, disk, hashLock, pub, del, sweep, faults, torn>>

RunOnceSkips ==
    /\ ev.pc = "idle"
    /\ ~OverCap(NextTick) \/ Resident = {}
    /\ tick' = NextTick
    /\ UNCHANGED <<content, url, disk, hashLock, pub, ev, del, sweep, faults, torn>>

LockForEviction(h) ==
    /\ ev.pc = "pass"
    /\ h \in ev.batch
    /\ hashLock[h] = NoProc
    /\ hashLock' = [hashLock EXCEPT ![h] = Evictor]
    /\ ev' = [pc |-> "remove", batch |-> ev.batch \ {h}, hash |-> h]
    /\ UNCHANGED <<content, url, disk, pub, del, sweep, tick, faults, torn>>

\* A missing file is not an error.
RemoveFile ==
    /\ ev.pc = "remove"
    /\ disk' = disk \ {ev.hash}
    /\ ev' = [ev EXCEPT !.pc = "mark"]
    /\ UNCHANGED <<content, url, hashLock, pub, del, sweep, tick, faults, torn>>

\* The next candidate, or the end of the pass.
NextCandidate ==
    /\ hashLock' = [hashLock EXCEPT ![ev.hash] = NoProc]
    /\ ev' = IF ev.batch = {} THEN EvIdle
             ELSE [pc |-> "pass", batch |-> ev.batch, hash |-> NoHash]

MarkEvicted ==
    /\ ev.pc = "mark"
    /\ HoldsContent(ev.hash) = {}
    /\ content' = [content EXCEPT ![ev.hash] = "absent"]
    /\ NextCandidate
    /\ UNCHANGED <<url, disk, pub, del, sweep, tick, faults, torn>>

\* The file is gone and the row still names it: MarkEvicted is the next step.
Halfway == {h \in Resident : ev.pc = "mark" /\ ev.hash = h}

\* os.Remove or MarkEvicted fails: unlock and go on with the next candidate.
EvictionFails ==
    /\ ev.pc \in {"remove", "mark"}
    /\ faults < MaxFaults
    /\ faults' = faults + 1
    /\ torn' = torn \union Halfway
    /\ NextCandidate
    /\ UNCHANGED <<content, url, disk, pub, del, sweep, tick>>

EvictNext ==
    \/ \E B \in SUBSET Hashes : RunOnceStarts(B)
    \/ RunOnceSkips
    \/ \E h \in Hashes : LockForEviction(h)
    \/ RemoveFile \/ MarkEvicted \/ EvictionFails

-----------------------------------------------------------------------------
(* Deleting: purge of a poisoned row, dropLegacyPlainRow after a mux.       *)

\* DELETE FROM media_url, the EXISTS query and, if nothing else maps to the
\* content, the read of its file_path, which waits for no lock.
DeleteUrl(d, k) ==
    /\ del[d].pc = "idle"
    /\ k \in Disposable
    /\ url[k] # NoHash
    /\ HoldsUrl(k) = {}
    /\ IF ReferencedBeside(url[k], k)
       THEN url' = [url EXCEPT ![k] = NoHash] /\ UNCHANGED del
       ELSE /\ del' = [del EXCEPT ![d] = [pc |-> "orphan", key |-> k, hash |-> url[k],
                                          file |-> content[url[k]] = "resident"]]
            /\ UNCHANGED url
    /\ UNCHANGED <<content, disk, hashLock, pub, ev, sweep, tick, faults, torn>>

\* Clear file_path, commit.  A NULL path leaves nothing to unlink.
DeleteOrphan(d) ==
    /\ del[d].pc = "orphan"
    /\ HoldsContent(del[d].hash) = {}
    /\ url' = [url EXCEPT ![del[d].key] = NoHash]
    /\ content' = [content EXCEPT ![del[d].hash] = "absent"]
    /\ del' = [del EXCEPT ![d] =
                  IF del[d].file
                  THEN [pc |-> "unlink", key |-> NoHash, hash |-> del[d].hash, file |-> TRUE]
                  ELSE DelIdle]
    /\ UNCHANGED <<disk, hashLock, pub, ev, sweep, tick, faults, torn>>

\* os.Remove, with no LockHash.
Unlink(d) ==
    /\ del[d].pc = "unlink"
    /\ disk' = disk \ {del[d].hash}
    /\ torn' = torn \union ({del[d].hash} \intersect (Resident \union InPlace))
    /\ del' = [del EXCEPT ![d] = DelIdle]
    /\ UNCHANGED <<content, url, hashLock, pub, ev, sweep, tick, faults>>

DeleteNext ==
    \E d \in Deleters :
        \/ \E k \in Keys : DeleteUrl(d, k)
        \/ DeleteOrphan(d) \/ Unlink(d) \/ AbortDelete(d)

-----------------------------------------------------------------------------
(* The startup sweep of plain rows superseded by a muxed copy.              *)

Superseded ==
    {k \in DOMAIN MuxedOf : /\ url[k] # NoHash
                            /\ url[MuxedOf[k]] # NoHash
                            /\ content[url[MuxedOf[k]]] = "resident"}

\* DELETE the superseded rows S whose muxed copy has a conclusive audio_state,
\* and find the contents nothing maps to any more.
SweepRows(S) ==
    /\ sweep.pc = "todo"
    /\ S \subseteq Superseded
    /\ \A k \in S : HoldsUrl(k) = {}
    /\ sweep' = Swept("orphan", S,
                  {h \in Hashes : /\ \E k \in S : url[k] = h
                                 /\ \A k \in Keys \ S : url[k] # h})
    /\ UNCHANGED <<content, url, disk, hashLock, pub, ev, del, tick, faults, torn>>

\* Clear their file_path, commit.  RETURNING file_path yields the value just
\* written, NULL: paths is empty and the caller has no file to remove.
SweepOrphans ==
    /\ sweep.pc = "orphan"
    /\ \A h \in sweep.orphans : HoldsContent(h) = {}
    /\ url' = [k \in Keys |-> IF k \in sweep.rows THEN NoHash ELSE url[k]]
    /\ content' = [h \in Hashes |-> IF h \in sweep.orphans THEN "absent" ELSE content[h]]
    /\ sweep' = [sweep EXCEPT !.pc = "done"]
    /\ UNCHANGED <<disk, hashLock, pub, ev, del, tick, faults, torn>>

AbortSweep ==
    /\ Deadlocked(Sweeper)
    /\ sweep' = Swept("done", {}, {})
    /\ UNCHANGED <<content, url, disk, hashLock, pub, ev, del, tick, faults, torn>>

SweepNext == (\E S \in SUBSET Keys : SweepRows(S)) \/ SweepOrphans \/ AbortSweep

\* The process dies and restarts: goroutines, locks and open transactions are
\* gone; committed rows and files stay.
Crash ==
    /\ faults < MaxFaults
    /\ faults' = faults + 1
    /\ torn' = torn \union Halfway
    /\ hashLock' = [h \in Hashes |-> NoProc]
    /\ pub' = [u \in Urls |-> Idle]
    /\ ev' = EvIdle
    /\ del' = [d \in Deleters |-> DelIdle]
    /\ sweep' = Swept("todo", {}, {})
    /\ tick' = 0
    /\ UNCHANGED <<content, url, disk>>

-----------------------------------------------------------------------------
Next ==
    \/ PublishNext
    \/ EvictNext
    \/ DeleteNext
    \/ SweepNext
    \/ Crash

Spec == Init /\ [][Next]_vars

\* The scheduler runs every goroutine, the evictor's ticker never stops, and a
\* Stage depends on users: no fairness.  A deadlocked pair is always broken.
PublishSteps(u) ==
    \/ LockForPublish(u) \/ Place(u) \/ UpsertContent(u)
    \/ CommitKeep(u) \/ UpsertUrl(u) \/ CommitRepoint(u)
    \/ SnapshotOrphan(u) \/ CommitOrphan(u) \/ AbortSave(u)

EvictSteps ==
    \/ \E B \in SUBSET Hashes : RunOnceStarts(B)
    \/ RunOnceSkips
    \/ \E h \in Hashes : LockForEviction(h)
    \/ RemoveFile \/ MarkEvicted

FairSpec ==
    /\ Spec
    /\ \A u \in Urls : WF_vars(PublishSteps(u))
    /\ WF_vars(EvictSteps)

-----------------------------------------------------------------------------
(* What the index promises.                                                *)

\* A row that names a file names one that is there, except while the evictor
\* is between os.Remove and MarkEvicted, and except for the files torn away by
\* a crash or a failed statement there, or by an unlink without LockHash.
ResidentOnDisk ==
    \A h \in Resident \ disk : h \in torn \/ h \in Halfway

\* A file that Save is about to commit is not removed under it (but by an
\* unlink without LockHash), and the evictor is not at work on its content.
PlacedStays ==
    \A u \in Urls : pub[u].pc \in Placed =>
        /\ pub[u].hash \in disk \union torn
        /\ ~(ev.pc \in {"remove", "mark"} /\ ev.hash = pub[u].hash)

\* Index and disk agree from a file's rename to its removal, whichever of the
\* evictor, the deleters, the sweep and a second publisher comes in between
\* (LockHash, media/hash.go).
FilesAccounted == ResidentOnDisk /\ PlacedStays

\* Why: whoever is in a section of LockHash holds that content's lock.
LocksHeld ==
    /\ \A u \in Urls : pub[u].pc \in Locking => hashLock[pub[u].hash] = u
    /\ ev.pc \in {"remove", "mark"} => hashLock[ev.hash] = Evictor

\* The inductive invariant: with the locks and the placed files, a commit finds
\* its file in place, which is what keeps ResidentOnDisk.
IInv == TypeOK /\ LocksHeld /\ PlacedStays /\ ResidentOnDisk

\* A Save that commits over a mapping it did not read: another raw URL of the
\* key has committed since.
Overtaken(k) ==
    \E u, v \in Urls : /\ u # v /\ Canon[u] = k /\ Canon[v] = k
                       /\ pub[u].pc \in {"url", "orphan"} /\ pub'[u] = Idle
                       /\ pub[u].old # url[k] /\ url'[k] = pub[u].hash

\* A key moves to a file that is not bigger only where the Saves of two raw URLs
\* of it have raced: the mapping is read without a lock on its row, and the Save
\* that commits last is one that had read it before the other's commit.  A raw
\* URL's own Saves, a delete, an eviction or a restart between the read and the
\* commit never do it (store/media.go Save, "Bigger wins").
BiggerWins ==
    [][\A k \in Keys :
        \/ url'[k] = url[k] \/ url[k] = NoHash \/ url'[k] = NoHash
        \/ Size[url[k]] < Size[url'[k]]
        \/ Overtaken(k)]_vars

\* The keys that one raw URL names: its single flight keeps their Saves apart.
OneSource(k) == \A u, v \in Urls : Canon[u] = k /\ Canon[v] = k => u = v

\* Saves never wait for each other's row locks in a cycle, although each holds
\* its content row when it asks for a url row and then for the old content's,
\* while their keys have one raw URL each (of two raw URLs of one key, one can
\* hold the url row and want the old content's while the other has that one and
\* waits for the url row).
NoRowDeadlock ==
    \A S \in (SUBSET {u \in Urls : OneSource(Canon[u])}) \ {{}} :
        \E q \in S : WaitsFor(q) \intersect S = {}

\* Why: a Save that holds a url row replaces a smaller content, if any, and what
\* a Save has read of its key's mapping still holds, or the mapping is gone.
ReplacesSmaller ==
    \A u \in Urls :
        /\ pub[u].pc \in {"url", "orphan"} => Repoints(u)
        /\ pub[u].pc = "orphan" => pub[u].old # NoHash
MappingReadStays ==
    \A u \in Urls : OneSource(Canon[u]) /\ pub[u].pc \in InTx =>
        url[Canon[u]] \in {pub[u].old, NoHash}

\* The inductive invariant of the row locks.
SavesInv == IInv /\ ReplacesSmaller /\ MappingReadStays

\* Unless publishing goes on for ever, the evictor brings the cache back under
\* its cap or has nothing left that it could evict: bytes that no row names (a
\* crash before the Save, a row whose path was cleared) are out of its reach.
CapRestored ==
    <>[](\A u \in Urls : pub[u].pc = "idle")
        => []<>(Bytes(disk) < MaxBytes \/ Resident = {})
=============================================================================
