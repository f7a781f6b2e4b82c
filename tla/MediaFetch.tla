----------------------------- MODULE MediaFetch -----------------------------
(***************************************************************************)
(* media/proxy.go between a request and a download: the disk check, the    *)
(* 404/410 memo, the media_unavailable ledger, one download per raw URL    *)
(* (fetchOnce) under the fetchSem cap, and what a download's outcome       *)
(* records.  A caller is one goroutine in ensureCached: an <img> request,  *)
(* the imageReload poller's background download or a prefetch worker.      *)
(***************************************************************************)
EXTENDS Integers, FiniteSets

CONSTANTS
    Callers,     \* goroutines that call ensureCached
    Urls, Keys,  \* raw URLs, and their canonical keys
    Canon,       \* reddit.CanonicalKey
    Slots,       \* cap(fetchSem)
    Threshold,   \* DefaultUnavailableThreshold
    Nobody

ASSUME CanonAssumption == Canon \in [Urls -> Keys]
ASSUME SlotsAssumption == Slots \in Nat \ {0} /\ Threshold \in Nat \ {0}
ASSUME NobodyAssumption == Nobody \notin Callers \union Urls

VARIABLES
    caller,    \* each caller: its place, its URL, the leader it waits for
    inflight,  \* dlInflight: the leader of each raw URL's download
    cached,    \* canonical keys whose file is on disk
    perm,      \* Proxy.failures: raw URLs answered 404 or 410
    ledger     \* media_unavailable

vars == <<caller, inflight, cached, perm, ledger>>

-----------------------------------------------------------------------------
\* A leader is mapped in dlInflight from "lead" to "unmap"; from "fetch" to
\* "strike" it holds a slot of fetchSem.
Fetching == {"fetch", "strike"}
Mapped   == {"lead", "queue", "unmap"} \union Fetching
Leading  == Mapped \union {"close"}
Checking == {"memo", "ledger", "join"}

\* fail_count matters only below the threshold.
Row == [fails : 0..Threshold, marked : BOOLEAN, revived : BOOLEAN, dead : BOOLEAN]
NoRow == [fails |-> 0, marked |-> FALSE, revived |-> FALSE, dead |-> FALSE]

State(k) ==
    IF ledger[k].dead THEN "dead"
    ELSE IF ledger[k].marked THEN "unavailable" ELSE "alive"

Idle == [pc |-> "idle", url |-> Nobody, leader |-> Nobody]
At(c, p) == [pc |-> p, url |-> caller[c].url, leader |-> Nobody]
Goto(c, p) == caller' = [caller EXCEPT ![c] = At(c, p)]
Answer(c)  == caller' = [caller EXCEPT ![c] = Idle]
Key(c) == Canon[caller[c].url]

TypeOK ==
    /\ caller \in [Callers -> [pc : {"idle", "wait"} \union Checking \union Leading,
                               url : Urls \union {Nobody},
                               leader : Callers \union {Nobody}]]
    /\ \A c \in Callers : caller[c].pc # "idle" => caller[c].url \in Urls
    /\ inflight \in [Urls -> Callers \union {Nobody}]
    /\ cached \subseteq Keys
    /\ perm \subseteq Urls
    /\ ledger \in [Keys -> Row]

Init ==
    /\ caller = [c \in Callers |-> Idle]
    /\ inflight = [u \in Urls |-> Nobody]
    /\ cached = {}
    /\ perm = {}
    /\ ledger = [k \in Keys |-> NoRow]

-----------------------------------------------------------------------------
(* ensureCached: three checks, each at its own moment.                      *)

\* A file on disk answers the request at once.
Request(c, u) ==
    /\ caller[c].pc = "idle"
    /\ Canon[u] \notin cached
    /\ caller' = [caller EXCEPT ![c] = [pc |-> "memo", url |-> u, leader |-> Nobody]]
    /\ UNCHANGED <<inflight, cached, perm, ledger>>

CheckMemo(c) ==
    /\ caller[c].pc = "memo"
    /\ IF caller[c].url \in perm THEN Answer(c) ELSE Goto(c, "ledger")
    /\ UNCHANGED <<inflight, cached, perm, ledger>>

CheckLedger(c) ==
    /\ caller[c].pc = "ledger"
    /\ IF State(Key(c)) # "alive" THEN Answer(c) ELSE Goto(c, "join")
    /\ UNCHANGED <<inflight, cached, perm, ledger>>

-----------------------------------------------------------------------------
(* fetchOnce.                                                              *)

\* Mutant: the map is not consulted.
JoinBlind(c) ==
    /\ caller[c].pc = "join"
    /\ inflight' = [inflight EXCEPT ![caller[c].url] = c]
    /\ Goto(c, "lead")
    /\ UNCHANGED <<cached, perm, ledger>>

\* Under dlMu: follow the download under way, or map this one.
Join(c) ==
    LET u == caller[c].url IN
    /\ caller[c].pc = "join"
    /\ IF inflight[u] # Nobody
       THEN /\ caller' = [caller EXCEPT ![c] = [pc |-> "wait", url |-> u,
                                                leader |-> inflight[u]]]
            /\ UNCHANGED inflight
       ELSE /\ inflight' = [inflight EXCEPT ![u] = c]
            /\ Goto(c, "lead")
    /\ UNCHANGED <<cached, perm, ledger>>

\* The leader looks at the disk again.
Recheck(c) ==
    /\ caller[c].pc = "lead"
    /\ Goto(c, IF Key(c) \in cached THEN "unmap" ELSE "queue")
    /\ UNCHANGED <<inflight, cached, perm, ledger>>

Busy == {c \in Callers : caller[c].pc \in Fetching}

AcquireSlot(c) ==
    /\ caller[c].pc = "queue"
    /\ Cardinality(Busy) < Slots
    /\ Goto(c, "fetch")
    /\ UNCHANGED <<inflight, cached, perm, ledger>>

\* Download ends, at the latest at its 10 s ceiling.  404 and 410 are memoed;
\* these, other refusals and transport errors go to the ledger; a body that we
\* clipped, or one that is not media, is recorded nowhere.
Download(c, outcome) ==
    /\ caller[c].pc = "fetch"
    /\ Goto(c, IF outcome \in {"gone", "refused"} THEN "strike" ELSE "unmap")
    /\ cached' = IF outcome = "ok" THEN cached \union {Key(c)} ELSE cached
    /\ perm' = IF outcome = "gone" THEN perm \union {caller[c].url} ELSE perm
    /\ UNCHANGED <<inflight, ledger>>

Capped(n) == IF n < Threshold THEN n + 1 ELSE Threshold

\* Mutant: a failure after a revive marks the row again, and no more.
StruckAgain(r) ==
    [fails |-> Capped(r.fails),
     marked |-> r.marked \/ Capped(r.fails) = Threshold,
     revived |-> r.revived,
     dead |-> r.dead]

\* What a failure makes of a row.
Struck(r) ==
    [fails |-> Capped(r.fails),
     marked |-> r.marked \/ Capped(r.fails) = Threshold,
     revived |-> r.revived,
     dead |-> r.dead \/ r.revived]

\* The slot is freed once the strike is written.
RecordFailure(c) ==
    /\ caller[c].pc = "strike"
    /\ ledger' = [ledger EXCEPT ![Key(c)] = Struck(@)]
    /\ Goto(c, "unmap")
    /\ UNCHANGED <<inflight, cached, perm>>

Unmap(c) ==
    /\ caller[c].pc = "unmap"
    /\ inflight' = [inflight EXCEPT ![caller[c].url] = Nobody]
    /\ Goto(c, "close")
    /\ UNCHANGED <<cached, perm, ledger>>

Waiters(c) == {w \in Callers : caller[w].pc = "wait" /\ caller[w].leader = c}

\* Mutant: done is closed only for the leader.
CloseAlone(c) ==
    /\ caller[c].pc = "close"
    /\ Answer(c)
    /\ UNCHANGED <<inflight, cached, perm, ledger>>

\* close(call.done): the leader and every waiter return the one result.
Close(c) ==
    /\ caller[c].pc = "close"
    /\ caller' = [w \in Callers |-> IF w = c \/ w \in Waiters(c) THEN Idle ELSE caller[w]]
    /\ UNCHANGED <<inflight, cached, perm, ledger>>

\* A waiter's client is gone; a leader's download goes on without its client.
WaiterLeaves(c) ==
    /\ caller[c].pc = "wait"
    /\ Answer(c)
    /\ UNCHANGED <<inflight, cached, perm, ledger>>

-----------------------------------------------------------------------------
\* ReviveMedia: a user opens the owning post.
Revive(k) ==
    /\ ledger[k].marked /\ ~ledger[k].dead
    /\ ledger' = [ledger EXCEPT ![k] = [fails |-> 0, marked |-> FALSE,
                                             revived |-> TRUE, dead |-> FALSE]]
    /\ UNCHANGED <<caller, inflight, cached, perm>>

\* permFailureTTL, and the evictor.
MemoExpires(u) ==
    /\ u \in perm
    /\ perm' = perm \ {u}
    /\ UNCHANGED <<caller, inflight, cached, ledger>>

Evicted(k) ==
    /\ k \in cached
    /\ cached' = cached \ {k}
    /\ UNCHANGED <<caller, inflight, perm, ledger>>

\* The process restarts: only the disk and the ledger survive.
Restart ==
    /\ caller' = [c \in Callers |-> Idle]
    /\ inflight' = [u \in Urls |-> Nobody]
    /\ perm' = {}
    /\ UNCHANGED <<cached, ledger>>

-----------------------------------------------------------------------------
Outcomes == {"ok", "gone", "refused", "clipped"}

CallerSteps(c) ==
    \/ CheckMemo(c) \/ CheckLedger(c) \/ Join(c) \/ Recheck(c)
    \/ \E o \in Outcomes : Download(c, o)
    \/ RecordFailure(c) \/ Unmap(c) \/ Close(c)

Next ==
    \/ \E c \in Callers :
        \/ \E u \in Urls : Request(c, u)
        \/ CallerSteps(c) \/ AcquireSlot(c) \/ WaiterLeaves(c)
    \/ \E k \in Keys : Revive(k) \/ Evicted(k)
    \/ \E u \in Urls : MemoExpires(u)
    \/ Restart

Spec == Init /\ [][Next]_vars

\* Goroutines run, a download ends by its ceiling, and the runtime hands a
\* channel's slots out in arrival order, so nobody is passed over for ever.
FairSpec ==
    /\ Spec
    /\ \A c \in Callers : WF_vars(CallerSteps(c)) /\ SF_vars(AcquireSlot(c))

-----------------------------------------------------------------------------
\* The map and its leaders agree: a URL has one leader, so two downloads never
\* write the same raw URL, and whoever is mapped will unmap itself.
OneLeader ==
    /\ \A c \in Callers : caller[c].pc \in Mapped => inflight[caller[c].url] = c
    /\ \A u \in Urls : inflight[u] # Nobody =>
        caller[inflight[u]].pc \in Mapped /\ caller[inflight[u]].url = u

\* A waiter waits for a leader of its own URL that has still to close: a caller
\* that joins between delete and close does not wait for ever.
WaitsForLeader ==
    \A c \in Callers : caller[c].pc = "wait" =>
        LET l == caller[c].leader IN
        /\ l \in Callers \ {c}
        /\ caller[l].pc \in Leading
        /\ caller[l].url = caller[c].url

\* The inductive invariant of single flight.
FlightInv == TypeOK /\ OneLeader /\ WaitsForLeader

\* Every request is answered, whatever its siblings do.
Answered == \A c \in Callers : []<>(caller[c].pc = "idle")

\* However often a URL that Reddit refuses is asked for, by whichever of its
\* variants, and its post opened again, only finitely many failures are
\* recorded: the ledger comes to rest, also when a failure of an attempt that
\* began before a revive is counted after it.
FailuresEnd == <>[][\A c \in Callers : ~RecordFailure(c)]_vars
=============================================================================
