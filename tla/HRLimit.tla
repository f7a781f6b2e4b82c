------------------------------ MODULE HRLimit ------------------------------
(***************************************************************************)
(* hrlimit/hrlimit.go: the cap on upstream traffic in three tumbling       *)
(* windows.  A visitor's request asks Admit once, before it calls Reddit,  *)
(* and counts each call after it: the posts of a subreddit, its about with *)
(* a token, its about without one.  Background fetches only count theirs;  *)
(* the status page probes a Redis that does not answer.  Counters and      *)
(* cooldowns are keys of Redis, the backoff is a field of Manager.  Time   *)
(* is a tick; every deadline is the number of ticks left until it.         *)
(***************************************************************************)
EXTENDS Integers, FiniteSets

CONSTANTS
    HR,         \* goroutines that serve visitors
    NP,         \* goroutines that fetch in the background
    Calls,      \* upstream calls that one admitted request makes at most (3)
    Tiers,
    Window,     \* of each tier
    Threshold,  \* of each tier
    Lag,        \* a script runs at most Lag ticks after its clock was read
    MinBackoff, MaxBackoff,
    MaxCount    \* bound: calls of background fetches counted in a window

Callers == HR \union NP

ASSUME SetsAssumption == IsFiniteSet(HR) /\ HR \intersect NP = {} /\ MaxCount \in Nat
                      /\ Calls \in Nat \ {0}
ASSUME TiersAssumption ==
    /\ Window \in [Tiers -> Nat \ {0}] /\ Threshold \in [Tiers -> Nat \ {0}]
    /\ Lag \in Nat /\ \A t \in Tiers : Lag <= Window[t]
ASSUME BackoffAssumption ==
    MinBackoff \in Nat \ {0} /\ MaxBackoff \in Nat /\ MinBackoff <= MaxBackoff

VARIABLES
    up,       \* Redis answers
    pos,      \* how far into its window each tier is
    cur, prev,\* counters of the window that runs and of the one before it
    cooldown, \* ticks left of each tier's cooldown key, 0 without one
    backoff,  \* Manager.backoff
    probe,    \* ticks until Manager.nextProbe
    act,      \* each goroutine: its place, ticks since it read the clock
    spent,    \* calls that each request has behind it
    mine, was,\* history: the visitors' share of cur and prev
    held      \* history: ticks left of one window from the last trip of each tier

redis  == <<cur, prev, cooldown>>
ghosts == <<mine, was, held>>
vars   == <<up, pos, redis, backoff, probe, act, spent, ghosts>>

-----------------------------------------------------------------------------
\* "probe", "ping" : the MGET of Admit and the PING of RedisDownReset are on
\* their way; "clear", "closed" : MGET found no cooldown, or one; "pong", "failed".
Places == {"idle", "probe", "ping", "clear", "closed", "pong", "failed", "call", "record"}
Act == [pc : Places, age : Nat]

At(p, a) == [pc |-> p, age |-> a]
Zero     == [t \in Tiers |-> 0]
Goto(c, p) == act' = [act EXCEPT ![c] = At(p, 0)]
Down(n)    == IF n > 0 THEN n - 1 ELSE 0
Less(m, n) == IF m > n THEN m - n ELSE 0
Least(m, n) == IF m < n THEN m ELSE n

TypeOK ==
    /\ up \in BOOLEAN /\ act \in [Callers -> Act] /\ spent \in [Callers -> 0..Calls - 1]
    /\ pos \in [Tiers -> Nat] /\ \A t \in Tiers : pos[t] < Window[t]
    /\ {cur, prev, cooldown, mine, was, held} \subseteq [Tiers -> Nat]
    /\ backoff \in 0..MaxBackoff /\ probe \in 0..MaxBackoff

Init ==
    /\ up = TRUE /\ pos = Zero /\ cur = Zero /\ prev = Zero /\ cooldown = Zero
    /\ backoff = 0 /\ probe = 0 /\ act = [c \in Callers |-> At("idle", 0)]
    /\ spent = [c \in Callers |-> 0]
    /\ mine = Zero /\ was = Zero /\ held = Zero

-----------------------------------------------------------------------------
(* Admit, failClosed and recover.                                           *)

\* Inside the backoff window the answer is no, without a probe.
Admit(c) ==
    /\ c \in HR /\ act[c].pc = "idle"
    /\ ~(backoff > 0 /\ probe > 0)
    /\ Goto(c, "probe")
    /\ UNCHANGED <<up, pos, redis, backoff, probe, spent, ghosts>>

\* MGET of the cooldown keys.
MGet(c) ==
    /\ act[c].pc = "probe" /\ up
    /\ Goto(c, IF \A t \in Tiers : cooldown[t] = 0 THEN "clear" ELSE "closed")
    /\ UNCHANGED <<up, pos, redis, backoff, probe, spent, ghosts>>

\* The status page asks RedisDownReset, which pings when the window has elapsed.
Poll(c) ==
    /\ c \in HR /\ act[c].pc = "idle"
    /\ backoff > 0 /\ probe = 0
    /\ Goto(c, "ping")
    /\ UNCHANGED <<up, pos, redis, backoff, probe, spent, ghosts>>

Ping(c) ==
    /\ act[c].pc = "ping" /\ up
    /\ Goto(c, "pong")
    /\ UNCHANGED <<up, pos, redis, backoff, probe, spent, ghosts>>

\* MGET or PING returns an error: Redis does not answer, or the visitor has gone
\* and the request's context is cancelled.
Errs(c) ==
    /\ act[c].pc \in {"probe", "ping"}
    /\ act' = [act EXCEPT ![c].pc = "failed"]
    /\ UNCHANGED <<up, pos, redis, backoff, probe, spent, ghosts>>

Grown == IF backoff = 0 THEN MinBackoff ELSE Least(2 * backoff, MaxBackoff)

\* The next probe is due Grown ticks after the clock was read.
FailClosed(c) ==
    /\ act[c].pc = "failed"
    /\ backoff' = Grown /\ probe' = Less(Grown, act[c].age)
    /\ Goto(c, "idle")
    /\ UNCHANGED <<up, pos, redis, spent, ghosts>>

\* A bug: recover makes the next probe due and leaves the backoff.
RecoverLate(c) ==
    /\ act[c].pc \in {"clear", "closed", "pong"}
    /\ backoff' = backoff /\ probe' = 0
    /\ Goto(c, IF act[c].pc = "clear" THEN "call" ELSE "idle")
    /\ UNCHANGED <<up, pos, redis, spent, ghosts>>

\* recover, and Admit's verdict; a request admitted may still be answered
\* without a call (no token has quota, another request makes the call for it).
Recover(c) ==
    /\ act[c].pc \in {"clear", "closed", "pong"}
    /\ backoff' = 0 /\ probe' = 0
    /\ \/ act[c].pc = "clear" /\ Goto(c, "call")
       \/ Goto(c, "idle")
    /\ UNCHANGED <<up, pos, redis, spent, ghosts>>

-----------------------------------------------------------------------------
(* RecordUpstream.                                                          *)

\* A background fetch asks nobody.
Fetch(c) ==
    /\ c \in NP /\ act[c].pc = "idle"
    /\ \A t \in Tiers : cur[t] < MaxCount
    /\ Goto(c, "call")
    /\ UNCHANGED <<up, pos, redis, backoff, probe, spent, ghosts>>

\* The call to Reddit is over, RecordUpstream reads the clock.
Called(c) ==
    /\ act[c].pc = "call"
    /\ Goto(c, "record")
    /\ UNCHANGED <<up, pos, redis, backoff, probe, spent, ghosts>>

\* The clock was read in the window before the one that runs, at Stamp of it.
Late(c, t)  == act[c].age > pos[t]
Stamp(c, t) == IF Late(c, t) THEN pos[t] + Window[t] - act[c].age ELSE pos[t] - act[c].age
Count(c, t) == 1 + IF Late(c, t) THEN prev[t] ELSE cur[t]

\* A bug: the tier trips one call late.
TripsAbove(c, t) == Count(c, t) > Threshold[t]

Trips(c, t) == Count(c, t) >= Threshold[t]

\* What is left of the window, and one window more.
TTL(c, t) == Window[t] - Stamp(c, t) + Window[t]

\* After a call the request is answered, or makes the next one without asking.
GoesOn(c) ==
    \/ /\ Goto(c, "idle") /\ spent' = [spent EXCEPT ![c] = 0]
    \/ /\ c \in HR /\ spent[c] + 1 < Calls
       /\ Goto(c, "call") /\ spent' = [spent EXCEPT ![c] = @ + 1]

\* recordScript: INCR of each tier's bucket, SET of the cooldown key of a tier
\* at its threshold, whatever the key's TTL was.
Record(c) ==
    /\ act[c].pc = "record" /\ up
    /\ cur'  = [t \in Tiers |-> IF Late(c, t) THEN cur[t] ELSE Count(c, t)]
    /\ prev' = [t \in Tiers |-> IF Late(c, t) THEN Count(c, t) ELSE prev[t]]
    /\ cooldown' = [t \in Tiers |-> IF Trips(c, t) THEN TTL(c, t) ELSE cooldown[t]]
    /\ held' = [t \in Tiers |-> IF Trips(c, t) THEN Window[t] ELSE held[t]]
    /\ mine' = [t \in Tiers |-> IF c \in HR /\ ~Late(c, t) THEN mine[t] + 1 ELSE mine[t]]
    /\ was'  = [t \in Tiers |-> IF c \in HR /\ Late(c, t) THEN was[t] + 1 ELSE was[t]]
    /\ GoesOn(c)
    /\ UNCHANGED <<up, pos, backoff, probe>>

\* The script fails, and the error is logged: Redis does not answer, or the
\* context is cancelled.
RecordFails(c) ==
    /\ act[c].pc = "record"
    /\ GoesOn(c)
    /\ UNCHANGED <<up, pos, redis, backoff, probe, ghosts>>

-----------------------------------------------------------------------------
(* Redis and time.                                                          *)

Outage ==
    /\ up' = ~up
    /\ UNCHANGED <<pos, redis, backoff, probe, act, spent, ghosts>>

Ends(t) == pos[t] + 1 = Window[t]

Tick ==
    /\ \A c \in Callers : act[c].pc = "record" => act[c].age < Lag
    /\ pos'  = [t \in Tiers |-> IF Ends(t) THEN 0 ELSE pos[t] + 1]
    /\ cur'  = [t \in Tiers |-> IF Ends(t) THEN 0 ELSE cur[t]]
    /\ prev' = [t \in Tiers |-> IF Ends(t) THEN cur[t] ELSE prev[t]]
    /\ mine' = [t \in Tiers |-> IF Ends(t) THEN 0 ELSE mine[t]]
    /\ was'  = [t \in Tiers |-> IF Ends(t) THEN mine[t] ELSE was[t]]
    /\ cooldown' = [t \in Tiers |-> Down(cooldown[t])]
    /\ held' = [t \in Tiers |-> Down(held[t])]
    /\ probe' = Down(probe)
    /\ act' = [c \in Callers |->
                 At(act[c].pc,
                    CASE act[c].pc = "record" -> act[c].age + 1
                      [] act[c].pc \in {"probe", "ping", "failed"} ->
                             Least(act[c].age + 1, MaxBackoff)
                      [] OTHER -> 0)]
    /\ UNCHANGED <<up, backoff, spent>>

AdmitStep(c)  == MGet(c) \/ Ping(c) \/ Errs(c) \/ FailClosed(c) \/ Recover(c)
RecordStep(c) == Called(c) \/ Record(c) \/ RecordFails(c)

Next ==
    \/ Outage \/ Tick
    \/ \E c \in Callers : Admit(c) \/ Poll(c) \/ Fetch(c) \/ AdmitStep(c) \/ RecordStep(c)

Spec == Init /\ [][Next]_vars

\* The clock runs and goroutines are scheduled; while the gate is closed the
\* page polls, and not every poll is cut off.
FairSpec ==
    /\ Spec /\ WF_vars(Tick)
    /\ \A c \in Callers : WF_vars(RecordStep(c))
    /\ \A c \in HR : /\ WF_vars(AdmitStep(c)) /\ WF_vars(Poll(c))
                     /\ SF_vars(Ping(c)) /\ SF_vars(MGet(c))

-----------------------------------------------------------------------------
(* Properties                                                               *)

Asked(c)    == act[c].pc = "probe" /\ act'[c].pc # "probe"
Admitted(c) == Asked(c) /\ act'[c].pc = "clear"

\* A visitor's request is let through by Redis only when no tier tripped in the
\* last full window of the tier, however late the scripts run.
WindowHeld == [][\A c \in HR : Admitted(c) => \A t \in Tiers : held[t] = 0]_vars

\* The calls of visitors that one window counts exceed the cap by no more than
\* what the requests that were under way when it was reached may still call.
Overshoot ==
    \A t \in Tiers : /\ mine[t] < Threshold[t] + Calls * Cardinality(HR)
                     /\ was[t]  < Threshold[t] + Calls * Cardinality(HR)

\* The cap of a window is exceeded by what was under way at most, which is up to
\* Calls calls of each request, and a trip is followed by a full window in which
\* no request is let through (recordScript, Admit).
CapKept ==
    [][/\ Overshoot'
       /\ \A c \in HR : Admitted(c) => \A t \in Tiers : held[t] = 0]_vars

\* The banner never counts down further than the backoff, and not without one.
BackoffShown == probe <= backoff

\* When Redis is back the gate opens again, over and over if contexts are cancelled.
Recovers == <>[]up => []<>(backoff = 0)
=============================================================================
