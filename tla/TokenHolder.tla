---------------------------- MODULE TokenHolder ----------------------------
(***************************************************************************)
(* oauth/holder.go with store/token.go and the use reddit/client.go makes  *)
(* of them: the one active session token, the requests under way with it,  *)
(* the refreshers that replace it (the loop and the goroutines kicked off  *)
(* by Token, a 401 or a low quota), the rows of oauth_tokens and the       *)
(* asynchronous writes to them, a crash and the next start.  Time is a     *)
(* tick; every deadline is the number of ticks left until it.              *)
(***************************************************************************)
EXTENDS Integers, Sequences, FiniteSets

CONSTANTS
    Callers,    \* goroutines in reddit.Client.doRequest
    Kicks,      \* goroutines started with "go p.forceRefresh"
    Loop,       \* refreshLoop
    NoOne, NoToken,
    Cap,        \* windowCapacity
    Low,        \* OnRequestComplete asks for a refresh below it (2)
    Window,     \* the rate window, 10 minutes
    Life,       \* ExpiresIn of a new token
    Lead,       \* refreshLoop sleeps until this long before the expiry (120 s)
    Margin,     \* ... and skips the tick if more than this is left (150 s)
    Idle,       \* its sleep without a token (22 minutes)
    Flat,       \* refreshCooldown
    MaxCool,    \* maxRefreshCooldown
    Threshold,  \* maxConsecutiveFails
    MaxFails,   \* consecutiveFail is counted up to here
    MaxMints,   \* bound: tokens minted in a run
    MaxCrashes, \* bound: crashes in a run
    DbErrors    \* writes to oauth_tokens may fail

Refreshers == Kicks \union {Loop}
Serials    == 1..MaxMints

\* effectiveCooldown.
Cool(f) ==
    LET doubled == Flat * 2^(f - Threshold + 1)
    IN IF f < Threshold THEN Flat
       ELSE IF doubled < MaxCool THEN doubled ELSE MaxCool

ASSUME TimesAssumption ==
    /\ {Cap, Low, Window, Life, Lead, Margin, Idle, Flat, MaxMints} \subseteq Nat \ {0}
    /\ MaxCool \in Nat /\ Flat <= MaxCool /\ Lead <= Margin /\ Low <= Cap
    /\ Threshold \in Nat /\ MaxFails \in Nat /\ MaxCrashes \in Nat
ASSUME FailsAssumption ==   \* more failures than MaxFails change nothing
    Threshold <= MaxFails /\ Flat * 2^(MaxFails - Threshold + 1) >= MaxCool
ASSUME CoolAssumption ==    \* doubling never shortens the cooldown
    \A f \in 0..MaxFails : Cool(f) \in Flat..MaxCool
ASSUME NamesAssumption ==
    /\ Loop \notin Kicks /\ NoOne \notin Refreshers \union Callers
    /\ DbErrors \in BOOLEAN

VARIABLES
    up,      \* the process runs
    active,  \* TokenHolder.active
    ready,   \* tokenReady is closed
    since,   \* ticks since lastRefreshAt
    fails,   \* consecutiveFail
    held,    \* who holds refreshMu
    work,    \* each refresher: where it is, the token it minted, the row it will name,
             \* the ticks since installToken took its date
    nap,     \* what is left of the loop's sleep
    sent,    \* each caller: the token and row id its request was sent with
    rows,    \* oauth_tokens, by id
    writes,  \* UpdateToken goroutines that have not run yet
    life,    \* ticks until each minted token expires, at the upstream too
    minted, crashes

vars == <<up, active, ready, since, fails, held, work, nap, sent, rows, writes,
          life, minted, crashes>>

-----------------------------------------------------------------------------
Down(n) == IF n > 0 THEN n - 1 ELSE 0
Budget(left, window) == [left |-> left, window |-> window]

\* window is the time to RateResetAt; stored is StoredToken's copy of the
\* budget, the one a snapshot takes, where window 0 is also "no date".
Managed(token, id, now, stored) ==
    [token |-> token, id |-> id, now |-> now, stored |-> stored]

Budgets == [left : 0..Cap, window : 0..Window]
Active  == [token : Serials, id : 0..MaxMints, now : Budgets, stored : Budgets]
Row     == [token : Serials, budget : Budgets]
ASSUME NoTokenAssumption == NoToken \notin Active

MaxAge  == MaxCool + Window   \* an older date changes nothing
Works   == [at : {"idle", "called", "mint", "stored"},
            token : 0..MaxMints, id : 0..MaxMints, age : 0..MaxAge]
Sends   == [token : 0..MaxMints, id : 0..MaxMints]
Writes  == [id : 1..MaxMints, row : Row]

Resting == [at |-> "idle", token |-> 0, id |-> 0, age |-> 0]
Unsent  == [token |-> 0, id |-> 0]

Expired == active # NoToken /\ life[active.token] = 0
\* effectiveRemaining.
Remaining(b) == IF b.window = 0 THEN Cap ELSE b.left
\* What Token would hand out (TokenUsable, HasAvailableTokens).
Usable == active # NoToken /\ ~Expired /\ Remaining(active.now) > 0

TypeOK ==
    /\ up \in BOOLEAN /\ ready \in BOOLEAN
    /\ active \in Active \union {NoToken}
    /\ since \in 0..MaxCool
    /\ fails \in 0..MaxFails
    /\ held \in Refreshers \union {NoOne}
    /\ work \in [Refreshers -> Works]
    /\ nap \in Nat
    /\ sent \in [Callers -> Sends]
    /\ rows \in Seq(Row) /\ Len(rows) <= MaxMints
    /\ writes \subseteq Writes
    /\ life \in [Serials -> 0..Life]
    /\ minted \in 0..MaxMints /\ crashes \in 0..MaxCrashes

Init ==
    /\ up = FALSE /\ active = NoToken /\ ready = FALSE
    /\ since = MaxCool /\ fails = 0
    /\ held = NoOne /\ work = [r \in Refreshers |-> Resting] /\ nap = 0
    /\ sent = [c \in Callers |-> Unsent]
    /\ rows = <<>> /\ writes = {}
    /\ life = [t \in Serials |-> 0] /\ minted = 0 /\ crashes = 0

-----------------------------------------------------------------------------
(* Time.                                                                    *)

Later(b) == [b EXCEPT !.window = Down(@)]

\* installToken takes its date before the Upsert, which may be slow.
Aged(w) == IF w.at = "stored" /\ w.age < MaxAge THEN [w EXCEPT !.age = @ + 1] ELSE w

Tick ==
    /\ active' = IF active = NoToken THEN NoToken
                 ELSE [active EXCEPT !.now = Later(@), !.stored = Later(@)]
    /\ since' = IF since < MaxCool THEN since + 1 ELSE MaxCool
    /\ nap' = Down(nap)
    /\ work' = [r \in Refreshers |-> Aged(work[r])]
    /\ rows' = [i \in DOMAIN rows |-> [rows[i] EXCEPT !.budget = Later(@)]]
    /\ writes' = {[w EXCEPT !.row.budget = Later(@)] : w \in writes}
    /\ life' = [t \in Serials |-> Down(life[t])]
    /\ UNCHANGED <<up, ready, fails, held, sent, minted, crashes>>

\* What refreshLoop sleeps before its next tick; never less than 10 seconds.
Sleep(a, l) ==
    IF a = NoToken THEN Idle
    ELSE IF l[a.token] - Lead > 1 THEN l[a.token] - Lead ELSE 1

-----------------------------------------------------------------------------
(* Refreshing.                                                              *)

\* "go p.forceRefresh": one more goroutine.  When every one of Kicks is busy
\* the new one is left out: one that has not begun is as good.
Kicked(w) ==
    LET free == {k \in Kicks : w[k].at = "idle"}
    IN IF free = {} THEN w
       ELSE [w EXCEPT ![CHOOSE k \in free : TRUE].at = "called"]

\* The loop's timer fires.
LoopWakes ==
    /\ up /\ work[Loop].at = "idle" /\ nap = 0
    /\ IF active # NoToken /\ life[active.token] > Margin
       THEN nap' = Sleep(active, life) /\ UNCHANGED work
       ELSE work' = [work EXCEPT ![Loop].at = "called"] /\ UNCHANGED nap
    /\ UNCHANGED <<up, active, ready, since, fails, held, sent, rows, writes,
                   life, minted, crashes>>

\* forceRefresh returns: the loop goes back to sleep.
Returns(r, a) ==
    /\ work' = [work EXCEPT ![r] = Resting]
    /\ nap' = IF r = Loop THEN Sleep(a, life) ELSE nap

\* Mutant: the lock is not tried.
BeginUnlocked(r) ==
    /\ work[r].at = "called"
    /\ IF since < Cool(fails)
       THEN Returns(r, active) /\ UNCHANGED held
       ELSE /\ held' = r
            /\ work' = [work EXCEPT ![r].at = "mint"]
            /\ UNCHANGED nap
    /\ UNCHANGED <<up, active, ready, since, fails, sent, rows, writes, life,
                   minted, crashes>>

\* TryLock and the cooldown.
Begin(r) ==
    /\ work[r].at = "called"
    /\ IF held # NoOne \/ since < Cool(fails)
       THEN Returns(r, active) /\ UNCHANGED held
       ELSE /\ held' = r
            /\ work' = [work EXCEPT ![r].at = "mint"]
            /\ UNCHANGED nap
    /\ UNCHANGED <<up, active, ready, since, fails, sent, rows, writes, life,
                   minted, crashes>>

\* Mutant: the failure path keeps refreshMu.
MintFailsHeld(r) ==
    /\ work[r].at = "mint"
    /\ fails' = IF fails < MaxFails THEN fails + 1 ELSE MaxFails
    /\ Returns(r, active)
    /\ UNCHANGED <<up, active, ready, since, held, sent, rows, writes, life,
                   minted, crashes>>

\* Authenticate gives up after its five attempts.
MintFails(r) ==
    /\ work[r].at = "mint"
    /\ fails' = IF fails < MaxFails THEN fails + 1 ELSE MaxFails
    /\ held' = NoOne
    /\ Returns(r, active)
    /\ UNCHANGED <<up, active, ready, since, sent, rows, writes, life, minted,
                   crashes>>

FreshRow(t) == [token |-> t, budget |-> Budget(Cap, 0)]

\* Authenticate answers a new token, and Upsert writes it: the statement
\* names no id, so it always inserts.  An error of Upsert is only logged.
Mint(r) ==
    LET t == minted + 1 IN
    /\ work[r].at = "mint" /\ minted < MaxMints
    /\ minted' = t
    /\ life' = [life EXCEPT ![t] = Life]
    /\ \/ rows' = Append(rows, FreshRow(t))
       \/ DbErrors /\ rows' = rows
    /\ work' = [work EXCEPT ![r] =
          [at |-> "stored", token |-> t,
           id |-> IF active = NoToken THEN 0 ELSE active.id, age |-> 0]]
    /\ UNCHANGED <<up, active, ready, since, fails, held, nap, sent, writes,
                   crashes>>

\* The window and the cooldown both run from the date.
Installed(t, id, age) ==
    Managed(t, id, Budget(Cap, IF age < Window THEN Window - age ELSE 0), Budget(Cap, 0))

\* The rest of installToken, under p.mu.
Install(r) ==
    LET a == Installed(work[r].token, work[r].id, work[r].age) IN
    /\ work[r].at = "stored"
    /\ active' = a /\ ready' = TRUE
    /\ since' = (IF work[r].age < MaxCool THEN work[r].age ELSE MaxCool) /\ fails' = 0
    /\ held' = NoOne
    /\ Returns(r, a)
    /\ UNCHANGED <<up, sent, rows, writes, life, minted, crashes>>

-----------------------------------------------------------------------------
(* Requests.                                                                *)

\* "go p.store.UpdateToken(&snapshot)": UPDATE ... WHERE id, which for a token
\* this process installed without an id (0) touches no row.
Persisted(a) ==
    IF a.id \in DOMAIN rows
    THEN writes \union {[id |-> a.id, row |-> [token |-> a.token, budget |-> a.stored]]}
    ELSE writes

Replenished(a) ==
    [a EXCEPT !.now = Budget(Cap, Window), !.stored = Budget(Cap, Window)]

\* Token() and the request it lets out.
Ask(c) ==
    /\ up /\ sent[c] = Unsent
    /\ IF active = NoToken \/ Expired
       THEN work' = Kicked(work) /\ UNCHANGED <<active, writes, sent>>
       ELSE LET a == IF active.now.window = 0 THEN Replenished(active) ELSE active
            IN /\ active' = a
               /\ writes' = IF a = active THEN writes ELSE Persisted(a)
               /\ sent' = IF a.now.left = 0 THEN sent
                          ELSE [sent EXCEPT ![c] = [token |-> a.token, id |-> a.id]]
               /\ UNCHANGED work
    /\ UNCHANGED <<up, ready, since, fails, held, nap, rows, life, minted,
                   crashes>>

\* The budget a response leaves: its headers, if it has them.
Noted(a, headers) ==
    IF headers = {} THEN a
    ELSE LET b == CHOOSE h \in headers : TRUE
         IN [a EXCEPT !.now = b, !.stored = b]

\* OnRequestComplete with the headers of a response, then NotifyUnauthorized
\* for a 401.
Complete(c, headers, refused) ==
    LET own == active # NoToken /\ active.id = sent[c].id
        a   == Noted(active, headers)
        low == own /\ a.now.left < Low
        one == IF low THEN Kicked(work) ELSE work
    IN /\ sent[c] # Unsent
       /\ sent' = [sent EXCEPT ![c] = Unsent]
       /\ active' = IF own THEN a ELSE active
       /\ writes' = IF own THEN Persisted(a) ELSE writes
       /\ work' = IF refused THEN Kicked(one) ELSE one
       /\ UNCHANGED <<up, ready, since, fails, held, nap, rows, life, minted,
                      crashes>>

\* No response, after one more try: the holder hears nothing of it.
Dropped(c) ==
    /\ sent[c] # Unsent
    /\ sent' = [sent EXCEPT ![c] = Unsent]
    /\ UNCHANGED <<up, active, ready, since, fails, held, work, nap, rows, writes,
                   life, minted, crashes>>

\* A snapshot reaches the table, or its UPDATE fails; in any order.
Write(w) ==
    /\ w \in writes
    /\ writes' = writes \ {w}
    /\ \/ rows' = [rows EXCEPT ![w.id] = w.row]
       \/ DbErrors /\ rows' = rows
    /\ UNCHANGED <<up, active, ready, since, fails, held, work, nap, sent, life,
                   minted, crashes>>

-----------------------------------------------------------------------------
(* Crash and start.                                                         *)

Crash ==
    /\ up /\ crashes < MaxCrashes
    /\ crashes' = crashes + 1
    /\ up' = FALSE /\ active' = NoToken /\ ready' = FALSE
    /\ since' = MaxCool /\ fails' = 0
    /\ held' = NoOne /\ work' = [r \in Refreshers |-> Resting] /\ nap' = 0
    /\ sent' = [c \in Callers |-> Unsent] /\ writes' = {}
    /\ UNCHANGED <<rows, life, minted>>

\* Start with rows in the table: the first of ListEnabled, which sorts by
\* rate_remaining, largest first, and not by expiry.
Restore(i) ==
    LET b == rows[i].budget
        a == Managed(rows[i].token, i,
                     IF b.window > 0 THEN b ELSE Budget(Cap, Window), b)
    IN /\ ~up /\ up' = TRUE
       /\ \A j \in DOMAIN rows : rows[j].budget.left <= b.left
       /\ active' = a /\ ready' = TRUE /\ nap' = Sleep(a, life)
       /\ UNCHANGED <<since, fails, held, work, sent, rows, writes, life, minted,
                      crashes>>

\* Start with an empty table: authenticateFromConfig, which may fail.
StartEmpty ==
    LET t == minted + 1
        l == [life EXCEPT ![t] = Life]
        a == Installed(t, 0, 0)
    IN /\ ~up /\ up' = TRUE /\ rows = <<>>
       /\ \/ /\ minted < MaxMints /\ minted' = t /\ life' = l
             /\ (rows' = Append(rows, FreshRow(t)) \/ (DbErrors /\ rows' = rows))
             /\ active' = a /\ ready' = TRUE /\ since' = 0 /\ nap' = Sleep(a, l)
          \/ /\ nap' = Idle
             /\ UNCHANGED <<active, ready, since, rows, life, minted>>
       /\ UNCHANGED <<fails, held, work, sent, writes, crashes>>

-----------------------------------------------------------------------------
Answers == {{}} \union {{b} : b \in Budgets}

RefreshStep == \E r \in Refreshers : Begin(r) \/ MintFails(r) \/ Mint(r) \/ Install(r)

RequestStep ==
    \E c \in Callers :
        \/ Ask(c) \/ Dropped(c)
        \/ \E headers \in Answers, refused \in BOOLEAN : Complete(c, headers, refused)

Next ==
    \/ Tick \/ LoopWakes \/ RefreshStep \/ RequestStep
    \/ \E w \in writes : Write(w)
    \/ Crash \/ StartEmpty \/ \E i \in DOMAIN rows : Restore(i)

Spec == Init /\ [][Next]_vars

\* A started process runs its loop, a request under way ends, and the upstream
\* does not refuse every mint for ever (an assumption about the upstream).
Fairness ==
    /\ WF_vars(Tick) /\ WF_vars(LoopWakes)
    /\ WF_vars(StartEmpty \/ \E i \in DOMAIN rows : Restore(i))
    /\ \A r \in Refreshers : /\ WF_vars(Begin(r)) /\ WF_vars(MintFails(r) \/ Mint(r))
                             /\ SF_vars(Mint(r)) /\ WF_vars(Install(r))
    /\ \A c \in Callers : WF_vars(Dropped(c) \/
           \E h \in Answers, x \in BOOLEAN : Complete(c, h, x))

FairSpec == Spec /\ Fairness

-----------------------------------------------------------------------------
(* What holds.                                                              *)

\* A refresher that passed TryLock and the cooldown holds refreshMu until it
\* is done, it is the only one, and the token it carries is the newest there is
\* (forceRefresh, installToken).
Minting(r) == work[r].at \in {"mint", "stored"}

RefreshInv ==
    /\ \A r \in Refreshers : Minting(r) <=> held = r
    /\ \A r \in Refreshers : work[r].at = "stored" =>
          work[r].token = minted /\ minted > 0 /\ (active # NoToken => active.token < minted)
    /\ active # NoToken => active.token \in 1..minted
    /\ Len(rows) <= minted
    /\ \A i \in DOMAIN rows : rows[i].token \in 1..minted
    /\ \A w \in writes : w.row.token \in 1..minted
    /\ held # NoOne => since >= Flat
    /\ ~up => /\ active = NoToken
              /\ \A r \in Refreshers : work[r].at = "idle"
              /\ \A c \in Callers : sent[c] = Unsent

\* A running process never goes back to an older token: the installs of two
\* refreshers cannot cross, whoever kicked them off.
NewestWins ==
    [][active # NoToken /\ active' # NoToken => active'.token >= active.token]_vars

\* An install of a process comes at least refreshCooldown after the date of the
\* one before it, even when many refreshers were kicked off before that.
InstallsSpaced ==
    [][(active' # NoToken /\ up /\ (active = NoToken \/ active'.token # active.token))
           => since >= Flat]_vars

\* The installs of a process follow one another in the order of their mints and
\* with the cooldown after the last one's date (doRefresh, refreshMu and
\* refreshCooldown): a slow Upsert moves no install before its turn.
InstallsInTurn ==
    [][/\ active # NoToken /\ active' # NoToken => active'.token >= active.token
       /\ (active' # NoToken /\ up /\ (active = NoToken \/ active'.token # active.token))
              => since >= Flat]_vars

\* WaitForToken and TokenInstalled: the signal is given exactly when a token is
\* installed, and never taken back while the process runs; L1 blocks the one
\* dispatch loop on it.
ReadyMeansToken == ready <=> active # NoToken

\* A holder that cannot serve becomes able to: the loop, the cooldown, the
\* backoff and the lock never block the recovery for good.
Recovers == []<>(Usable \/ minted = MaxMints)
=============================================================================
