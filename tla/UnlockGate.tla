----------------------------- MODULE UnlockGate -----------------------------
(***************************************************************************)
(* The gate before the settings pages (handler/auth.go, totp/totp.go,       *)
(* store/totp.go, store/trusted_device.go): enrolment of an authenticator,  *)
(* codes, lock-outs, sessions and trusted browsers, for an owner with a few *)
(* browsers, typing errors, replies that are lost, stops of the process and *)
(* the administrator's reset.                                               *)
(*                                                                          *)
(* The stored secret is "held" by the authenticator or "new" to it.  A code *)
(* is the window it belongs to, counted from the current one (-1, 0 and 1   *)
(* are accepted), and the blanks it was typed with: they count for nothing  *)
(* when the code is verified, and tell it apart when it is marked.          *)
(* Lock-outs and bans end at some time.                                     *)
(***************************************************************************)
EXTENDS Integers, FiniteSets, NoneValue

CONSTANTS UGTabs,       \* the owner's browsers
          UGAddrs, UGFamily,   \* their addresses, and the family of each
          UGSlots,      \* maxTrustedDevices (3)
          UGTries, UGAllTries,   \* maxAttempts (3), globalMaxAttempts (10)
          UGStrikes,    \* trustMaxFailures (3)
          UGSkew,       \* windows around the current one (1)
          UGPads, UGPlain,   \* the blanks a code is typed with; none of them
          UGTypos, UGOthers, UGFaults    \* bounds: wrong codes, others' and moves, faults

Skews == -UGSkew .. UGSkew
Typed == [win : Skews, pad : UGPads]
ASSUME UGAssumption == UGAddrs # {} /\ UGSkew \in Nat /\ UGPlain \in UGPads /\ None \notin Typed

VARIABLES ugSecret, ugConfirmed,   \* the rows of TOTPStore
          ugRows,     \* trusted_devices: token -> [ips, live]
          ugUsed,     \* usedCodes: windows the mark of each typed code has to live
          ugTry,      \* tries: per address [n, lock]
          ugAll,      \* the instance-wide count [n, lock]
          ugTrust,    \* the tripwire [n, lock]
          ugTab,      \* a browser: its form, its request, what it holds
          ugWipe,     \* --reset-totp has not revoked the devices yet
          ugMinted,   \* credentials minted for each typed code; only the property reads it
          ugLeft
ugVars == <<ugSecret, ugConfirmed, ugRows, ugUsed, ugTry, ugAll, ugTrust, ugTab, ugWipe,
            ugMinted, ugLeft>>
db == <<ugSecret, ugConfirmed, ugRows, ugWipe>>
codes == <<ugUsed, ugMinted>>
counts == <<ugTry, ugAll, ugTrust>>

Tokens == 1 .. UGSlots + 2 * Cardinality(UGTabs)
NoCodes == [c \in Typed |-> 0]
Calm == [n |-> 0, lock |-> FALSE]
NewTab(a) == [form |-> None, at |-> "idle", ack |-> FALSE, session |-> None, cookie |-> None,
           code |-> None, mine |-> FALSE, rotates |-> FALSE, addr |-> a, in |-> FALSE]

Forms == {None, "ack", "secret", "rotate", "enroll", "totp"}
Steps == {"idle", "unmark", "write", "revoke", "show", "mark", "issue", "create"}
TabType == [form : Forms, at : Steps, ack : BOOLEAN, session : UGAddrs \cup {None},
            cookie : Tokens \cup {None}, code : Typed \cup {None}, mine : BOOLEAN,
            rotates : BOOLEAN, addr : UGAddrs, in : BOOLEAN]
UGTypeOK ==
  /\ ugSecret \in {None, "new", "held"} /\ ugConfirmed \in BOOLEAN /\ ugWipe \in BOOLEAN
  /\ DOMAIN ugRows \subseteq Tokens
  /\ ugUsed \in [Typed -> 0 .. 2 * UGSkew + 1] /\ ugMinted \in [Typed -> 0 .. 2]
  /\ ugTab \in [UGTabs -> TabType]
  /\ \A a \in UGAddrs : ugTry[a].n \in 0 .. UGTries - 1

UGInit ==
  /\ ugSecret = None /\ ugConfirmed = FALSE /\ ugWipe = FALSE
  /\ ugRows = [k \in {} |-> None] /\ ugUsed = NoCodes /\ ugMinted = NoCodes
  /\ ugTry = [a \in UGAddrs |-> Calm] /\ ugAll = Calm /\ ugTrust = Calm
  /\ ugTab = [t \in UGTabs |-> NewTab(CHOOSE a \in UGAddrs : TRUE)]
  /\ ugLeft = [typos |-> UGTypos, others |-> UGOthers, faults |-> UGFaults]

T(t) == ugTab[t]
Sets(t, r) == ugTab' = [ugTab EXCEPT ![t] = r]
Spend(what) == ugLeft[what] > 0 /\ ugLeft' = [ugLeft EXCEPT ![what] = @ - 1]
Without(f, keys) == [k \in DOMAIN f \ keys |-> f[k]]
Live == {k \in DOMAIN ugRows : ugRows[k].live}
Locked(a) == ugAll.lock \/ ugTry[a].lock

-----------------------------------------------------------------------------
(* registerFailure: the instance's count first, which then hides the        *)
(* address's.                                                               *)
Failure(a) ==
  IF ugAll.n + 1 >= UGAllTries
  THEN ugAll' = [n |-> 0, lock |-> TRUE] /\ UNCHANGED ugTry
  ELSE /\ ugAll' = [ugAll EXCEPT !.n = @ + 1]
       /\ ugTry' = [ugTry EXCEPT ![a] = IF @.n + 1 >= UGTries THEN [n |-> 0, lock |-> TRUE]
                                        ELSE [@ EXCEPT !.n = @ + 1]]
Trips(a) == ugAll.n + 1 >= UGAllTries \/ ugTry[a].n + 1 >= UGTries
ResetAttempts(a) == ugTry' = [ugTry EXCEPT ![a] = Calm] /\ UNCHANGED <<ugAll, ugTrust>>

\* Mutant: the mark lives for one window.
ConsumeBriefly(c) == ugUsed' = [ugUsed EXCEPT ![c] = 1]
(* consumeCode, when the code is right and not marked: the mark is on the   *)
(* code as it was typed, although Verify reads it without its blanks.       *)
Consume(c) == ugUsed' = [ugUsed EXCEPT ![c] = 2 * UGSkew + 1]
Verifies == ugSecret = "held"
Replay(c) == ugUsed[c] > 0

\* Mutant: whatever is stored counts as enrolled.
RealStageEnrolled == IF ugSecret = None THEN "secret" ELSE "totp"
(* realStage, when the rows can be read. *)
RealStage == IF ugSecret = None THEN "secret" ELSE IF ~ugConfirmed THEN "enroll" ELSE "totp"
(* currentStage: the warning comes before whatever shows or asks a secret.  *)
CurrentStage(t, stage) == IF stage \in {"secret", "enroll"} /\ ~T(t).ack THEN "ack" ELSE stage
(* renderAuthPage: a form that asks for the server's secret asks for a code *)
(* too when something is enrolled.                                          *)
Page(stage) == IF stage = "secret" /\ ugSecret # None THEN "rotate" ELSE stage
(* An enrolment page shows the stored secret, and the owner takes it in.    *)
Seen(form) == IF form = "enroll" /\ ugSecret # None THEN "held" ELSE ugSecret

-----------------------------------------------------------------------------
(* TrustedDeviceStore.Check: one statement. *)
Bound(k, a) == \/ a \in ugRows[k].ips
               \/ \E b \in ugRows[k].ips : ugRows[k].ips = {b} /\ UGFamily[b] # UGFamily[a]
Check(k, a) ==
  CASE k \in Live /\ Bound(k, a) -> "valid"
    [] k \in DOMAIN ugRows \ Live -> "expired"
    [] OTHER -> "absent"
Checked(k, a) ==
  ugRows' = CASE Check(k, a) = "valid" -> [ugRows EXCEPT ![k].ips = @ \cup {a}]
              [] Check(k, a) = "expired" -> Without(ugRows, {k})
              [] OTHER -> ugRows
(* registerTrustFailure *)
TrustFailure == ugTrust' = [n |-> ugTrust.n + 1, lock |-> ugTrust.lock \/ ugTrust.n + 1 >= UGStrikes]

(* requireSettingsAuth: a session, a trusted browser, or the gate.  A read  *)
(* that fails shows the server-secret form.                                 *)
Gate(t) ==
  \E stage \in {RealStage} \cup {s \in {"secret"} : ugLeft.faults > 0} :
    LET form == IF Locked(T(t).addr) THEN None ELSE Page(CurrentStage(t, stage)) IN
    /\ Sets(t, [T(t) EXCEPT !.form = form, !.in = FALSE])
    /\ ugSecret' = Seen(form)
    /\ IF stage = RealStage THEN UNCHANGED ugLeft ELSE Spend("faults")
    /\ UNCHANGED <<ugConfirmed, ugWipe, codes, ugTry, ugAll>>
Get(t) ==
  /\ T(t).at = "idle" /\ ~T(t).in
  /\ \/ /\ T(t).session = T(t).addr
        /\ Sets(t, [T(t) EXCEPT !.in = TRUE, !.form = None])
        /\ UNCHANGED <<db, codes, counts, ugLeft>>
     \/ /\ T(t).session # T(t).addr /\ T(t).cookie # None /\ ~ugTrust.lock
        /\ Checked(T(t).cookie, T(t).addr)
        /\ IF Check(T(t).cookie, T(t).addr) = "valid"
           THEN /\ Sets(t, [T(t) EXCEPT !.in = TRUE, !.form = None])
                /\ UNCHANGED <<ugSecret, ugConfirmed, ugWipe, codes, counts, ugLeft>>
           ELSE TrustFailure /\ Gate(t)
     \/ /\ T(t).session # T(t).addr /\ (T(t).cookie = None \/ ugTrust.lock)
        /\ Gate(t) /\ UNCHANGED <<ugRows, ugTrust>>

-----------------------------------------------------------------------------
(* handleAuthPost, stage by stage; nothing is read of a form while locked.  *)
Posts(t, forms) == T(t).at = "idle" /\ T(t).form \in forms /\ ~Locked(T(t).addr)
Next_(t, form) == Sets(t, [T(t) EXCEPT !.form = form])

Ack(t) ==
  /\ Posts(t, {"ack"})
  /\ Sets(t, [T(t) EXCEPT !.ack = TRUE, !.form = None])
  /\ UNCHANGED <<db, codes, counts, ugLeft>>
(* The browser reaches the server from another address. *)
Moves(t) ==
  /\ T(t).at = "idle" /\ \E a \in UGAddrs \ {T(t).addr} : Sets(t, [T(t) EXCEPT !.addr = a, !.in = FALSE])
  /\ Spend("others") /\ UNCHANGED <<db, codes, counts>>
AckLapses(t) ==
  /\ T(t).ack /\ Sets(t, [T(t) EXCEPT !.ack = FALSE])
  /\ Spend("faults") /\ UNCHANGED <<db, codes, counts>>

(* The server's secret: right, and with the current code, trimmed of its    *)
(* blanks, where one is enrolled, or not.                                   *)
Trimmed == {c \in Typed : c.pad = UGPlain}
ServerSecret(t) ==
  /\ Posts(t, {"secret", "rotate"})
  /\ \/ /\ ugSecret = None
        /\ Sets(t, [T(t) EXCEPT !.at = "unmark", !.rotates = FALSE])
        /\ UNCHANGED <<db, codes, counts, ugLeft>>
     \/ /\ ugSecret # None /\ T(t).form = "secret"
        /\ Next_(t, "rotate") /\ UNCHANGED <<db, codes, counts, ugLeft>>
     \/ \E c \in Trimmed :
        /\ ugSecret # None /\ T(t).form = "rotate" /\ Verifies /\ ~Replay(c)
        /\ Consume(c) /\ UNCHANGED ugMinted
        /\ Sets(t, [T(t) EXCEPT !.at = "unmark", !.rotates = TRUE])
        /\ UNCHANGED <<db, counts, ugLeft>>
     \/ /\ \/ Spend("typos")
           \/ ugSecret # None /\ T(t).form = "rotate"
              /\ (~Verifies \/ \E c \in Trimmed : Replay(c)) /\ UNCHANGED ugLeft
        /\ Failure(T(t).addr)
        /\ Next_(t, IF Trips(T(t).addr) THEN None ELSE Page("secret"))
        /\ UNCHANGED <<db, codes, ugTrust>>
     \/ /\ Spend("faults") /\ Next_(t, None) /\ UNCHANGED <<db, codes, counts>>

(* SetSecret: the marker goes before the secret comes; then the devices of  *)
(* the old one, and the page with the new one.                              *)
Unmark(t) ==
  /\ T(t).at = "unmark"
  /\ \/ ugConfirmed' = FALSE /\ Sets(t, [T(t) EXCEPT !.at = "write"]) /\ UNCHANGED ugLeft
     \/ Spend("faults") /\ Sets(t, [T(t) EXCEPT !.at = "idle", !.form = None]) /\ UNCHANGED ugConfirmed
  /\ UNCHANGED <<ugSecret, ugRows, ugWipe, codes, counts>>
Write(t) ==
  /\ T(t).at = "write"
  /\ \/ /\ ugSecret' = "new" /\ ugUsed' = NoCodes /\ ugMinted' = NoCodes
        /\ ugTab' = [x \in UGTabs |-> IF x = t THEN [T(t) EXCEPT !.at = "revoke", !.mine = TRUE]
                                      ELSE [ugTab[x] EXCEPT !.mine = FALSE, !.code = None]]
        /\ UNCHANGED ugLeft
     \/ /\ Spend("faults") /\ Sets(t, [T(t) EXCEPT !.at = "idle", !.form = None])
        /\ UNCHANGED <<ugSecret, codes>>
  /\ UNCHANGED <<ugConfirmed, ugRows, ugWipe, counts>>
RevokeAll(t) ==
  /\ T(t).at = "revoke" /\ Sets(t, [T(t) EXCEPT !.at = "show"])
  /\ \/ T(t).rotates /\ ugRows' = Without(ugRows, DOMAIN ugRows) /\ UNCHANGED ugLeft
     \/ T(t).rotates /\ Spend("faults") /\ UNCHANGED ugRows
     \/ ~T(t).rotates /\ UNCHANGED <<ugRows, ugLeft>>
  /\ UNCHANGED <<ugSecret, ugConfirmed, ugWipe, codes, counts>>
ShowQR(t) ==
  /\ T(t).at = "show" /\ ResetAttempts(T(t).addr)
  /\ \/ /\ ugSecret' = (IF T(t).mine /\ ugSecret = "new" THEN "held" ELSE ugSecret)
        /\ Sets(t, [T(t) EXCEPT !.at = "idle", !.form = "enroll", !.mine = FALSE, !.rotates = FALSE]) /\ UNCHANGED ugLeft
     \/ /\ Spend("faults")   \* the reply is lost
        /\ Sets(t, [T(t) EXCEPT !.at = "idle", !.form = None]) /\ UNCHANGED ugSecret
  /\ UNCHANGED <<ugConfirmed, ugRows, ugWipe, codes>>

(* A code, at enrolment or later.  The third wrong one of an enrolment      *)
(* undoes it.                                                               *)
Code(t) ==
  /\ Posts(t, {"enroll", "totp"}) /\ UNCHANGED <<ugRows, ugWipe, ugMinted>>
  /\ \/ /\ ugSecret = None
        /\ Next_(t, IF T(t).form = "totp" THEN "secret" ELSE None)
        /\ UNCHANGED <<ugSecret, ugConfirmed, ugUsed, counts, ugLeft>>
     \/ \E c \in Typed :
        /\ Verifies
        /\ IF Replay(c)
           THEN Next_(t, None) /\ UNCHANGED <<ugUsed, ugTry>>
           ELSE /\ Consume(c) /\ ugTry' = [ugTry EXCEPT ![T(t).addr] = Calm]
                /\ Sets(t, [T(t) EXCEPT !.at = IF T(t).form = "enroll" THEN "mark" ELSE "issue",
                                        !.code = c])
        /\ UNCHANGED <<ugSecret, ugConfirmed, ugAll, ugTrust, ugLeft>>
     \/ /\ \/ ugSecret # None /\ Spend("typos")
           \/ ugSecret = "new" /\ UNCHANGED ugLeft
        /\ Failure(T(t).addr) /\ UNCHANGED <<ugUsed, ugTrust>>
        /\ IF Trips(T(t).addr)
           THEN /\ Next_(t, None)
                /\ IF T(t).form = "enroll" THEN ugSecret' = None /\ ugConfirmed' = FALSE
                   ELSE UNCHANGED <<ugSecret, ugConfirmed>>
           ELSE UNCHANGED <<ugTab, ugConfirmed>> /\ ugSecret' = Seen(T(t).form)
(* MarkConfirmed; an error is only logged. *)
MarkConfirmed(t) ==
  /\ T(t).at = "mark" /\ Sets(t, [T(t) EXCEPT !.at = "issue"])
  /\ \/ ugConfirmed' = TRUE /\ UNCHANGED ugLeft
     \/ Spend("faults") /\ UNCHANGED ugConfirmed
  /\ UNCHANGED <<ugSecret, ugRows, ugWipe, codes, counts>>

Minted(t) == ugMinted' = IF T(t).code = None THEN ugMinted
                         ELSE [ugMinted EXCEPT ![T(t).code] = IF @ < 2 THEN @ + 1 ELSE @]
(* redirectAfterUnlock: one credential, a trusted one if it is asked for    *)
(* and there is room (issueTrustedDevice counts, reaps, then inserts).      *)
Session(t) == [T(t) EXCEPT !.at = "idle", !.form = None, !.session = T(t).addr, !.code = None]
Issue(t) ==
  /\ T(t).at = "issue" /\ UNCHANGED <<ugSecret, ugConfirmed, ugWipe, ugUsed, counts, ugLeft>>
  /\ \/ Sets(t, Session(t)) /\ Minted(t) /\ UNCHANGED ugRows
     \/ /\ ~ugTrust.lock /\ Cardinality(Live) < UGSlots
        /\ ugRows' = Without(ugRows, DOMAIN ugRows \ Live)
        /\ Sets(t, [T(t) EXCEPT !.at = "create"]) /\ UNCHANGED ugMinted
Unheld == {x \in Tokens \ DOMAIN ugRows : \A y \in UGTabs : T(y).cookie # x}
Create(t) ==
  /\ T(t).at = "create"
  /\ \/ /\ Unheld # {}   \* a token is random: it is always a new one
        /\ LET k == CHOOSE x \in Unheld : TRUE IN
             /\ ugRows' = [x \in DOMAIN ugRows \cup {k} |->
                             IF x = k THEN [ips |-> {T(t).addr}, live |-> TRUE] ELSE ugRows[x]]
             /\ Sets(t, [T(t) EXCEPT !.at = "idle", !.form = None, !.cookie = k, !.code = None])
        /\ UNCHANGED ugLeft
     \/ Spend("faults") /\ Sets(t, Session(t)) /\ UNCHANGED ugRows
  /\ Minted(t)
  /\ UNCHANGED <<ugSecret, ugConfirmed, ugWipe, ugUsed, counts>>

-----------------------------------------------------------------------------
(* logout *)
LoggedOut(t) == [T(t) EXCEPT !.session = None, !.cookie = None, !.in = FALSE]
(* handleTrustedRevoke: of another browser, or of this one, which is then   *)
(* logged out.                                                              *)
Revoke(t, k) ==
  /\ T(t).in /\ T(t).at = "idle" /\ k \in DOMAIN ugRows
  /\ ugRows' = Without(ugRows, {k})
  /\ Sets(t, IF T(t).cookie = k THEN LoggedOut(t)
             ELSE [T(t) EXCEPT !.in = FALSE])
  /\ UNCHANGED <<ugSecret, ugConfirmed, ugWipe, codes, counts, ugLeft>>
(* A session ends after minutes, a trusted browser after a month unused,    *)
(* and the browser may forget the cookie with it.                           *)
SessionEnds(t) ==
  /\ T(t).at = "idle" /\ T(t).in
  /\ Sets(t, [T(t) EXCEPT !.in = FALSE, !.session = None])
  /\ UNCHANGED <<db, codes, counts, ugLeft>>
Lapses(k) ==
  /\ k \in Live /\ \A t \in UGTabs : T(t).cookie = k => T(t).in
  /\ ugRows' = [ugRows EXCEPT ![k].live = FALSE]
  /\ \E forget \in BOOLEAN :
       ugTab' = [t \in UGTabs |-> IF T(t).cookie # k THEN T(t)
                                  ELSE [T(t) EXCEPT !.cookie = IF forget THEN None ELSE k, !.in = FALSE]]
  /\ UNCHANGED <<ugSecret, ugConfirmed, ugWipe, codes, counts, ugLeft>>
Sweep ==
  /\ Live # DOMAIN ugRows /\ ugRows' = Without(ugRows, DOMAIN ugRows \ Live)
  /\ UNCHANGED <<ugSecret, ugConfirmed, ugWipe, codes, counts, ugTab, ugLeft>>

(* The next window of the codes. *)
Newer(c) == [c EXCEPT !.win = @ + 1]
Older(c) == [c EXCEPT !.win = @ - 1]
Tick ==
  /\ \E t \in UGTabs : ~T(t).in
  /\ ugUsed' = [c \in Typed |-> IF c.win = UGSkew \/ ugUsed[Newer(c)] = 0 THEN 0
                                 ELSE ugUsed[Newer(c)] - 1]
  /\ ugMinted' = [c \in Typed |-> IF c.win = UGSkew THEN 0 ELSE ugMinted[Newer(c)]]
  /\ ugTab' = [t \in UGTabs |-> IF T(t).code = None THEN T(t)
                ELSE [T(t) EXCEPT !.code = IF @.win = -UGSkew THEN None ELSE Older(@)]]
  /\ UNCHANGED <<db, counts, ugLeft>>
Cools(a) == /\ ugTry[a] # Calm /\ ugTry' = [ugTry EXCEPT ![a] = Calm]
            /\ UNCHANGED <<db, codes, ugAll, ugTrust, ugTab, ugLeft>>
AllCool == /\ ugAll # Calm /\ ugAll' = Calm
           /\ UNCHANGED <<db, codes, ugTry, ugTrust, ugTab, ugLeft>>
TrustCools == /\ ugTrust # Calm /\ ugTrust' = Calm
              /\ UNCHANGED <<db, codes, ugTry, ugAll, ugTab, ugLeft>>
(* Someone else fails. *)
Other ==
  /\ Spend("others") /\ ~ugAll.lock
  /\ ugAll' = (IF ugAll.n + 1 >= UGAllTries THEN [n |-> 0, lock |-> TRUE] ELSE [ugAll EXCEPT !.n = @ + 1])
  /\ UNCHANGED <<db, codes, ugTry, ugTrust, ugTab>>

Stop ==
  /\ Spend("faults")
  /\ ugUsed' = NoCodes /\ ugMinted' = NoCodes
  /\ ugTry' = [a \in UGAddrs |-> Calm] /\ ugAll' = Calm /\ ugTrust' = Calm
  /\ ugTab' = [t \in UGTabs |-> [T(t) EXCEPT !.at = "idle", !.session = None, !.code = None,
                 !.form = IF T(t).at = "idle" THEN @ ELSE None, !.in = FALSE]]
  /\ UNCHANGED db
(* redmemo --reset-totp: the enrolment, then the devices. *)
ResetTOTP ==
  /\ Spend("faults") /\ ~ugWipe
  /\ ugSecret' = None /\ ugConfirmed' = FALSE /\ ugWipe' = TRUE
  /\ UNCHANGED <<ugRows, codes, counts, ugTab>>
WipeDevices ==
  /\ ugWipe /\ ugWipe' = FALSE /\ ugRows' = Without(ugRows, DOMAIN ugRows)
  /\ UNCHANGED <<ugSecret, ugConfirmed, codes, counts, ugTab, ugLeft>>

Answers(t) == Unmark(t) \/ Write(t) \/ RevokeAll(t) \/ ShowQR(t) \/ MarkConfirmed(t) \/ Issue(t) \/ Create(t)
Visits(t) == Get(t)
Fills(t) == Ack(t) \/ ServerSecret(t) \/ Code(t)
UGNext ==
  \/ \E t \in UGTabs : \/ Visits(t) \/ Fills(t) \/ Answers(t)
                       \/ AckLapses(t) \/ Moves(t) \/ SessionEnds(t) \/ \E k \in Tokens : Revoke(t, k)
  \/ \E k \in Tokens : Lapses(k)
  \/ \E a \in UGAddrs : Cools(a)
  \/ Sweep \/ Tick \/ AllCool \/ TrustCools \/ Other \/ Stop \/ ResetTOTP \/ WipeDevices
(* Requests end, the owner visits and fills in what is shown, time passes.  *)
UGFair == /\ \A t \in UGTabs : WF_ugVars(Answers(t)) /\ SF_ugVars(Visits(t)) /\ SF_ugVars(Fills(t))
          /\ \A a \in UGAddrs : WF_ugVars(Cools(a))
          /\ WF_ugVars(Tick) /\ WF_ugVars(AllCool) /\ WF_ugVars(WipeDevices)
UGSpec == UGInit /\ [][UGNext]_ugVars
UGFairSpec == UGSpec /\ UGFair

-----------------------------------------------------------------------------
(* A code, as it was typed, opens the gate once in a run of the process,    *)
(* however many requests bring it at once and however its window is skewed  *)
(* (handler/auth.go consumeCode, "Atomicity matters").  The same six digits *)
(* with a blank after them are another code to the mark, not to Verify, and *)
(* open it once more.                                                       *)
OneUnlockPerCode == \A c \in Typed : ugMinted[c] <= 1

(* What every step keeps: a code that has opened the gate, or is about to   *)
(* in one browser, is marked for as long as its window is accepted.         *)
Spending == {"mark", "issue", "create"}
CodesMarked ==
  /\ ugUsed \in [Typed -> 0 .. 2 * UGSkew + 1] /\ ugMinted \in [Typed -> 0 .. 2]
  /\ ugTab \in [UGTabs -> TabType]
  /\ \A t \in UGTabs : T(t).code # None => T(t).at \in Spending
  /\ \A t, u \in UGTabs : T(t).code # None /\ T(u).code = T(t).code => t = u
  /\ \A c \in Typed : /\ ugMinted[c] <= 1
                      /\ ugMinted[c] > 0 => \A t \in UGTabs : T(t).code # c
                      /\ (ugMinted[c] > 0 \/ \E t \in UGTabs : T(t).code = c)
                           => ugUsed[c] >= c.win + UGSkew + 1

(* The owner always gets in again: a lost reply after the secret was        *)
(* stored, a stop between the marker and the secret, three typing errors    *)
(* that undo an enrolment, a lock-out others caused, a revoked or lapsed    *)
(* browser, a reset: none strands someone who has the server's secret and   *)
(* the authenticator (handler/auth.go realStage, store/totp.go SetSecret).  *)
OwnerGetsIn == \A t \in UGTabs : []<>(ugTab[t].in)
=============================================================================
