------------------------------ MODULE Settings ------------------------------
(***************************************************************************)
(* The table site_settings, what a start makes of it and what a save of    *)
(* the settings page does to it (handler/settings.go, store/settings.go,   *)
(* legacy/sync.go, cmd/redmemo/main.go).                                   *)
(*                                                                         *)
(* "managed" stands for a key that the operator's environment and the user *)
(* both vote on: each vote is a hidden row with the time it was cast, and  *)
(* the latest wins.  "plain" stands for every other key, where the         *)
(* environment always wins and an old instance may be copied from.  Times  *)
(* are the readings of one clock that does not run backwards.              *)
(***************************************************************************)
EXTENDS Integers, FiniteSets

CONSTANTS
  STSavers,   \* browsers with the settings page open
  STValues,   \* values of the managed key
  STPlain,    \* values of the other key: the environment's, the instance's, a user's
  STLimits    \* bounds on boots, saves and failing statements (faults)

Absent == "absent"
ASSUME STAssumption == /\ Absent \notin STValues
                       /\ DOMAIN STPlain = {"env", "legacy", "user"}

STKeys == {"managed", "plain"}
Settable == STValues \cup {Absent}
Choices(who) == [managed : Settable, plain : STPlain[who] \cup {Absent}]

VARIABLES
  stRow,    \* live rows: the value and who wrote it
  stVote,   \* shadow rows _user_managed and _env_managed, with their time
  stEnv,    \* REDMEMO_DEFAULT_* of the running container
  stMem,    \* Handler.siteDefaults
  stControl,\* the archiver's filter, set from the managed key
  stPages,  \* the plain values that pages in the cache were rendered with
  stPhase,  \* step of the start, "up" or "down"
  stSave,   \* what each saver is at
  stClock,  \* the last reading of the clock
  stLeft,   \* what remains of each bound
  stCast,   \* user votes that no later vote supersedes
  stEnded,  \* per saver the votes of saves that had ended when it began
  stOk      \* this start had no failing statement

stVars == <<stRow, stVote, stEnv, stMem, stControl, stPages, stPhase, stSave,
            stClock, stLeft, stCast, stEnded, stOk>>

NoRow == [val |-> Absent, src |-> "none"]
NoVote == [val |-> Absent, at |-> 0]
Vote(v, t) == [val |-> v, at |-> t]
AtRest == [pc |-> "idle", new |-> [managed |-> Absent, plain |-> Absent], at |-> 0]

STInit ==
    /\ stRow = [k \in STKeys |-> NoRow]
    /\ stVote = [s \in {"user", "env"} |-> NoVote]
    /\ stEnv = [k \in STKeys |-> Absent]
    /\ stMem = [k \in STKeys |-> Absent]
    /\ stControl = Absent
    /\ stPages = {}
    /\ stPhase = "down"
    /\ stSave = [s \in STSavers |-> AtRest]
    /\ stClock = 0
    /\ stLeft \in STLimits
    /\ stCast = {}
    /\ stEnded = [s \in STSavers |-> {}]
    /\ stOk = TRUE

STSpend(b) == stLeft' = [stLeft EXCEPT ![b] = @ - 1]

(***************************************************************************)
(* The start.                                                              *)
(***************************************************************************)

\* The container comes up, with the environment the operator gave it.
STBoot ==
    /\ stPhase = "down" /\ stLeft.boots > 0
    /\ stEnv' \in Choices("env")
    /\ stPhase' = "legacy"
    /\ stOk' = TRUE
    /\ STSpend("boots")
    /\ UNCHANGED <<stRow, stVote, stMem, stControl, stPages, stSave, stClock,
                   stCast, stEnded>>

\* SetBatchIfLowerPriority: a row the environment wrote is not overwritten.
Outranked(row, src) == row.src # "env_override" \/ src = "env_override"

\* SyncSettings, FilterByEnv: the old instance answers, or is not configured,
\* or cannot be reached.  It has no managed key.
STLegacy ==
    /\ stPhase = "legacy" /\ stPhase' = "demote"
    /\ \/ UNCHANGED stRow
       \/ /\ stEnv.plain = Absent /\ Outranked(stRow.plain, "legacy_sync")
          /\ \E v \in STPlain["legacy"] :
               stRow' = [stRow EXCEPT !.plain = [val |-> v, src |-> "legacy_sync"]]
    /\ UNCHANGED <<stVote, stEnv, stMem, stControl, stPages, stSave, stClock,
                   stLeft, stCast, stEnded, stOk>>

\* Managed keys are taken out of the environment's batch before this.
DemoteOrphans(row) ==
    IF row.plain.src = "env_override" /\ stEnv.plain = Absent
    THEN [row EXCEPT !.plain.src = "demoted"] ELSE row

STDemote ==
    /\ stPhase = "demote" /\ stPhase' = "override"
    /\ stRow' = DemoteOrphans(stRow)
    /\ UNCHANGED <<stVote, stEnv, stMem, stControl, stPages, stSave, stClock,
                   stLeft, stCast, stEnded, stOk>>

STOverride ==
    /\ stPhase = "override" /\ stPhase' = "stamp"
    /\ stRow' = IF stEnv.plain = Absent THEN stRow
                ELSE [stRow EXCEPT !.plain = [val |-> stEnv.plain, src |-> "env_override"]]
    /\ stClock' = stClock + 1
    /\ UNCHANGED <<stVote, stEnv, stMem, stControl, stPages, stSave, stLeft,
                   stCast, stEnded, stOk>>

\* The first half of ReconcileManagedSettings: a vote that is new or changed
\* is stamped, an unchanged one keeps its time, a withdrawn one is deleted.
EnvVote(old, v, now) ==
    IF v = Absent THEN NoVote
    ELSE IF old.val # v THEN Vote(v, now) ELSE old

STStamp ==
    /\ stPhase = "stamp" /\ stPhase' = "resolve"
    /\ stVote' = [stVote EXCEPT !.env = EnvVote(@, stEnv.managed, stClock)]
    /\ stCast' = IF stEnv.managed \notin {Absent, stVote.env.val} THEN {} ELSE stCast
    /\ UNCHANGED <<stRow, stEnv, stMem, stControl, stPages, stSave, stClock, stLeft,
                   stEnded, stOk>>

ResolveUserFirst(user, env) == IF user.val # Absent THEN user.val ELSE env.val

ResolveLatest(user, env) ==
    IF user.val # Absent /\ env.val # Absent
    THEN IF env.at > user.at THEN env.val ELSE user.val
    ELSE IF user.val # Absent THEN user.val ELSE env.val

\* The second half: the winner becomes the live row.
STResolve ==
    LET eff == ResolveLatest(stVote.user, stVote.env) IN
    /\ stPhase = "resolve" /\ stPhase' = "load"
    /\ stRow' = IF eff \in {Absent, stRow.managed.val} THEN stRow
                ELSE [stRow EXCEPT !.managed = [val |-> eff, src |-> "resolved"]]
    /\ UNCHANGED <<stVote, stEnv, stMem, stControl, stPages, stSave, stClock, stLeft,
                   stCast, stEnded, stOk>>

\* A statement of the start fails: it is logged, the next step runs all the
\* same, and a failing reconcile is given up.
STStartFails ==
    /\ stPhase \in {"demote", "override", "stamp", "resolve"} /\ stLeft.faults > 0
    /\ stPhase' = CASE stPhase = "demote" -> "override"
                    [] stPhase = "override" -> "stamp"
                    [] OTHER -> "load"
    /\ stClock' = IF stPhase = "override" THEN stClock + 1 ELSE stClock
    /\ stOk' = FALSE
    /\ STSpend("faults")
    /\ UNCHANGED <<stRow, stVote, stEnv, stMem, stControl, stPages, stSave, stCast,
                   stEnded>>

\* main seeds the archiver's filter; handler.New reads the table once.
STLoad ==
    /\ stPhase = "load" /\ stPhase' = "up"
    /\ stMem' = [k \in STKeys |-> stRow[k].val]
    /\ stControl' = stRow.managed.val
    /\ UNCHANGED <<stRow, stVote, stEnv, stPages, stSave, stClock, stLeft, stCast,
                   stEnded, stOk>>

\* The process ends, in a start or a save: the pages outlive it in Redis.
STStop ==
    /\ stPhase # "down" /\ stLeft.boots > 0
    /\ stPhase' = "down"
    /\ stMem' = [k \in STKeys |-> Absent]
    /\ stControl' = Absent
    /\ stSave' = [s \in STSavers |-> AtRest]
    /\ UNCHANGED <<stRow, stVote, stEnv, stPages, stClock, stLeft, stCast,
                   stEnded, stOk>>

\* A visitor's page is rendered from the defaults and put into the empty cache.
STView ==
    /\ stPhase = "up" /\ stPages = {}
    /\ stPages' = {stMem.plain}
    /\ UNCHANGED <<stRow, stVote, stEnv, stMem, stControl, stPhase, stSave, stClock,
                   stLeft, stCast, stEnded, stOk>>

(***************************************************************************)
(* A save.                                                                 *)
(***************************************************************************)

\* The user votes only where the form differs from what the process holds.
Changed(s, new) == new.managed # Absent /\ new.managed # stMem.managed

\* handleSettingsSave reads the form and the clock.
STPost(s) ==
    /\ stPhase = "up" /\ stSave[s].pc = "idle" /\ stLeft.saves > 0
    /\ \E new \in Choices("user") :
         /\ \E k \in STKeys : new[k] # Absent
         /\ stSave' = [stSave EXCEPT ![s] =
              [pc |-> IF Changed(s, new) THEN "vote" ELSE "batch",
               new |-> new, at |-> stClock + 1]]
    /\ stClock' = stClock + 1
    /\ stEnded' = [stEnded EXCEPT ![s] =
         {c \in stCast : c.by = s \/ stSave[c.by].pc = "idle"}]
    /\ STSpend("saves")
    /\ UNCHANGED <<stRow, stVote, stEnv, stMem, stControl, stPages, stPhase, stCast,
                   stOk>>

\* The vote of a save replaces those of saves that had ended when it began.
STVote(s) ==
    /\ stSave[s].pc = "vote"
    /\ stVote' = [stVote EXCEPT !.user = Vote(stSave[s].new.managed, stSave[s].at)]
    /\ stCast' = (stCast \ stEnded[s])
                   \cup {[by |-> s, val |-> stSave[s].new.managed, at |-> stSave[s].at]}
    /\ stSave' = [stSave EXCEPT ![s].pc = "batch"]
    /\ UNCHANGED <<stRow, stEnv, stMem, stControl, stPages, stPhase, stClock, stLeft,
                   stEnded, stOk>>

\* A vote that cannot be written is logged and the save goes on.
STVoteLost(s) ==
    /\ stSave[s].pc = "vote" /\ stLeft.faults > 0
    /\ stSave' = [stSave EXCEPT ![s].pc = "batch"]
    /\ STSpend("faults")
    /\ UNCHANGED <<stRow, stVote, stEnv, stMem, stControl, stPages, stPhase, stClock,
                   stCast, stEnded, stOk>>

\* SetBatch is one transaction.
STBatch(s) ==
    /\ stSave[s].pc = "batch"
    /\ stRow' = [k \in STKeys |-> IF stSave[s].new[k] = Absent THEN stRow[k]
                                  ELSE [val |-> stSave[s].new[k], src |-> "user"]]
    /\ stSave' = [stSave EXCEPT ![s].pc = "memory"]
    /\ UNCHANGED <<stVote, stEnv, stMem, stControl, stPages, stPhase, stClock, stLeft,
                   stCast, stEnded, stOk>>

\* It fails: the user is told so, and the vote stays.
STBatchFails(s) ==
    /\ stSave[s].pc = "batch" /\ stLeft.faults > 0
    /\ stSave' = [stSave EXCEPT ![s] = AtRest]
    /\ STSpend("faults")
    /\ UNCHANGED <<stRow, stVote, stEnv, stMem, stControl, stPages, stPhase, stClock,
                   stCast, stEnded, stOk>>

STRemember(s) ==
    /\ stSave[s].pc = "memory"
    /\ stMem' = [k \in STKeys |-> IF stSave[s].new[k] = Absent THEN stMem[k]
                                  ELSE stSave[s].new[k]]
    /\ stSave' = [stSave EXCEPT ![s].pc = "swap"]
    /\ UNCHANGED <<stRow, stVote, stEnv, stControl, stPages, stPhase, stClock, stLeft,
                   stCast, stEnded, stOk>>

\* SetControlFromString, then InvalidateAllHTML and the answer; a sweep that
\* fails is logged.
STSwap(s) ==
    /\ stSave[s].pc = "swap"
    /\ stControl' = IF stSave[s].new.managed = Absent THEN stControl
                    ELSE stSave[s].new.managed
    /\ stSave' = [stSave EXCEPT ![s].pc = "sweep"]
    /\ UNCHANGED <<stRow, stVote, stEnv, stMem, stPages, stPhase, stClock, stLeft,
                   stCast, stEnded, stOk>>

STSweep(s) ==
    /\ stSave[s].pc = "sweep"
    /\ \/ stPages' = {} /\ UNCHANGED stLeft
       \/ stLeft.faults > 0 /\ STSpend("faults") /\ UNCHANGED stPages
    /\ stSave' = [stSave EXCEPT ![s] = AtRest]
    /\ UNCHANGED <<stRow, stVote, stEnv, stMem, stControl, stPhase, stClock, stCast,
                   stEnded, stOk>>

STStarting == STBoot \/ STLegacy \/ STDemote \/ STOverride \/ STStamp \/ STResolve
                \/ STStartFails \/ STLoad \/ STStop \/ STView

STSaving(s) == STPost(s) \/ STVote(s) \/ STVoteLost(s) \/ STBatch(s)
                 \/ STBatchFails(s) \/ STRemember(s) \/ STSwap(s) \/ STSweep(s)

STNext == STStarting \/ \E s \in STSavers : STSaving(s)

STSpec == STInit /\ [][STNext]_stVars

AnyValue == Settable \cup UNION {STPlain[w] : w \in DOMAIN STPlain}

SettingRow == [val : AnyValue, src : {"none", "legacy_sync", "demoted", "env_override", "resolved", "user"}]
Ballot == [val : Settable, at : Nat]
SaveState == [pc : {"idle", "vote", "batch", "memory", "swap", "sweep"}, new : Choices("user"), at : Nat]

STTypeOK ==
    /\ stRow \in [STKeys -> SettingRow] /\ stRow.managed.val \in Settable
    /\ stVote \in [{"user", "env"} -> Ballot]
    /\ stEnv \in Choices("env") /\ stMem \in [STKeys -> AnyValue]
    /\ stControl \in Settable /\ stPages \subseteq AnyValue
    /\ stPhase \in {"down", "legacy", "demote", "override", "stamp", "resolve", "load", "up"}
    /\ stSave \in [STSavers -> SaveState] /\ stClock \in Nat
    /\ stCast \subseteq [by : STSavers, val : STValues, at : Nat]

\* "a manual change sticks across rebuilds, and a later compose edit still
\* takes effect" (main.go, step C): after a start without a failing statement
\* a managed row holds a vote of a save that no later save and no later change
\* of the environment supersedes, or the environment's value when it voted
\* last; and a plain row holds what the environment declares.
LatestVoteWins ==
    stPhase = "load" /\ stOk =>
        /\ stCast # {} => stRow.managed.val \in {c.val : c \in stCast}
        /\ stCast = {} /\ stEnv.managed # Absent => stRow.managed.val = stEnv.managed
        /\ stEnv.plain # Absent => stRow.plain.val = stEnv.plain

\* What every step keeps: saves run when the process is up and vote no earlier
\* than they were read; a vote that no later one supersedes is the latest, and
\* without one the environment's is; and a start that has not failed has the
\* environment's wishes where it has got to.
VotesInOrder ==
    /\ stVote.user.at <= stClock /\ stVote.env.at <= stClock
    /\ stPhase = "stamp" => stVote.user.at < stClock
    /\ \A s \in STSavers :
          /\ stSave[s].pc # "idle" => stPhase = "up"
          /\ stSave[s].at <= stClock
          /\ stSave[s].pc = "vote" => stSave[s].new.managed # Absent /\ stVote.env.at <= stSave[s].at
    /\ stCast # {} => /\ stVote.env.at <= stVote.user.at
                      /\ \E c \in stCast : c.val = stVote.user.val
    /\ stCast = {} /\ stVote.env.val # Absent =>
          stVote.user.val = Absent \/ stVote.user.at < stVote.env.at
Reconciled ==
    stOk =>
      /\ stPhase \in {"resolve", "load"} => stVote.env.val = stEnv.managed
      /\ stPhase = "load" => ResolveLatest(stVote.user, stVote.env) \in {Absent, stRow.managed.val}
      /\ stPhase \in {"stamp", "resolve", "load"} /\ stEnv.plain # Absent => stRow.plain.val = stEnv.plain
VotesCounted == STTypeOK /\ VotesInOrder /\ Reconciled
=============================================================================
