----------------------------- MODULE SubLedger -----------------------------
(***************************************************************************)
(* The rows of subreddit_status (store/substatus.go) and the parts of the  *)
(* program that write and read them side by side: L1's fetches, a visitor's *)
(* page, the probe of a name, the save of the crawl list, the archiver     *)
(* that marks a subreddit NSFW once per process, and the archive hub that  *)
(* works the mark out for those that have none.                            *)
(***************************************************************************)
EXTENDS Integers, NoneValue

CONSTANTS SLSubs,      \* subreddits
          SLReasons,   \* what the text of an error may name
          SLFaults     \* a bound: lost writes and restarts

ASSUME SLAssumption == SLFaults \in Nat

VARIABLES slRow,       \* the row of a name: its status, failures and NSFW mark
          slCrawl,     \* the crawl list of the settings
          slLate,      \* pages whose archiving goroutine has not marked them live yet
          slKnown,     \* Service.nsfwKnown: marked by this process
          slWriting,   \* marks on their way to the table
          slPosts,     \* subreddits with an NSFW post in the archive
          slHub,       \* the verdicts a hub request has worked out and not written
          slBad,       \* ghost: failures recorded since the last success
          slFaults     \* what is left of SLFaults
slVars == <<slRow, slCrawl, slLate, slKnown, slWriting, slPosts, slHub, slBad, slFaults>>

Graves == {"dead", "private", "quarantined"}
\* None: no verdict.
NSFW == {TRUE, FALSE, None}
SLTypeOK ==
  /\ slRow \in [SLSubs -> [status : {"none", "unknown", "live"} \cup Graves,
                           fails : 0 .. 3, nsfw : NSFW]]
  /\ slCrawl \subseteq SLSubs /\ slLate \subseteq SLSubs /\ slKnown \subseteq SLSubs
  /\ slWriting \subseteq slKnown /\ slPosts \subseteq SLSubs
  /\ slHub \in [SLSubs -> NSFW] /\ slBad \in [SLSubs -> 0 .. 3] /\ slFaults \in 0 .. SLFaults

-----------------------------------------------------------------------------
(* The statements of the store. *)

MarkLive(s) == slRow' = [slRow EXCEPT ![s].status = "live", ![s].fails = 0]

(* Two failures leave a name unknown; from the third on the reason names it. *)
RecordFailure(s, reason) ==
  LET n == IF slRow[s].fails < 3 THEN slRow[s].fails + 1 ELSE 3
  IN  slRow' = [slRow EXCEPT ![s].fails = n,
                             ![s].status = IF n < 3 THEN "unknown"
                                           ELSE IF reason \in {"private", "quarantined"}
                                           THEN reason ELSE "dead"]

\* Mutant: the last write has it.
SetNSFWLast(s, v) == slRow' = [slRow EXCEPT ![s].nsfw = v]
(* TRUE is not taken back; a name without a row gets one of unknown status. *)
SetNSFW(s, v) ==
  slRow' = [slRow EXCEPT ![s].nsfw = (@ = TRUE) \/ v,
                         ![s].status = IF @ = "none" THEN "unknown" ELSE @]

GetNSFWMap == [s \in SLSubs |-> slRow[s].nsfw]
GetStatusMap(subs) == {s \in subs : slRow[s].status \in Graves}

-----------------------------------------------------------------------------
Succeeds(s) == MarkLive(s) /\ slBad' = [slBad EXCEPT ![s] = 0]
Fails(s, reason) == /\ RecordFailure(s, reason)
                    /\ slBad' = [slBad EXCEPT ![s] = IF @ < 3 THEN @ + 1 ELSE 3]

(* L1 asks for what the crawl list names. *)
L1Fetch(s) ==
  /\ s \in slCrawl
  /\ Succeeds(s) \/ \E reason \in SLReasons : Fails(s, reason)
  /\ UNCHANGED <<slCrawl, slLate, slKnown, slWriting, slPosts, slHub, slFaults>>

(* A visitor's page: a failure at once, a success when it has been archived. *)
PageFetch(s) ==
  /\ \/ slLate' = slLate \cup {s} /\ UNCHANGED <<slRow, slBad>>
     \/ \E reason \in SLReasons : Fails(s, reason) /\ UNCHANGED slLate
  /\ UNCHANGED <<slCrawl, slKnown, slWriting, slPosts, slHub, slFaults>>
LateLive(s) ==
  /\ s \in slLate /\ slLate' = slLate \ {s}
  /\ Succeeds(s)
  /\ UNCHANGED <<slCrawl, slKnown, slWriting, slPosts, slHub, slFaults>>

(* The probe of a name asks upstream only when the row does not know it. *)
ProbeSub(s) ==
  /\ slRow[s].status \in {"none", "unknown"}
  /\ Succeeds(s) \/ \E reason \in SLReasons : Fails(s, reason)
  /\ UNCHANGED <<slCrawl, slLate, slKnown, slWriting, slPosts, slHub, slFaults>>

(* A save keeps the names that are not known to be gone. *)
FilterUsableSubs(names) == names \ GetStatusMap(names)
SaveCrawl(names) ==
  /\ slCrawl' = FilterUsableSubs(names)
  /\ UNCHANGED <<slRow, slLate, slKnown, slWriting, slPosts, slHub, slBad, slFaults>>

-----------------------------------------------------------------------------
(* markNSFWIfNeeded: the first post of a process enters the memory, then    *)
(* writes; a write that fails leaves the memory for a later post.           *)
ArchiveNSFW(s) ==
  /\ slPosts' = slPosts \cup {s}
  /\ slKnown' = slKnown \cup {s}
  /\ slWriting' = IF s \in slKnown THEN slWriting ELSE slWriting \cup {s}
  /\ UNCHANGED <<slRow, slCrawl, slLate, slHub, slBad, slFaults>>
WriteNSFW(s) ==
  /\ s \in slWriting /\ slWriting' = slWriting \ {s}
  /\ SetNSFW(s, TRUE)
  /\ UNCHANGED <<slCrawl, slLate, slKnown, slPosts, slHub, slBad, slFaults>>
WriteNSFWFails(s) ==
  /\ slFaults > 0 /\ slFaults' = slFaults - 1
  /\ s \in slWriting /\ slWriting' = slWriting \ {s}
  /\ slKnown' = slKnown \ {s}
  /\ UNCHANGED <<slRow, slCrawl, slLate, slPosts, slHub, slBad>>

(* resolveArchiveTags: what has no mark is looked up among the posts ...    *)
HubLooks ==
  /\ slHub = [s \in SLSubs |-> None]
  /\ slHub' = [s \in SLSubs |-> IF GetNSFWMap[s] = None THEN s \in slPosts ELSE None]
  /\ UNCHANGED <<slRow, slCrawl, slLate, slKnown, slWriting, slPosts, slBad, slFaults>>
(* ... and written back, name by name. *)
HubWrites(s) ==
  /\ slHub[s] # None
  /\ SetNSFW(s, slHub[s])
  /\ slHub' = [slHub EXCEPT ![s] = None]
  /\ UNCHANGED <<slCrawl, slLate, slKnown, slWriting, slPosts, slBad, slFaults>>

(* The process is started again: its memory and what was under way is gone. *)
RestartLedger ==
  /\ slFaults > 0 /\ slFaults' = slFaults - 1
  /\ slLate' = {} /\ slKnown' = {} /\ slWriting' = {} /\ slHub' = [s \in SLSubs |-> None]
  /\ UNCHANGED <<slRow, slCrawl, slPosts, slBad>>

SLInit ==
  /\ slRow = [s \in SLSubs |-> [status |-> "none", fails |-> 0, nsfw |-> None]]
  /\ slCrawl = SLSubs /\ slLate = {} /\ slKnown = {} /\ slWriting = {} /\ slPosts = {}
  /\ slHub = [s \in SLSubs |-> None] /\ slBad = [s \in SLSubs |-> 0] /\ slFaults = SLFaults

SLNext ==
  \/ \E s \in SLSubs : \/ L1Fetch(s) \/ PageFetch(s) \/ LateLive(s) \/ ProbeSub(s)
                       \/ ArchiveNSFW(s) \/ WriteNSFW(s) \/ WriteNSFWFails(s) \/ HubWrites(s)
  \/ \E names \in SUBSET SLSubs : SaveCrawl(names)
  \/ HubLooks \/ RestartLedger
SLSpec == SLInit /\ [][SLNext]_slVars

-----------------------------------------------------------------------------
(* What the archiver remembers to have marked is marked in the table,       *)
(* whatever a hub request that looked before the post came writes after it, *)
(* and whichever write was lost (archive/service.go markNSFWIfNeeded,       *)
(* handler/archive.go resolveArchiveTags).                                  *)
NSFWNotForgotten == \A s \in slKnown \ slWriting : slRow[s].nsfw = TRUE

(* A gravestone, which takes a subreddit out of L4 and, with the next save, *)
(* out of the crawl list, stands only over three failures in a row, counted *)
(* over L1, visitors and probes together (substatus.go RecordFailure).      *)
GravestoneEarned == \A s \in SLSubs : slRow[s].status \in Graves => slBad[s] = 3

(* The ledger says of a subreddit what happened to it.                      *)
LedgerTruthful == NSFWNotForgotten /\ GravestoneEarned

(* What every step keeps: the row counts the failures that there were.      *)
LedgerCounts ==
  /\ SLTypeOK /\ NSFWNotForgotten
  /\ \A s \in SLSubs : /\ slRow[s].fails = slBad[s]
                       /\ slRow[s].status \in Graves => slRow[s].fails = 3
=============================================================================
