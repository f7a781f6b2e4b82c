---------------------------- MODULE ImageReload ----------------------------
(***************************************************************************)
(* One picture of a page and the server behind it: the <img> asks the      *)
(* media proxy (proxy.go ServeMedia), is shown the file, a card, or gets a *)
(* 503, after which imageReload.js polls /api/media_status and reloads the *)
(* slot.  The server's side is the media row, the ledger of unavailable    *)
(* media, the memo of 404s and at most one fetch in flight.                *)
(***************************************************************************)
EXTENDS Integers

CONSTANTS IRThreshold,   \* DefaultUnavailableThreshold
          IRMaxPolls,    \* MAX_POLLS
          IRFaults       \* a bound: evictions, purged memos and visits

VARIABLES irRow,         \* the row: none, poisoned, evicted, resident, or lost (no file)
          irLedger,      \* the ledger's row of the URL
          irPerm,        \* the memo: answered 404 or 410 a while ago
          irFetch,       \* a download is in flight
          irKick,        \* a background download has been started and not looked yet
          irSlot,        \* what the element shows, or where its request is
          irPolls,       \* polls the element has spent
          irFaults       \* what is left of IRFaults
irVars == <<irRow, irLedger, irPerm, irFetch, irKick, irSlot, irPolls, irFaults>>

Settled == {"image", "uncertain", "dead", "broken"}
IRTypeOK ==
  /\ irRow \in {"none", "poisoned", "evicted", "resident", "lost"}
  /\ irLedger \in [count : Nat, marked : BOOLEAN, revived : BOOLEAN, dead : BOOLEAN]
  /\ irPerm \in BOOLEAN /\ irFetch \in BOOLEAN /\ irKick \in BOOLEAN
  /\ irSlot \in Settled \cup {"asked", "refused", "waiting", "error"}
  /\ irPolls \in 0 .. IRMaxPolls /\ irFaults \in 0 .. IRFaults

-----------------------------------------------------------------------------
(* cachedMedia: a file is served from the row only; a poisoned row goes. *)
Cached == irRow = "resident"
Purged == IF irRow = "poisoned" THEN "none" ELSE irRow

LedgerState == IF irLedger.dead THEN "dead" ELSE IF irLedger.marked THEN "unavailable" ELSE "alive"

(* A failure counts, marks at the threshold, and kills what was revived once. *)
Recorded ==
  [irLedger EXCEPT !.count = IF @ < IRThreshold THEN @ + 1 ELSE @,
                   !.marked = @ \/ irLedger.count + 1 >= IRThreshold,
                   !.dead = @ \/ irLedger.revived]

(* ServeMedia: the file, a card, or the download everybody waits for. *)
Ask ==
  /\ irSlot = "asked"
  /\ irRow' = Purged
  /\ IF Cached THEN irSlot' = "image" /\ UNCHANGED irFetch
     ELSE IF irPerm THEN irSlot' = "dead" /\ UNCHANGED irFetch
     ELSE IF LedgerState # "alive" THEN irSlot' = "refused" /\ UNCHANGED irFetch
     ELSE irSlot' = "waiting" /\ irFetch' = TRUE
  /\ UNCHANGED <<irLedger, irPerm, irKick, irPolls, irFaults>>

(* serveUnavailableMarker reads the ledger again for the card. *)
Marker ==
  /\ irSlot = "refused"
  /\ irSlot' = IF LedgerState = "dead" THEN "dead" ELSE "uncertain"
  /\ UNCHANGED <<irRow, irLedger, irPerm, irFetch, irKick, irPolls, irFaults>>

(* serveUnavailable: a 503, and one more try unless it is gone for good. *)
Unserved(perm) == /\ irSlot' = IF irSlot = "waiting" THEN "error" ELSE irSlot
                  /\ irKick' = (irKick \/ (irSlot = "waiting" /\ ~ perm))

Fetched ==
  /\ irFetch /\ irFetch' = FALSE
  /\ irRow' = "resident"
  /\ irSlot' = IF irSlot = "waiting" THEN "image" ELSE irSlot
  /\ UNCHANGED <<irLedger, irPerm, irKick, irPolls, irFaults>>

\* gone: 404 or 410. refused: another status, or no answer. html: a body that is no media.
FetchFails(how) ==
  /\ irFetch /\ irFetch' = FALSE
  /\ irPerm' = (irPerm \/ how = "gone")
  /\ irLedger' = IF how = "html" THEN irLedger ELSE Recorded
  /\ Unserved(irPerm')
  /\ UNCHANGED <<irRow, irPolls, irFaults>>

(* startBackgroundDownload: ensureCached once more, off the request. *)
Background ==
  /\ irKick /\ irKick' = FALSE
  /\ irRow' = Purged
  /\ irFetch' = (irFetch \/ (~ Cached /\ ~ irPerm /\ LedgerState = "alive"))
  /\ UNCHANGED <<irLedger, irPerm, irSlot, irPolls, irFaults>>

-----------------------------------------------------------------------------
(* MediaStatus: what a poll is told, and a download started when pending. *)
Status == IF Cached THEN "ready"
          ELSE IF irPerm THEN "dead"
          ELSE IF LedgerState # "alive" THEN LedgerState ELSE "pending"

\* Mutant: the budget of polls is not looked at.
PollForever ==
  /\ irSlot = "error"
  /\ UNCHANGED irPolls
  /\ irRow' = Purged
  /\ irKick' = (irKick \/ Status = "pending")
  /\ irSlot' = IF Status = "pending" THEN "error" ELSE "asked"
  /\ UNCHANGED <<irLedger, irPerm, irFetch, irFaults>>
\* The polls of a slot are counted over all its reloads.
Poll ==
  /\ irSlot = "error" /\ irPolls < IRMaxPolls
  /\ irPolls' = irPolls + 1
  /\ irRow' = Purged
  /\ irKick' = (irKick \/ Status = "pending")
  /\ irSlot' = IF Status = "pending" THEN "error" ELSE "asked"
  /\ UNCHANGED <<irLedger, irPerm, irFetch, irFaults>>

\* The poll itself is lost: it counts, and the next one comes later.
PollLost ==
  /\ irSlot = "error" /\ irPolls < IRMaxPolls
  /\ irPolls' = irPolls + 1
  /\ UNCHANGED <<irRow, irLedger, irPerm, irFetch, irKick, irSlot, irFaults>>

GiveUp ==
  /\ irSlot = "error" /\ irPolls >= IRMaxPolls
  /\ irSlot' = "broken"
  /\ UNCHANGED <<irRow, irLedger, irPerm, irFetch, irKick, irPolls, irFaults>>

-----------------------------------------------------------------------------
(* Everybody else: the evictor, a file that is lost, the memo's time, and a *)
(* reader who opens the post and so revives its media.                      *)
Fault == irFaults > 0 /\ irFaults' = irFaults - 1 /\ UNCHANGED <<irFetch, irKick, irSlot, irPolls>>
RowGoes(to) == Fault /\ irRow = "resident" /\ irRow' = to /\ UNCHANGED <<irLedger, irPerm>>
MemoExpires == Fault /\ irPerm /\ irPerm' = FALSE /\ UNCHANGED <<irRow, irLedger>>
Revive ==
  /\ Fault /\ irLedger.marked /\ ~ irLedger.dead
  /\ irLedger' = [irLedger EXCEPT !.marked = FALSE, !.count = 0, !.revived = TRUE]
  /\ UNCHANGED <<irRow, irPerm>>

IRInit ==
  /\ irRow \in {"none", "poisoned", "evicted", "resident", "lost"}
  /\ irLedger = [count |-> 0, marked |-> FALSE, revived |-> FALSE, dead |-> FALSE]
  /\ irPerm = FALSE /\ irFetch \in BOOLEAN /\ irKick = FALSE
  /\ irSlot = "asked" /\ irPolls = 0 /\ irFaults = IRFaults

IRNext ==
  \/ Ask \/ Marker \/ Fetched \/ Background \/ Poll \/ PollLost \/ GiveUp
  \/ \E how \in {"gone", "refused", "html"} : FetchFails(how)
  \/ \E to \in {"evicted", "lost"} : RowGoes(to)
  \/ MemoExpires \/ Revive
IRSpec == IRInit /\ [][IRNext]_irVars

(* The server answers, a download ends (its client has a timeout), and an   *)
(* image in view is polled: nothing of it waits for anything else.          *)
Answers == Ask \/ Marker \/ Fetched \/ \E how \in {"gone", "refused", "html"} : FetchFails(how)
Polls == Poll \/ PollLost \/ GiveUp
IRFair == WF_irVars(Answers) /\ WF_irVars(Background) /\ WF_irVars(Polls)

-----------------------------------------------------------------------------
(* The slot of a picture comes to rest: at the picture, at one of the two   *)
(* cards, or at the browser's own broken image when the polls are spent,    *)
(* although a reload may be answered by another 503 (imageReload.js poll,   *)
(* onError; proxy.go MediaStatus and serveUnavailable).                     *)
PictureSettles == <>[](irSlot \in Settled)
=============================================================================
