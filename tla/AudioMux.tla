------------------------------ MODULE AudioMux ------------------------------
(***************************************************************************)
(* Sound for one v.redd.it video (media/mux.go, media/audio_track.go, the  *)
(* audio verdicts of store/media.go, layer L5 of prefetch/scheduler.go).   *)
(* The video comes without its sound; a mux downloads both, joins them and *)
(* stores the result under the key "muxed:<url>".  Views, polls, save-as   *)
(* requests, the prefetcher and L5 all may start a mux; one flies at a     *)
(* time.  The verdict is kept on the content row that the key points at.   *)
(*                                                                         *)
(* Content is "video" (the silent file) or "muxed" (bigger).               *)
(***************************************************************************)
EXTENDS Integers, FiniteSets

CONSTANTS
  AMJobs,       \* requests and goroutines at a time
  AMSlots,      \* background jobs with a slot (muxSem, 4)
  AMThreshold,  \* audioAbandonThreshold (4)
  AMAsks,       \* bound: views, polls, save-as and prefetches
  AMFaults      \* bound: evictions and restarts

ASSUME AMAssumption == AMThreshold \in Nat \ {0}

VARIABLES
  amKey,     \* content the key points at, or "none"
  amRow,     \* media_content: [state, fails, path, recent] of each content
  amFile,    \* is the file of each content on disk?
  amPlain,   \* is there a legacy row of the bare URL, on "video"?
  amLedger,  \* does media_unavailable refuse the video?
  amTrack,   \* the standalone track: "none", "fetching", "cached"
  amJob,
  amLeft     \* [asks, faults] still to come
amVars == <<amKey, amRow, amFile, amPlain, amLedger, amTrack, amJob, amLeft>>

Content == {"video", "muxed"}
NewRow == [state |-> "", fails |-> 0, path |-> FALSE, recent |-> FALSE]
Idle == [at |-> "idle", why |-> "-", seen |-> "-", ready |-> FALSE, silent |-> FALSE,
         out |-> "-", file |-> "none"]

AMInit == /\ amKey = "none"
          /\ amPlain \in BOOLEAN
          /\ amRow = [c \in Content |-> [NewRow EXCEPT !.path = amPlain /\ c = "video"]]
          /\ amFile = [c \in Content |-> amPlain /\ c = "video"]
          /\ amLedger = FALSE /\ amTrack = "none"
          /\ amJob = [j \in AMJobs |-> Idle]
          /\ amLeft = [asks |-> AMAsks, faults |-> AMFaults]

J(j) == amJob[j]
To(j, r) == amJob' = [amJob EXCEPT ![j] = r]
Go(j, at) == To(j, [J(j) EXCEPT !.at = at])
Known == amKey # "none"
State == IF Known THEN amRow[amKey].state ELSE ""
\* fileOnDisk
OnDisk == Known /\ amRow[amKey].path /\ amFile[amKey]
Recent == Known /\ amRow[amKey].recent
Conclusive == State \in {"has_audio", "silent"}
Muxing == {"video", "probe", "publish", "verdict", "land"}
Flying == {j \in AMJobs : J(j).at \in Muxing}
Holding == {j \in AMJobs : J(j).why = "job" /\ J(j).at \in Muxing \cup {"call", "wait"}}
Asked(why) == [Idle EXCEPT !.why = why, !.seen = State, !.ready = State = "has_audio" /\ OnDisk]
rest == <<amKey, amRow, amFile, amPlain, amLedger>>
AskMux == amLeft.asks > 0 /\ amLeft' = [amLeft EXCEPT !.asks = @ - 1]
Fault == amLeft.faults > 0 /\ amLeft' = [amLeft EXCEPT !.faults = @ - 1]

(***************************************************************************)
(* Who asks.                                                               *)
(***************************************************************************)

\* AudioStatus: what the page's poller is told.
AudioStatus == CASE State = "has_audio" -> IF OnDisk THEN "ready" ELSE "pending"
                 [] State = "silent" -> "silent"
                 [] OTHER -> "pending"

\* Mutant: only a silent copy is final.
ServeMuxedSilent == State = "silent" /\ OnDisk
\* ServeMuxed: a conclusive copy that is on disk is served as it is.
ServeMuxed == Conclusive /\ OnDisk

\* kickSeparateAudio joins a fetch that is out and leaves what is cached.
KickTrack == IF amTrack = "none" THEN "fetching" ELSE amTrack

\* A view that is not served and a poll that is told to wait start a mux; a
\* view of a video with no copy starts the standalone track too.
View(j) == \E why \in {"view", "poll"} :
    /\ J(j).at = "idle" /\ AskMux /\ ~amLedger
    /\ IF why = "view" THEN ~ServeMuxed ELSE AudioStatus = "pending"
    /\ To(j, [Asked(why) EXCEPT !.at = "kick"])
    /\ amTrack' = IF why = "view" /\ ~OnDisk THEN KickTrack ELSE amTrack
    /\ UNCHANGED rest

\* ServeMuxed for a download, DownloadMedia, RetryMuxAudio: they mux themselves.
Direct(j) ==
    /\ J(j).at = "idle" /\ AskMux
    /\ \/ ~amLedger /\ ~ServeMuxed /\ To(j, [Asked("save") EXCEPT !.at = "call"])
       \/ ~(Known /\ amRow[amKey].path) /\ To(j, [Asked("prefetch") EXCEPT !.at = "call"])
    /\ UNCHANGED <<rest, amTrack>>
\* ListAudioFailed: what L5 takes up.
AudioFailedListed == State = "failed"

\* Mutant: L5 takes only what no one has tried.
RetryFresh(j) ==
    /\ J(j).at = "idle" /\ State = "failed" /\ amRow[amKey].fails = 0
    /\ To(j, [Asked("retry") EXCEPT !.at = "call"])
    /\ UNCHANGED <<rest, amTrack, amLeft>>

Retry(j) ==
    /\ J(j).at = "idle" /\ AudioFailedListed /\ ~Recent
    /\ To(j, [Asked("retry") EXCEPT !.at = "call"])
    /\ UNCHANGED <<rest, amTrack, amLeft>>

\* startBackgroundMux looks for a mux in flight; a job that waits for a slot is
\* none, so several jobs may wait for one video.
Kick(j) ==
    /\ J(j).at = "kick"
    /\ To(j, IF amLedger \/ Recent \/ Flying # {} THEN Idle
             ELSE [J(j) EXCEPT !.at = "slot", !.why = "job", !.silent = J(j).seen = "silent"])
    /\ UNCHANGED <<rest, amTrack, amLeft>>

\* RecordAudioFailure, SetAudioState and ReviveAudio on the row the key points at.
AudioFailed(r) ==
    LET n == IF r.fails < AMThreshold THEN r.fails + 1 ELSE AMThreshold
    IN  [r EXCEPT !.fails = n, !.recent = TRUE,
                  !.state = IF n >= AMThreshold THEN "abandoned" ELSE "failed"]
AudioSet(r, state) == [r EXCEPT !.state = state, !.fails = 0]
AudioRevived(r) == IF r.state = "abandoned" THEN [r EXCEPT !.state = "failed", !.fails = 0] ELSE r

\* A slot, and ReviveAudio for what was seen abandoned.
Slot(j) ==
    /\ J(j).at = "slot" /\ Cardinality(Holding) < AMSlots
    /\ Go(j, "call")
    /\ amRow' = IF J(j).seen = "abandoned" THEN [amRow EXCEPT ![amKey] = AudioRevived(@)] ELSE amRow
    /\ UNCHANGED <<amKey, amFile, amPlain, amLedger, amTrack, amLeft>>

(***************************************************************************)
(* muxOnce.                                                                *)
(***************************************************************************)
Call(j) == /\ J(j).at = "call"
           /\ Go(j, IF Flying = {} THEN "video" ELSE "wait")
           /\ UNCHANGED <<rest, amTrack, amLeft>>

\* A request that saves falls back to a background mux when it got no file,
\* with what it read when it came.
After(j, ok) == IF J(j).why = "save" /\ ~(ok /\ OnDisk)
                THEN [J(j) EXCEPT !.at = "kick", !.silent = FALSE] ELSE Idle

\* The request of a waiter ends; those of background jobs do not.
Quit(j) == /\ J(j).at = "wait" /\ J(j).why # "job"
           /\ To(j, Idle)
           /\ UNCHANGED <<rest, amTrack, amLeft>>

\* downloadSilent asks for no audio.
DownloadSilent(r) == [r EXCEPT !.at = "publish", !.out = "silent", !.file = "video"]

\* The video is downloaded beside the audio probe.  A refusal goes to the ledger
\* and leaves the row of the video as it is: nothing counts it there.
DownloadVideo(j) ==
    /\ J(j).at = "video"
    /\ \/ /\ To(j, IF J(j).silent THEN DownloadSilent(J(j)) ELSE [J(j) EXCEPT !.at = "probe"])
          /\ UNCHANGED amLedger
       \/ /\ To(j, [J(j) EXCEPT !.at = "land", !.out = "error"])
          /\ amLedger' \in {amLedger, TRUE}
    /\ UNCHANGED <<amKey, amRow, amFile, amPlain, amTrack, amLeft>>

\* probeAudio: a track; every candidate refused; or a failure that may pass.
ProbeOutcomes == {"track", "absent", "broken"}

\* audioIsSilentPlaceholder: a track of next to no bits is none.
Placeholder(probe) == IF probe = "track" THEN {"sound", "none"} ELSE {"none"}

\* No sound: the silent file is final.  A track: the two are joined.  A probe
\* that stays broken: the silent file is an emergency copy.  A join or an index
\* write that fails leaves no verdict.
Probe(j) == \E probe \in ProbeOutcomes : \E track \in Placeholder(probe) :
    /\ J(j).at = "probe"
    /\ IF track = "sound"
       THEN \/ To(j, [J(j) EXCEPT !.at = "publish", !.out = "has_audio", !.file = "muxed"])
            \/ To(j, [J(j) EXCEPT !.at = "land", !.out = "error"])
       ELSE To(j, [J(j) EXCEPT !.at = "publish", !.file = "video",
                     !.out = IF probe = "broken" THEN "failed" ELSE "silent"])
    /\ UNCHANGED <<rest, amTrack, amLeft>>

\* Mutant: the key keeps what it points at.
SaveMuxedKeepsKey(j) ==
    /\ J(j).at = "publish"
    /\ amKey' = IF Known THEN amKey ELSE "video"
    /\ amFile' = [amFile EXCEPT ![J(j).file] = TRUE]
    /\ amRow' = [amRow EXCEPT ![J(j).file].path = TRUE]
    /\ Go(j, "verdict")
    /\ UNCHANGED <<amPlain, amLedger, amTrack, amLeft>>

\* publishContent and Save: the bigger content keeps the key, evicted or not.
SaveMuxed(j) ==
    /\ J(j).at = "publish"
    /\ LET c == J(j).file
           stays == amKey = "muxed" \/ amKey = c
           orphan == amKey = "video" /\ c = "muxed" /\ ~amPlain
       IN  /\ amKey' = IF stays THEN amKey ELSE c
           /\ amFile' = [amFile EXCEPT ![c] = TRUE]
           /\ amRow' = [d \in Content |->
                 [amRow[d] EXCEPT !.path = IF d = c THEN TRUE ELSE @ /\ ~(orphan /\ d = "video")]]
    /\ Go(j, "verdict")
    /\ UNCHANGED <<amPlain, amLedger, amTrack, amLeft>>

\* dropLegacyPlainRow: the bare URL's row goes, and its file when the key does
\* not point at it.
PlainFileGoes == amPlain /\ amKey # "video"
Conclude(state) ==
    /\ amPlain' = FALSE
    /\ amFile' = [amFile EXCEPT !["video"] = @ /\ ~PlainFileGoes]
    /\ amRow' = [c \in Content |->
          [IF c = amKey THEN AudioSet(amRow[c], state) ELSE amRow[c]
             EXCEPT !.path = @ /\ ~(PlainFileGoes /\ c = "video")]]

\* The verdict is written on what the key points at.
Verdict(j) ==
    /\ J(j).at = "verdict"
    /\ IF J(j).out = "failed" \/ J(j).silent
       THEN /\ amRow' = [amRow EXCEPT ![amKey] = IF J(j).silent THEN AudioSet(@, "silent") ELSE AudioFailed(@)]
            /\ UNCHANGED <<amFile, amPlain>>
       ELSE Conclude(J(j).out)
    /\ Go(j, "land")
    /\ UNCHANGED <<amKey, amLedger, amTrack, amLeft>>

LandMux(j) ==
    /\ J(j).at = "land"
    /\ amJob' = [i \in AMJobs |-> IF i = j \/ J(i).at = "wait"
                                  THEN After(i, J(j).out # "error") ELSE J(i)]
    /\ UNCHANGED <<rest, amTrack, amLeft>>

(***************************************************************************)
(* The rest of the world.                                                  *)
(***************************************************************************)

\* downloadSeparateAudio: a track; none, a placeholder or a failure.
TrackOutcomes == {"cached", "none"}
\* fetchSeparateAudio lands.
Track == /\ amTrack = "fetching" /\ amTrack' \in TrackOutcomes
         /\ UNCHANGED <<rest, amJob, amLeft>>

\* muxRetryCooldown ends.
Cool == \E c \in Content : /\ amRow[c].recent
                           /\ amRow' = [amRow EXCEPT ![c].recent = FALSE]
                           /\ UNCHANGED <<amKey, amFile, amPlain, amLedger, amTrack, amJob, amLeft>>

\* The evictor reclaims a content; a visit to the post revives the ledger row.
Evict == \E c \in Content :
    /\ Fault
    /\ amRow[c].path
    /\ amRow' = [amRow EXCEPT ![c].path = FALSE]
    /\ amFile' = [amFile EXCEPT ![c] = FALSE]
    /\ UNCHANGED <<amKey, amPlain, amLedger, amTrack, amJob>>
Revive == /\ amLedger /\ amLedger' = FALSE
          /\ UNCHANGED <<amKey, amRow, amFile, amPlain, amTrack, amJob, amLeft>>

\* DeleteSupersededPlainRows: the muxed copy is conclusive and has a path.  The
\* paths it returns are those of the rows it has just cleared: no file goes.
Superseded == amPlain /\ Conclusive /\ amRow[amKey].path

\* The process stops and starts; SweepSupersededPlainRows runs at the start.
Restart ==
    /\ Fault
    /\ amJob' = [j \in AMJobs |-> Idle]
    /\ amTrack' = IF amTrack = "fetching" THEN "none" ELSE amTrack
    /\ amPlain' = (amPlain /\ ~Superseded)
    /\ amRow' = IF Superseded /\ amKey # "video" THEN [amRow EXCEPT !["video"].path = FALSE] ELSE amRow
    /\ UNCHANGED <<amKey, amFile, amLedger>>

Work(j) == Kick(j) \/ Slot(j) \/ Call(j) \/ DownloadVideo(j) \/ Probe(j) \/ SaveMuxed(j) \/ Verdict(j) \/ LandMux(j)
AMNext == \/ \E j \in AMJobs : View(j) \/ Direct(j) \/ Retry(j) \/ Quit(j) \/ Work(j)
          \/ Track \/ Cool \/ Evict \/ Revive \/ Restart

\* Work is bounded by its three minutes, a cooldown by its two; L5 comes round.
Goes(j) == Work(j) \/ Retry(j)
AMFair == /\ \A j \in AMJobs : WF_amVars(Goes(j))
          /\ WF_amVars(Cool)
AMSpec == AMInit /\ [][AMNext]_amVars /\ AMFair

Verdicts == {"", "failed", "abandoned", "silent", "has_audio"}
ContentRow == [state : Verdicts, fails : 0..AMThreshold, path : BOOLEAN, recent : BOOLEAN]
MuxJob == [at : {"idle", "kick", "slot", "call", "wait"} \cup Muxing,
           why : {"-", "view", "poll", "save", "prefetch", "retry", "job"},
           seen : Verdicts \cup {"-"}, ready : BOOLEAN, silent : BOOLEAN,
           out : {"-", "silent", "has_audio", "failed", "error"}, file : Content \cup {"none"}]
AMTypeOK == /\ amKey \in Content \cup {"none"}
            /\ amRow \in [Content -> ContentRow] /\ amFile \in [Content -> BOOLEAN]
            /\ amPlain \in BOOLEAN /\ amLedger \in BOOLEAN
            /\ amTrack \in {"none", "fetching", "cached"}
            /\ amJob \in [AMJobs -> MuxJob]

(***************************************************************************)
(* Properties.                                                             *)
(***************************************************************************)

\* SoundIsSound: a key whose verdict is "has_audio" points at a file that was
\* muxed, whoever else failed, was evicted or restarted meanwhile: "ready" is
\* never said of a silent copy.  (mux.go AudioStatus, downloadMuxed)
SoundIsSound == State = "has_audio" => amKey = "muxed"

\* What every step keeps: one mux flies; no one has asked for a copy that is
\* there; a mux that has saved its file finds the key on it, or on a bigger one;
\* and the silent content is never said to have sound.
JobSound(r) ==
    /\ ~r.ready
    /\ r.seen = "abandoned" => Known
    /\ r.at \in {"publish", "verdict"} =>
          /\ r.out \in {"silent", "has_audio", "failed"} /\ r.file \in Content
          /\ r.out = "has_audio" => r.file = "muxed"
    /\ r.at = "verdict" => Known /\ (r.file = "muxed" => amKey = "muxed")
MuxesSound ==
    /\ AMTypeOK
    /\ \A i, j \in Flying : i = j
    /\ amRow["video"].state # "has_audio"
    /\ \A j \in AMJobs : JobSound(J(j))

\* LostOnlyToStale: a video that is muxed and on disk loses its verdict only
\* to a mux that was decided on when it was not yet there.
\* (mux.go startBackgroundMux, which reads the row before it waits for a slot)
LostOnlyToStale ==
    [][State = "has_audio" /\ OnDisk /\ State' # "has_audio"
       => \E j \in AMJobs : J(j).at = "verdict" /\ ~J(j).ready]_amVars

\* NoVerdict: a mux ends without a word on the row.
NoVerdict == \E j \in AMJobs : J(j).at = "land" /\ J(j).out = "error"

\* AudioReturns: a video parked as failed is not so for ever: while probes go
\* on failing it is given up at the threshold, and otherwise it gets its sound,
\* unless again and again a mux ends without a verdict: a video that Reddit
\* refuses stays failed, and L5 comes back to it for good.
\* (L5 retries what is 'failed'; downloadMuxed returns before RecordAudioFailure)
AudioReturns == []<>(State # "failed" \/ NoVerdict)
=============================================================================
