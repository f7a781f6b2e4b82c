------------------------------- MODULE MCWaits -------------------------------
(* Who waits for an answer gets one: six components with a promise of       *)
(* progress, on small instances.  They share no variable, so each behaviour *)
(* follows one of them, the focus, while the others rest in one initial     *)
(* state.  Three, which have theorems, are taken in as they are.            *)
EXTENDS MediaFetch, BucketSchedule, BandwidthGate, TLC

CONSTANTS c1, c2, u1, u2, k1, j1, j2, w1, w2, w3, sa, sb, tab, a4, a6

VARIABLES
    focus,
    amKey, amRow, amFile, amPlain, amLedger, amTrack, amJob, amLeft,
    irRow, irLedger, irPerm, irFetch, irKick, irSlot, irPolls, irFaults,
    ugSecret, ugConfirmed, ugRows, ugUsed, ugTry, ugAll, ugTrust, ugTab, ugWipe, ugMinted, ugLeft

audioVars   == <<amKey, amRow, amFile, amPlain, amLedger, amTrack, amJob, amLeft>>
pictureVars == <<irRow, irLedger, irPerm, irFetch, irKick, irSlot, irPolls, irFaults>>
unlockVars  == <<ugSecret, ugConfirmed, ugRows, ugUsed, ugTry, ugAll, ugTrust, ugTab, ugWipe,
                 ugMinted, ugLeft>>
all == <<focus, vars, audioVars, bgVars, pictureVars, bsVars, unlockVars>>

------------------------------------------------------------------------------
(* A bucket of two subreddits of two pages, in periods of which one is      *)
(* shorter than a round, a clock that may be late, two crashes or edits of  *)
(* the list; downloads of two signed variants of one image.                 *)
Variants == (u1 :> k1) @@ (u2 :> k1)

(* Two muxes of one video, one slot, two requests, and L5 as often as it    *)
(* comes; the outcomes of the downloads and the probes are not bounded.     *)
Jobs  == {j1, j2}
Audio == INSTANCE AudioMux WITH
    AMJobs <- Jobs, AMSlots <- 1, AMThreshold <- 2, AMAsks <- 2, AMFaults <- 0

(* Two shorts of one post, its video before its sound, and a newer long one.*)
Priority == (w1 :> [long |-> FALSE, gen |-> 1, kind |-> 1])
         @@ (w2 :> [long |-> FALSE, gen |-> 1, kind |-> 0])
         @@ (w3 :> [long |-> TRUE, gen |-> 2, kind |-> 1])

Picture == INSTANCE ImageReload WITH IRThreshold <- 2, IRMaxPolls <- 4, IRFaults <- 3

(* One browser that moves between two addresses, one slot for a trusted     *)
(* one, somebody else who types codes, a stop or a reset.                   *)
Tabs   == {tab}
Addrs  == {a4, a6}
Family == (a4 :> 4) @@ (a6 :> 6)
Unlock == INSTANCE UnlockGate WITH
    UGTabs <- Tabs, UGAddrs <- Addrs, UGFamily <- Family, UGSlots <- 1, UGTries <- 2,
    UGAllTries <- 2, UGStrikes <- 2, UGSkew <- 0, UGPads <- {""}, UGPlain <- "",
    UGTypos <- 0, UGOthers <- 1, UGFaults <- 1

------------------------------------------------------------------------------
(* A step of component k, and of nothing else.                              *)
Alone(k) ==
    /\ focus = k /\ UNCHANGED focus
    /\ k # "fetch"   => UNCHANGED vars
    /\ k # "audio"   => UNCHANGED audioVars
    /\ k # "gate"    => UNCHANGED bgVars
    /\ k # "picture" => UNCHANGED pictureVars
    /\ k # "bucket"  => UNCHANGED bsVars
    /\ k # "unlock"  => UNCHANGED unlockVars

WaitsInit ==
    /\ focus \in {"fetch", "audio", "gate", "picture", "bucket", "unlock"}
    /\ Init /\ Audio!AMInit /\ BGInit /\ Picture!IRInit /\ BSInit /\ Unlock!UGInit
    /\ focus # "audio"   => ~amPlain
    /\ focus # "picture" => irRow = "none" /\ ~irFetch

WaitsNext ==
    \/ Alone("fetch")   /\ Next
    \/ Alone("audio")   /\ Audio!AMNext
    \/ Alone("gate")    /\ BGNext
    \/ Alone("picture") /\ Picture!IRNext
    \/ Alone("bucket")  /\ BSNext
    \/ Alone("unlock")  /\ Unlock!UGNext

(* The fairness of MediaFetch, AMFair, BGFair, IRFair, BSFair and UGFair,   *)
(* of the component that moves.  A step of one leaves the other's variables *)
(* alone, so that the strong conditions of two can be stated as one.        *)
Slot(c)   == focus = "fetch"  /\ AcquireSlot(c) /\ UNCHANGED unlockVars
Visits(t) == focus = "unlock" /\ Unlock!Visits(t) /\ UNCHANGED vars
Fills(t)  == focus = "unlock" /\ Unlock!Fills(t) /\ UNCHANGED vars

WaitsFair ==
    /\ \A c \in Callers : WF_vars(focus = "fetch" /\ CallerSteps(c))
    /\ SF_<<vars, unlockVars>>(Slot(c1) \/ Visits(tab))
    /\ SF_<<vars, unlockVars>>(Slot(c2) \/ Fills(tab))
    /\ \A j \in Jobs : WF_audioVars(focus = "audio" /\ Audio!Goes(j))
    /\ WF_audioVars(focus = "audio" /\ Audio!Cool)
    /\ \A w \in BGWriters : WF_bgVars(focus = "gate" /\ Advance(w))
    /\ WF_pictureVars(focus = "picture" /\ Picture!Answers)
    /\ WF_pictureVars(focus = "picture" /\ Picture!Background)
    /\ WF_pictureVars(focus = "picture" /\ Picture!Polls)
    /\ WF_bsVars(focus = "bucket" /\ Launch)
    /\ WF_bsVars(focus = "bucket" /\ StopBuckets)
    /\ WF_bsVars(focus = "bucket" /\ StartRound)
    /\ WF_bsVars(focus = "bucket" /\ Turns)
    /\ WF_bsVars(focus = "bucket" /\ NextTurn)
    /\ WF_bsVars(focus = "bucket" /\ EndRound)
    /\ WF_bsVars(focus = "bucket" /\ TimePasses)
    /\ WF_unlockVars(focus = "unlock" /\ Unlock!Answers(tab))
    /\ \A a \in Addrs : WF_unlockVars(focus = "unlock" /\ Unlock!Cools(a))
    /\ WF_unlockVars(focus = "unlock" /\ Unlock!Tick)
    /\ WF_unlockVars(focus = "unlock" /\ Unlock!AllCool)
    /\ WF_unlockVars(focus = "unlock" /\ Unlock!WipeDevices)

WaitsSpec == WaitsInit /\ [][WaitsNext]_all /\ WaitsFair

------------------------------------------------------------------------------
(* What the run checks beside MediaFetch, AnchorKept and GateDrains.        *)

\* AudioMux: a video parked as failed is not so for ever, unless mux after mux
\* ends without a verdict.
AudioReturns == Audio!AudioReturns
\* ImageReload: the slot of a picture comes to rest.
PictureSettles == focus = "picture" => Picture!PictureSettles
\* BucketSchedule: a subreddit that stays on the list has its turn again and again.
TurnsComeRound == focus = "bucket" => EverybodysTurn
\* UnlockGate: the owner always gets in again.
OwnerGetsIn == focus = "unlock" => Unlock!OwnerGetsIn
==============================================================================
