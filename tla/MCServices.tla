------------------------------ MODULE MCServices ------------------------------
(* What the services behind the pages promise at any moment, on small       *)
(* instances.  The components share no variable, so each behaviour follows  *)
(* one of them, the focus; the others rest in one initial state.            *)
EXTENDS Unfurl, AudioMux, MuxedFile, RangedStream, SubLedger, UnlockGate, Migrations, TLC

CONSTANTS r1, r2, k1, k2, j1, j2, sa, t1, t2, a4

VARIABLE focus

all == <<focus, ufVars, amVars, mfVars, rsVars, slVars, ugVars, mgVars>>

------------------------------------------------------------------------------
(* Two readers of two links, of which one is private; a page that is an     *)
(* embed and one of a title and an avatar; one fetch at a time.             *)
WebPages == {[title |-> FALSE, image |-> "none", video |-> "embed"],
             [title |-> TRUE, image |-> "avatar", video |-> "none"]}
(* Two muxes of one video, one slot, two refusals, evictions or restarts.   *)
(* A body of one byte, two chunks, a byte more; from the start, inside,     *)
(* past the end.                                                            *)
(* One subreddit, two causes of a failure, two lost writes or restarts.     *)
(* Two browsers at one address, a window on each side of the current one, a *)
(* code with and without a blank after it.                                  *)
Family == (a4 :> 4)

(* Fragments with their own samples' durations and sizes, with those of the *)
(* tfhd, with those of the trex; with one run, two, none; cut or foreign.   *)
Flags(d, s, n)     == [dur |-> d, size |-> s, nonsync |-> n]
Row(d, s, n, c)    == [dur |-> d, size |-> s, nonsync |-> n, cto |-> c]
Trun(o, f, es)     == [offset |-> o, first |-> f, entries |-> es]
Moof(h, rs)        == [traf |-> TRUE, cut |-> FALSE, tfhd |-> h, truns |-> rs]
Unset == Flags(None, None, None)
Keyed == Moof(Unset, <<Trun(2, FALSE, <<Row(None, 2, None, None), Row(None, 1, None, 2)>>)>>)
Even  == Moof(Flags(3, 1, FALSE), <<Trun(1, None, <<Row(None, None, None, None)>>)>>)
TwoRuns == Moof(Flags(None, None, TRUE),
    <<Trun(None, None, <<Row(1, 2, None, -1)>>),
      Trun(4, FALSE, <<Row(None, None, TRUE, None), Row(2, 1, FALSE, 2)>>)>>)
Moofs == {Keyed, Even, TwoRuns, Moof(Unset, <<>>), [Keyed EXCEPT !.traf = FALSE],
          [Even EXCEPT !.tfhd = None, !.cut = TRUE]}
Moov(trex, md, mv) == [traks |-> 1, boxes |-> {"tkhd", "mdhd", "mvhd", "minf"},
                       media |-> md, movie |-> mv, trex |-> trex]
Bare == [Moov(Flags(0, 0, FALSE), 1, 1) EXCEPT !.boxes = @ \ {"minf"}]
Moovs == {Moov(Flags(2, 1, TRUE), 3, 4), Moov(Flags(1, 1, FALSE), 2, 0),
          Bare}
Frags == [video |-> 3, audio |-> 1]

(* Two instances that start at once on a database of any of ten versions,   *)
(* two stops.                                                               *)

------------------------------------------------------------------------------
(* A step of component k, and of nothing else.                              *)
Alone(k) ==
    /\ focus = k /\ UNCHANGED focus
    /\ k # "links"  => UNCHANGED ufVars
    /\ k # "audio"  => UNCHANGED amVars
    /\ k # "muxed"  => UNCHANGED mfVars
    /\ k # "stream" => UNCHANGED rsVars
    /\ k # "ledger" => UNCHANGED slVars
    /\ k # "unlock" => UNCHANGED ugVars
    /\ k # "start"  => UNCHANGED mgVars

Components == {"links", "audio", "muxed", "stream", "ledger", "unlock", "start"}
AtRest == /\ focus # "audio" => ~amPlain
          /\ focus # "muxed" => mfMoov = [t \in MFTracks |-> Bare]
          /\ focus # "start" => mgDB \in Lived(0) /\ mgTable
          /\ focus # "stream" => /\ rsOrigin = [kind |-> "total", size |-> 1, media |-> TRUE]
                                 /\ rsUse = "download"

ServicesInit ==
    /\ focus \in Components
    /\ UFInit /\ AMInit /\ MFInit /\ RSInit /\ SLInit /\ UGInit /\ MGInit /\ AtRest

ServicesNext ==
    \/ Alone("links")  /\ UFNext
    \/ Alone("audio")  /\ AMNext
    \/ Alone("muxed")  /\ MFNext
    \/ Alone("stream") /\ RSNext
    \/ Alone("ledger") /\ SLNext
    \/ Alone("unlock") /\ UGNext
    \/ Alone("start")  /\ MGNext

ServicesSpec == ServicesInit /\ [][ServicesNext]_all
==============================================================================
