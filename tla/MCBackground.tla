---------------------------- MODULE MCBackground ----------------------------
(* What runs behind the pages, on small instances, with its promises of     *)
(* progress: the gate of HRLimit, the waves of the prefetcher, the dispatch *)
(* loop with two pairs of its workers.  They share no variable, so each     *)
(* behaviour follows one of them, the focus, while the others rest in one   *)
(* initial state.                                                           *)
EXTENDS HRLimit, TLC

CONSTANTS h1, n1, c1, x, y, Nobody

VARIABLES
    focus,
    settings, loop, rows, layer, made, go, seen, snap, fired, past, budget,
    root, cancelled, queue, phase, item, at, job, closed, got, page, saved, walked, wave,
    cached, fetching, known, mediaDone, icon, token, left, busy, n

wavesVars == <<settings, loop, rows, layer, made, go, seen, snap, fired, past, budget>>
loopVars  == <<root, cancelled, queue, phase, item, at, job, closed, got, page, saved, walked,
               wave, cached, fetching, known, mediaDone, icon, token, left, busy, n>>
all == <<focus, vars, wavesVars, loopVars>>

------------------------------------------------------------------------------
Short == <<2>>
Few   == <<2>>

(* Two cycles of a wave, a restart, a save of the crawl list.               *)
L2    == {"L2"}
Fixed == {0}
Waves == INSTANCE PrefetchWaves WITH
    Layers <- L2, MaxCycles <- 2, MaxWaves <- 1, MaxRestarts <- 1, MaxChanges <- 1,
    MaxErrors <- 0, Others <- Fixed

(* The walk of a listing of one page and the icons, a settings save.        *)
Pair  == {x, y}
Walk  == (x :> "L1") @@ (y :> "L4")
Wide  == (x :> "bucket") @@ (y :> "root")
Nothing == {}
Loop == INSTANCE Dispatcher WITH
    Workers <- Pair, Kind <- Walk, Scope <- Wide, LastPage <- 1, Body <- Nothing, Pasted <- Nothing,
    Cap <- 2, Reserve <- 1, HasIcon <- TRUE, MaxVisits <- 0, MaxCancels <- 1, MaxStops <- 0,
    MaxEvictions <- 0

(* A thread with an image and the wave that fetches it, a visitor.          *)
Thread == (x :> "L3") @@ (y :> "L2")
Near   == (x :> "bucket") @@ (y :> "bucket")
Images == {c1}
Threads == INSTANCE Dispatcher WITH
    Workers <- Pair, Kind <- Thread, Scope <- Near, LastPage <- 2, Body <- Nothing, Pasted <- Images,
    Cap <- 1, Reserve <- 0, HasIcon <- TRUE, MaxVisits <- 1, MaxCancels <- 0, MaxStops <- 0,
    MaxEvictions <- 0

------------------------------------------------------------------------------
(* A step of component k, and of nothing else.                              *)
Alone(k) ==
    /\ focus = k /\ UNCHANGED focus
    /\ k # "gate"  => UNCHANGED vars
    /\ k # "waves" => UNCHANGED wavesVars
    /\ k \notin {"loop", "threads"} => UNCHANGED loopVars

BackgroundInit ==
    /\ focus \in {"gate", "waves", "loop", "threads"}
    /\ Init /\ Waves!Init
    /\ IF focus = "threads" THEN Threads!Init ELSE Loop!Init
    /\ focus \notin {"loop", "threads"} => token = "none"

BackgroundNext ==
    \/ Alone("gate")    /\ Next
    \/ Alone("waves")   /\ Waves!Next
    \/ Alone("loop")    /\ Loop!Next
    \/ Alone("threads") /\ Threads!Next

(* The fairness of HRLimit, of PrefetchWaves and twice of Dispatcher, of    *)
(* the component that moves.  A step of one leaves the other's variables    *)
(* alone, so that the strong conditions of two can be stated as one.        *)
Answers(w) == Loop!Wakes(w) \/ Loop!Leaves(w)
Steps(w)   == Threads!Wakes(w) \/ Threads!Leaves(w) \/ Threads!L2Step(w) \/ Threads!L3Step(w)
Sends(w)   ==
    \/ focus = "loop" /\ Loop!Send(w) /\ UNCHANGED vars
    \/ focus = "threads" /\ Threads!Send(w) /\ UNCHANGED vars
Asks(A)    == focus = "gate" /\ A /\ UNCHANGED loopVars

BackgroundFair ==
    /\ WF_vars(focus = "gate" /\ Tick)
    /\ \A c \in Callers : WF_vars(focus = "gate" /\ RecordStep(c))
    /\ WF_vars(focus = "gate" /\ AdmitStep(h1))
    /\ WF_vars(focus = "gate" /\ Poll(h1))
    /\ SF_<<vars, loopVars>>(Asks(Ping(h1)) \/ Sends(x))
    /\ SF_<<vars, loopVars>>(Asks(MGet(h1)) \/ Sends(y))
    /\ WF_wavesVars(focus = "waves" /\ Waves!LoopSteps)
    /\ \A i \in Waves!Slots : WF_wavesVars(focus = "waves" /\ Waves!DriverSteps(i))
    /\ WF_wavesVars(focus = "waves" /\ \E archived \in BOOLEAN : Waves!ReconcilePass(archived))
    /\ \A w \in Pair : WF_loopVars(focus = "loop" /\ Answers(w))
    /\ WF_loopVars(focus = "loop" /\ Loop!L1Step(x))
    /\ WF_loopVars(focus = "loop" /\ Loop!L4Step(y))
    /\ \A w \in Pair : WF_loopVars(focus = "threads" /\ Steps(w))
    /\ WF_loopVars(IF focus = "loop" THEN Loop!LoopStep ELSE focus = "threads" /\ Threads!LoopStep)
    /\ WF_loopVars(focus = "loop" /\ Loop!WindowResets)
    /\ WF_loopVars(focus = "threads" /\ Threads!WindowResets)
    /\ WF_loopVars(focus = "loop" /\ Loop!TokenArrives)
    /\ WF_loopVars(focus = "threads" /\ Threads!TokenArrives)
    /\ WF_loopVars(focus = "threads" /\ \E i \in Images : Threads!VisitorFetched(i))

BackgroundSpec == BackgroundInit /\ [][BackgroundNext]_all /\ BackgroundFair

------------------------------------------------------------------------------
(* What the run checks beside the properties of HRLimit.                    *)

\* PrefetchWaves: every planned wave is fired or discarded.
WavesSettle == Waves!WavesSettle
\* Dispatcher: every submit returns.
Answered == Loop!Answered
==============================================================================
