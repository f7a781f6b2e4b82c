-------------------------- MODULE MCPrefetchWaves --------------------------
(* PrefetchWaves on small instances: each layer over a restart and a        *)
(* settings save, L2 over two saves, both layers over one.  Each behaviour  *)
(* follows one of them, the cast; the properties read the same in all,      *)
(* which have the same rows.                                                *)
EXTENDS PrefetchWaves

VARIABLE cast
states == <<cast, vars>>

Steady == {0}
L2     == {"L2"}
L3     == {"L3"}
L2L3   == {"L2", "L3"}
Third  == INSTANCE PrefetchWaves WITH Layers <- L3
Saves  == INSTANCE PrefetchWaves WITH MaxRestarts <- 0, MaxChanges <- 2
Both   == INSTANCE PrefetchWaves WITH Layers <- L2L3, MaxRestarts <- 0

CastInit ==
    /\ cast \in {"restart", "third", "saves", "both"}
    /\ CASE cast = "restart" -> Init
         [] cast = "third"   -> Third!Init
         [] cast = "saves"   -> Saves!Init
         [] cast = "both"    -> Both!Init

CastNext ==
    \/ cast = "restart" /\ UNCHANGED cast /\ Next
    \/ cast = "third"   /\ UNCHANGED cast /\ Third!Next
    \/ cast = "saves"   /\ UNCHANGED cast /\ Saves!Next
    \/ cast = "both"    /\ UNCHANGED cast /\ Both!Next

CastSpec == CastInit /\ [][CastNext]_states
=============================================================================
