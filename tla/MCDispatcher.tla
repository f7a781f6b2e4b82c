---------------------------- MODULE MCDispatcher ----------------------------
(* Dispatcher on three small instances: a bucket loop beside a media wave,  *)
(* a comment wave or an icon batch.  Each behaviour follows one, the cast;  *)
(* the properties read the same in all, since they name the bucket loop and *)
(* the post's own images only, and these are the same.                      *)
EXTENDS Dispatcher

VARIABLE cast
all == <<cast, vars>>

(* A media wave, a stop or restart, an eviction.                            *)
WithWave  == [day |-> "L1", other |-> "L2"]
InBuckets == [day |-> "bucket", other |-> "bucket"]

(* A comment wave and a visitor.                                            *)
WithThread == [day |-> "L1", other |-> "L3"]
Comments == INSTANCE Dispatcher WITH
    Kind <- WithThread, MaxVisits <- 1, MaxCancels <- 0, MaxStops <- 0, MaxEvictions <- 0

(* An icon batch, which outlives a settings save.                           *)
WithIcons == [day |-> "L1", other |-> "L4"]
Outlives  == [day |-> "bucket", other |-> "root"]
Icons == INSTANCE Dispatcher WITH
    Kind <- WithIcons, Scope <- Outlives, MaxVisits <- 0, MaxCancels <- 1, MaxStops <- 0,
    MaxEvictions <- 0

CastInit ==
    /\ cast \in {"wave", "thread", "icons"}
    /\ CASE cast = "wave"   -> Init
         [] cast = "thread" -> Comments!Init
         [] cast = "icons"  -> Icons!Init

CastNext ==
    \/ cast = "wave"   /\ UNCHANGED cast /\ Next
    \/ cast = "thread" /\ UNCHANGED cast /\ Comments!Next
    \/ cast = "icons"  /\ UNCHANGED cast /\ Icons!Next

CastSpec == CastInit /\ [][CastNext]_all
=============================================================================
