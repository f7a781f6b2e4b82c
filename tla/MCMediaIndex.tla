--------------------------- MODULE MCMediaIndex ---------------------------
(* Values of MediaIndex's constants for TLC. *)
EXTENDS MediaIndex, TLC

CONSTANTS u1, u2, k1, k2, h1, h2, d1

\* Each raw URL has a key of its own, or both name one.
CanonOwn    == (u1 :> k1) @@ (u2 :> k2)
CanonShared == (u1 :> k1) @@ (u2 :> k1)

\* Two files, the second bigger.
SizeGrowing == (h1 :> 1) @@ (h2 :> 2)

\* k2 is the muxed copy of the plain row k1.
K1Muxed == k1 :> k2
=============================================================================
