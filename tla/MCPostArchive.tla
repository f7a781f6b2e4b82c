-------------------------- MODULE MCPostArchive --------------------------
(* Values of PostArchive's constants for TLC. *)
EXTENDS PostArchive, TLC

CONSTANTS r1, r2, c1

\* Requests are interchangeable, and comments too.
Sym == Permutations(Requests) \union Permutations(Comments)
=============================================================================
