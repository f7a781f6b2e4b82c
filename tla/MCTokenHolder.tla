--------------------------- MODULE MCTokenHolder ----------------------------
\* Small instances of TokenHolder for TLC.
EXTENDS TokenHolder
=============================================================================
