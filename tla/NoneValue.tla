----------------------------- MODULE NoneValue -----------------------------
(* A nil, a NULL or an absent field.  The components share it, so that a    *)
(* module can extend several of them.                                       *)
CONSTANT None
============================================================================
