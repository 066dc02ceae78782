--------------------------- MODULE MCThreadSystem ---------------------------
(***************************************************************************)
(* ThreadSystem for TLC, where the order in which kmalloc hands out        *)
(* structures other than the first does not matter: a symmetry TLC may use *)
(* for an invariant.                                                       *)
(***************************************************************************)
EXTENDS ThreadSystem

ThreadSymmetry == Permutations(Thread \ {boot})
=============================================================================
