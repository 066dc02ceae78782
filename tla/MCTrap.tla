------------------------------- MODULE MCTrap -------------------------------
(***************************************************************************)
(* Trap for TLC.  No symmetry: it is not sound for the liveness property.  *)
(***************************************************************************)
EXTENDS Trap
=============================================================================
