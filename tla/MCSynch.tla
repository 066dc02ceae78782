------------------------------ MODULE MCSynch -------------------------------
(***************************************************************************)
(* Synch for TLC.  Threads other than boot are interchangeable, so are the *)
(* locks.                                                                  *)
(***************************************************************************)
EXTENDS Synch, TLC

SynchSymmetry == Permutations(Thread \ {boot}) \cup Permutations(Lock)
=============================================================================
