---------------------------- MODULE MCStoplight -----------------------------
(***************************************************************************)
(* Stoplight for TLC.  Two vehicles make every trip; three make the left   *)
(* turns that can block each other, with a second kind of vehicle and both *)
(* turns in the lane of route A.                                           *)
(***************************************************************************)
EXTENDS Stoplight

AllTrips == Route \X {Left, Right} \X {Car, Truck}
SomeTrips == (Route \X {Left} \X {Truck}) \cup {<<0, Right, Car>>}
=============================================================================
