----------------------------- MODULE Stoplight ------------------------------
(***************************************************************************)
(* The intersection of kern/asst1/stoplight.c, on the locks of Synch: the  *)
(* menu's thread (boot) runs createvehicles once, each vehicle is a thread *)
(* that runs approachintersection.  A vehicle's thread structure may be    *)
(* one that an earlier vehicle has left behind.                            *)
(*                                                                         *)
(* The counters carsA, carsB, carsC are plain ints without a lock: their   *)
(* ++ and -- are a load and a store that hardclock may come between, and a *)
(* test just after one may use the register or load the counter again.     *)
(***************************************************************************)
EXTENDS Synch

CONSTANTS lockAB, lockBC, lockCA, tempy, tlA, tlB, tlC,
          NVEHICLES,    \* 20 in the code
          Trips         \* what random() may give; Route \X {Left, Right} \X {Car, Truck}

Route == 0..2           \* A, B and C: vehicledirection
Left == 0
Right == 1              \* turndirection
Car == 0
Truck == 1              \* vehicletype

\* The segment a route leads into, and the lock of its lane ("truck lock").
\* A left turn goes on into the next segment.
segment(d) == CASE d = 0 -> lockAB [] d = 1 -> lockBC [] d = 2 -> lockCA
tl(d) == CASE d = 0 -> tlA [] d = 1 -> tlB [] d = 2 -> tlC
next(d) == IF d = 2 THEN 0 ELSE d + 1

ASSUME StoplightAssumption ==
  /\ Lock = {lockAB, lockBC, lockCA, tempy, tlA, tlB, tlC}
  /\ lockAB # lockBC /\ lockBC # lockCA /\ lockCA # lockAB
  /\ {lockAB, lockBC, lockCA} \cap {tlA, tlB, tlC, tempy} = {}
  /\ NULL \notin Lock
  /\ NVEHICLES \in Nat
  /\ Trips \subseteq Route \X {Left, Right} \X {Car, Truck}

VARIABLES
  pc,               \* where a thread is; "none" before it is forked and after exit
  vehicledirection, turndirection, vehicletype,   \* locals of a vehicle
  reg,              \* the register a vehicle does ++ and -- in
  cars,             \* carsA, carsB, carsC
  index             \* loop counter of createvehicles

trip == <<vehicledirection, turndirection, vehicletype>>
stopVars == <<pc, trip, reg, cars, index>>
vars == <<specVars, synchVars, stopVars>>

Vehicle == Thread \ {boot}

Init == /\ SynchInit
        /\ pc = [t \in Thread |-> IF t = boot THEN "menu" ELSE "none"]
        /\ vehicledirection = [v \in Vehicle |-> 0]
        /\ turndirection = [v \in Vehicle |-> Left]
        /\ vehicletype = [v \in Vehicle |-> Car]
        /\ reg = [v \in Vehicle |-> 0]
        /\ cars = [d \in Route |-> 0]
        /\ index = 0

Goto(t, label) == pc' = [pc EXCEPT ![t] = label]

-----------------------------------------------------------------------------
(* createvehicles *)

\* The seven lock_create calls and the counters; no vehicle is there to see an
\* intermediate state.
createlocks ==
  /\ pc[boot] = "menu"
  /\ alive' = alive \cup Lock
  /\ held' = [l \in Lock |-> 0]
  /\ holder' = [l \in Lock |-> NULL]
  /\ cars' = [d \in Route |-> 0]
  /\ Goto(boot, "fork")
  /\ UNCHANGED <<specVars, count, incall, owns, orphaned, trip, reg, index>>

\* One turn of the loop.  (It panics when thread_fork fails, which ends all.)
createvehicles(v) ==
  /\ pc[boot] = "fork"
  /\ index < NVEHICLES
  /\ thread_fork(v)
  /\ pc' = [pc EXCEPT ![v] = "start"]
  /\ index' = index + 1
  /\ UNCHANGED <<trip, reg, cars>>

-----------------------------------------------------------------------------
(* approachintersection, turnleft, turnright *)

\* The three random() calls and the choice of the turn function.
approachintersection(v) ==
  /\ pc[v] = "start"
  /\ \E p \in Trips :
       /\ vehicledirection' = [vehicledirection EXCEPT ![v] = p[1]]
       /\ turndirection' = [turndirection EXCEPT ![v] = p[2]]
       /\ vehicletype' = [vehicletype EXCEPT ![v] = p[3]]
       /\ Goto(v, IF p[3] = Car THEN "inc_load" ELSE "lane")
  /\ UNCHANGED <<specVars, synchVars, reg, cars, index>>

load(v) ==
  \E from \in {"inc_load", "dec_load"} :
    /\ pc[v] = from
    /\ reg' = [reg EXCEPT ![v] = cars[vehicledirection[v]]]
    /\ Goto(v, IF from = "inc_load" THEN "inc_store" ELSE "dec_store")
    /\ UNCHANGED <<specVars, synchVars, trip, cars, index>>

store(v, from, delta, to) ==
  /\ pc[v] = from
  /\ reg' = [reg EXCEPT ![v] = @ + delta]
  /\ cars' = [cars EXCEPT ![vehicledirection[v]] = reg[v] + delta]
  /\ Goto(v, to)
  /\ UNCHANGED <<specVars, synchVars, trip, index>>

increment(v) == store(v, "inc_store", 1, "lane")
decrement(v) == store(v, "dec_store", -1, "clear")

\* if(cars > 0) lock_acquire(tl): a truck has not touched the counter before.
\* The register is free after the test.
test_lane(v) ==
  /\ pc[v] = "lane"
  /\ \E c \in {cars[vehicledirection[v]]}
              \cup (IF vehicletype[v] = Car THEN {reg[v]} ELSE {}) :
       Goto(v, IF c > 0 THEN "acq_tl" ELSE "acq_first")
  /\ reg' = [reg EXCEPT ![v] = 0]
  /\ UNCHANGED <<specVars, synchVars, trip, cars, index>>

acquire(v, from, l, to) ==
  /\ pc[v] = from
  /\ \/ lock_acquire_sleep(v, l) /\ UNCHANGED pc
     \/ lock_acquire_done(v, l) /\ Goto(v, to)
  /\ UNCHANGED <<trip, reg, cars, index>>

acquire_tl(v) == acquire(v, "acq_tl", tl(vehicledirection[v]), "acq_first")
acquire_first(v) == acquire(v, "acq_first", segment(vehicledirection[v]), "dec_load")

Entered(v) == IF turndirection[v] = Left THEN "acq_second" ELSE "rel_first"

\* if(cars == 0) lock_release(tl), after which message_enter is printed.
test_clear(v) ==
  /\ pc[v] = "clear"
  /\ \E c \in {cars[vehicledirection[v]], reg[v]} :
       Goto(v, IF c = 0 THEN "rel_tl" ELSE Entered(v))
  /\ reg' = [reg EXCEPT ![v] = 0]
  /\ UNCHANGED <<specVars, synchVars, trip, cars, index>>

release(v, from, l, to) ==
  /\ pc[v] = from
  /\ lock_release(v, l)
  /\ Goto(v, to)
  /\ UNCHANGED <<trip, reg, cars, index>>

\* Mutant of release_tl: the segment is released in place of the lane.
release_tl_wrong(v) == release(v, "rel_tl", segment(vehicledirection[v]), Entered(v))

release_tl(v) == release(v, "rel_tl", tl(vehicledirection[v]), Entered(v))

acquire_second(v) ==
  acquire(v, "acq_second", segment(next(vehicledirection[v])), "rel_first")
release_first(v) ==
  release(v, "rel_first", segment(vehicledirection[v]),
          IF turndirection[v] = Left THEN "rel_second" ELSE "exit")
\* Mutant of release_second: it is forgotten.
release_second_forgotten(v) ==
  /\ pc[v] = "rel_second"
  /\ Goto(v, "exit")
  /\ UNCHANGED <<specVars, synchVars, trip, reg, cars, index>>
release_second(v) ==
  release(v, "rel_second", segment(next(vehicledirection[v])), "exit")

\* mi_threadstart calls thread_exit when approachintersection returns; the
\* vehicle's locals are gone with its stack.
leave(v) ==
  /\ pc[v] = "exit"
  /\ thread_exit(v)
  /\ Goto(v, "none")
  /\ vehicledirection' = [vehicledirection EXCEPT ![v] = 0]
  /\ turndirection' = [turndirection EXCEPT ![v] = Left]
  /\ vehicletype' = [vehicletype EXCEPT ![v] = Car]
  /\ reg' = [reg EXCEPT ![v] = 0]
  /\ UNCHANGED <<cars, index>>

\* What both turns do: join the lane, enter the first segment, leave it.
turn(v) ==
  \/ load(v) \/ increment(v) \/ test_lane(v) \/ acquire_tl(v) \/ acquire_first(v)
  \/ decrement(v) \/ test_clear(v) \/ release_tl(v) \/ release_first(v)

turnleft(v) == /\ turndirection[v] = Left
               /\ turn(v) \/ acquire_second(v) \/ release_second(v)

turnright(v) == /\ turndirection[v] = Right
                /\ turn(v)

drive(v) == approachintersection(v) \/ turnleft(v) \/ turnright(v) \/ leave(v)

Next == \/ createlocks
        \/ \E v \in Vehicle : createvehicles(v) \/ drive(v)

\* Every runnable thread gets the processor again (ReadyRuns of ThreadSystem).
Spec == /\ Init /\ [][Next]_vars
        /\ WF_vars(createlocks)
        /\ WF_vars(\E v \in Vehicle : createvehicles(v))
        /\ \A v \in Vehicle : WF_vars(drive(v))

-----------------------------------------------------------------------------
(* Properties. *)

Label == {"none", "menu", "fork", "start", "inc_load", "inc_store", "lane", "acq_tl",
          "acq_first", "dec_load", "dec_store", "clear", "rel_tl", "acq_second",
          "rel_first", "rel_second", "exit"}

TypeOK == /\ SynchTypeOK
          /\ pc \in [Thread -> Label]
          /\ vehicledirection \in [Vehicle -> Route]
          /\ turndirection \in [Vehicle -> {Left, Right}]
          /\ vehicletype \in [Vehicle -> {Car, Truck}]
          /\ reg \in [Vehicle -> Int] /\ cars \in [Route -> Int]
          /\ index \in 0..NVEHICLES

\* Vehicle v is in segment s: it has printed message_enter for s and not yet
\* message_leave.
Inside(v, s) ==
  \/ pc[v] \in {"acq_second", "rel_first"} /\ s = segment(vehicledirection[v])
  \/ pc[v] = "rel_second" /\ s = segment(next(vehicledirection[v]))

\* Two vehicles are never in the same segment, from whichever route each came.
SegmentExclusion ==
  \A d \in Route, v, w \in Vehicle :
    Inside(v, segment(d)) /\ Inside(w, segment(d)) => v = w

\* No vehicle leaves the system with the lock of a segment: the segments stay
\* usable.  (The lane locks do not.)
SegmentsNotLost == \A d \in Route : segment(d) \notin orphaned

\* Each segment is taken by a vehicle turning left that waits for the next one.
Ring == \A d \in Route : \E v \in Vehicle :
          vehicledirection[v] = d /\ turndirection[v] = Left /\ pc[v] = "acq_second"

\* A vehicle completes its turn unless three left turns block each other, or a
\* vehicle of some lane has exited with the lane's lock.
StallsOnlyFromRingOrLane ==
  \A v \in Vehicle :
    pc[v] = "start" ~> (pc[v] = "none" \/ Ring \/ orphaned # {})

\* "Each one must choose a direction randomly, approach the intersection, choose
\* a turn randomly, and then complete that turn" (approachintersection).
CompletesTurn == \A v \in Vehicle : pc[v] = "start" ~> pc[v] = "none"

-----------------------------------------------------------------------------
(* The inductive invariant behind the safety properties (StoplightProofs). *)

\* The segments whose locks a vehicle has, by where it is in its turn.
HasFirst(v) ==
  pc[v] \in {"dec_load", "dec_store", "clear", "rel_tl", "acq_second", "rel_first"}
HasSecond(v) ==
  pc[v] = "rel_second" \/ (pc[v] = "rel_first" /\ turndirection[v] = Left)

\* A vehicle has exactly those locks among the three.
LocksFollowTrip ==
  \A v \in Vehicle, d \in Route :
    v \in owns[segment(d)] <=> \/ HasFirst(v) /\ d = vehicledirection[v]
                               \/ HasSecond(v) /\ d = next(vehicledirection[v])

\* Only a left turn goes to the second segment; a thread structure that is free
\* is at no place; and no lock exists before createvehicles.
Bookkeeping ==
  /\ \A v \in Vehicle : /\ pc[v] \in {"acq_second", "rel_second"} => turndirection[v] = Left
                        /\ status[v] = "none" => pc[v] = "none"
  /\ pc[boot] = "menu" => alive = {}

StopInv == TypeOK /\ SynchInv /\ LocksFollowTrip /\ Bookkeeping /\ SegmentsNotLost
=============================================================================
