-------------------------- MODULE StoplightProofs ---------------------------
(***************************************************************************)
(* Proofs about Stoplight, for any number of vehicles and any trips.       *)
(***************************************************************************)
EXTENDS Stoplight, SynchProofs

\* The three segments are different locks, and lane locks are none of them.
LEMMA SegmentsDistinct ==
  /\ \A d \in Route : segment(d) \in Lock /\ tl(d) \in Lock
  /\ \A d, e \in Route : segment(d) = segment(e) => d = e
  /\ \A d, e \in Route : segment(d) # tl(e)
  /\ \A d \in Route : next(d) \in Route /\ next(d) # d
<1>1. Route = {0, 1, 2}
  BY DEF Route
<1>2. /\ segment(0) = lockAB /\ segment(1) = lockBC /\ segment(2) = lockCA
      /\ tl(0) = tlA /\ tl(1) = tlB /\ tl(2) = tlC
  BY DEF segment, tl
<1>3. /\ {lockAB, lockBC, lockCA, tlA, tlB, tlC} \subseteq Lock
      /\ lockAB # lockBC /\ lockBC # lockCA /\ lockCA # lockAB
      /\ \A l \in {lockAB, lockBC, lockCA} : l # tlA /\ l # tlB /\ l # tlC
  BY StoplightAssumption
<1>4. \A d \in Route : segment(d) \in Lock /\ tl(d) \in Lock
  BY <1>1, <1>2, <1>3
<1>5. \A d, e \in Route : segment(d) = segment(e) => d = e
  BY <1>1, <1>2, <1>3
<1>6. \A d, e \in Route : segment(d) # tl(e)
  BY <1>1, <1>2, <1>3
<1>7. \A d \in Route : next(d) \in Route /\ next(d) # d
  BY <1>1 DEF next
<1>. QED BY <1>4, <1>5, <1>6, <1>7

\* The intersection before createvehicles forks satisfies the inductive invariant.
LEMMA StopInvInit == Init => StopInv
<1> SUFFICES ASSUME Init PROVE StopInv
  OBVIOUS
<1>1. SynchInv
  BY SynchInvInit DEF Init
<1>2. TypeOK
  BY <1>1, SpecAssumption, StoplightAssumption
     DEF Init, TypeOK, SynchInv, Label, Route, Vehicle, Left, Car
<1>3. LocksFollowTrip
  BY SegmentsDistinct DEF Init, SynchInit, LocksFollowTrip, HasFirst, HasSecond, Vehicle
<1>4. Bookkeeping
  BY SpecAssumption DEF Init, SynchInit, SpecInit, Bookkeeping, Vehicle
<1>5. SegmentsNotLost
  BY DEF Init, SynchInit, SegmentsNotLost
<1>. QED BY <1>1, <1>2, <1>3, <1>4, <1>5 DEF StopInv

\* Except for the creation of the locks, a step is one of Synch.
LEMMA DriveIsSynch ==
  ASSUME TypeOK, NEW v \in Vehicle, createvehicles(v) \/ drive(v)
  PROVE  [SynchNext]_<<specVars, synchVars>>
<1> USE SegmentsDistinct DEF TypeOK, Vehicle
<1>1. ASSUME NEW l \in Lock, NEW from, NEW to, acquire(v, from, l, to) PROVE SynchNext
  BY <1>1 DEF acquire, SynchNext
<1>2. ASSUME NEW l \in Lock, NEW from, NEW to, release(v, from, l, to) PROVE SynchNext
  BY <1>2 DEF release, SynchNext
<1>3. CASE createvehicles(v)
  BY <1>3 DEF createvehicles, SynchNext
<1>4. CASE leave(v)
  BY <1>4 DEF leave, SynchNext
<1>5. CASE acquire_tl(v) \/ acquire_first(v) \/ acquire_second(v)
  BY <1>5, <1>1 DEF acquire_tl, acquire_first, acquire_second
<1>6. CASE release_tl(v) \/ release_first(v) \/ release_second(v)
  BY <1>6, <1>2 DEF release_tl, release_first, release_second
<1>7. CASE approachintersection(v) \/ load(v) \/ increment(v) \/ test_lane(v)
             \/ decrement(v) \/ test_clear(v)
  BY <1>7 DEF approachintersection, load, increment, test_lane, decrement, test_clear, store
<1>. QED BY <1>3, <1>4, <1>5, <1>6, <1>7 DEF drive, turnleft, turnright, turn

\* createlocks finds no lock and nobody in a call, so it makes the locks as
\* lock_create does.
LEMMA CreatelocksSynch ==
  ASSUME StopInv, createlocks
  PROVE  SynchInv'
<1>1. alive = {}
  BY DEF StopInv, Bookkeeping, createlocks
<1>2. /\ \A t \in Thread : incall[t] = NULL /\ status[t] # "asleep"
      /\ \A l \in Lock : owns[l] = {}
  BY <1>1 DEF StopInv, SynchInv, SleepersInCall, HeldByOwner, MutualExclusion,
              SynchTypeOK, SpecTypeOK
<1> USE <1>1, <1>2 DEF StopInv, SynchInv, createlocks, specVars
<1>3. SynchTypeOK'
  BY DEF SynchTypeOK, SpecTypeOK
<1>4. MutualExclusion'
  BY DEF MutualExclusion
<1>5. NoLostWakeup'
  BY DEF NoLostWakeup, AsleepOn
<1>6. SleepersInCall' /\ HeldByOwner'
  BY DEF SleepersInCall, HeldByOwner
<1>. QED BY <1>3, <1>4, <1>5, <1>6 DEF SynchInv

\* Every step, the re-creation of the locks included, keeps the invariant of Synch.
LEMMA StopSynchStep ==
  ASSUME StopInv, [Next]_vars
  PROVE  SynchInv'
<1>1. ASSUME [SynchNext]_<<specVars, synchVars>> PROVE SynchInv'
  BY <1>1, SynchInvStep DEF StopInv
<1>2. CASE createlocks
  BY <1>2, CreatelocksSynch
<1>3. CASE \E v \in Vehicle : createvehicles(v) \/ drive(v)
  BY <1>1, <1>3, DriveIsSynch DEF StopInv
<1>4. CASE UNCHANGED vars
  BY <1>1, <1>4 DEF vars
<1>. QED BY <1>2, <1>3, <1>4 DEF Next

\* Every step keeps the locals and the counters in their types.
LEMMA StopTypeStep ==
  ASSUME StopInv, [Next]_vars
  PROVE  TypeOK'
<1>0. SynchTypeOK'
  BY StopSynchStep DEF SynchInv
<1> USE <1>0, SpecAssumption, StoplightAssumption DEF StopInv, TypeOK, Label, Goto, trip, Vehicle
<1>1. CASE createlocks
  BY <1>1 DEF createlocks
<1>2. ASSUME NEW v \in Vehicle, createvehicles(v) PROVE TypeOK'
  BY <1>2 DEF createvehicles
<1>3. ASSUME NEW v \in Vehicle, approachintersection(v) PROVE TypeOK'
  BY <1>3 DEF approachintersection
<1>4. ASSUME NEW v \in Vehicle, load(v) PROVE TypeOK'
  BY <1>4 DEF load
<1>5. ASSUME NEW v \in Vehicle, increment(v) \/ decrement(v) PROVE TypeOK'
  BY <1>5 DEF increment, decrement, store
<1>6. ASSUME NEW v \in Vehicle, test_lane(v) \/ test_clear(v) PROVE TypeOK'
  BY <1>6 DEF test_lane, test_clear, Entered
<1>7. ASSUME NEW v \in Vehicle, acquire_tl(v) \/ acquire_first(v) \/ acquire_second(v)
      PROVE TypeOK'
  BY <1>7 DEF acquire_tl, acquire_first, acquire_second, acquire
<1>8. ASSUME NEW v \in Vehicle, release_tl(v) \/ release_first(v) \/ release_second(v)
      PROVE TypeOK'
  BY <1>8 DEF release_tl, release_first, release_second, release, Entered
<1>9. ASSUME NEW v \in Vehicle, leave(v) PROVE TypeOK'
  BY <1>9 DEF leave, Route, Left, Car
<1>10. CASE UNCHANGED vars
  BY <1>10 DEF vars, stopVars
<1>. QED
  BY <1>1, <1>2, <1>3, <1>4, <1>5, <1>6, <1>7, <1>8, <1>9, <1>10 DEF Next, drive, turnleft, turnright, turn

\* A vehicle is not at the label of a thread that does not exist, and so on.
LEMMA BookkeepingStep ==
  ASSUME StopInv, [Next]_vars
  PROVE  Bookkeeping'
<1> USE SpecAssumption DEF StopInv, TypeOK, SynchTypeOK, SpecTypeOK, Bookkeeping, Goto, Vehicle,
        specVars, synchVars
<1>1. CASE createlocks
  BY <1>1 DEF createlocks, trip
<1>2. ASSUME NEW v \in Vehicle, createvehicles(v) PROVE Bookkeeping'
  BY <1>2 DEF createvehicles, thread_fork, Fork, trip
<1>3. ASSUME NEW v \in Vehicle, approachintersection(v) PROVE Bookkeeping'
  BY <1>3 DEF approachintersection
<1>4. ASSUME NEW v \in Vehicle, load(v) PROVE Bookkeeping'
  BY <1>4 DEF load, trip
<1>5. ASSUME NEW v \in Vehicle, increment(v) \/ decrement(v) PROVE Bookkeeping'
  BY <1>5 DEF increment, decrement, store, trip
<1>6. ASSUME NEW v \in Vehicle, test_lane(v) \/ test_clear(v) PROVE Bookkeeping'
  BY <1>6 DEF test_lane, test_clear, Entered, trip
<1>7. ASSUME NEW v \in Vehicle, acquire_tl(v) \/ acquire_first(v) \/ acquire_second(v)
      PROVE Bookkeeping'
  BY <1>7 DEF acquire_tl, acquire_first, acquire_second, acquire, lock_acquire_sleep,
              lock_acquire_done, Sleep, trip
<1>8. ASSUME NEW v \in Vehicle, release_tl(v) \/ release_first(v) \/ release_second(v)
      PROVE Bookkeeping'
  BY <1>8 DEF release_tl, release_first, release_second, release, lock_release, Wakeup,
              AsleepOn, Entered, trip
<1>9. ASSUME NEW v \in Vehicle, leave(v) PROVE Bookkeeping'
  BY <1>9 DEF leave, thread_exit, Exit
<1>10. CASE UNCHANGED vars
  BY <1>10 DEF vars, stopVars, trip
<1>. QED
  BY <1>1, <1>2, <1>3, <1>4, <1>5, <1>6, <1>7, <1>8, <1>9, <1>10 DEF Next, drive, turnleft, turnright, turn

\* A vehicle that has a segment's lock is the one lock_release will obey.
LEMMA OwnerHolds ==
  ASSUME SynchInv, NEW l \in Lock, NEW v \in owns[l]
  PROVE  held[l] = 1 /\ lock_do_i_hold(v, l) /\ owns[l] = {v}
  BY DEF SynchInv, SynchTypeOK, MutualExclusion, lock_do_i_hold

\* The locks of the segments a vehicle has are the ones its position says.
LEMMA LocksStep ==
  ASSUME StopInv, [Next]_vars
  PROVE  LocksFollowTrip'
<1> USE SpecAssumption, SegmentsDistinct
    DEF StopInv, TypeOK, SynchTypeOK, LocksFollowTrip, Bookkeeping, Goto, Vehicle,
        HasFirst, HasSecond, specVars, synchVars
<1>1. CASE createlocks
  BY <1>1 DEF createlocks, trip
<1>2. ASSUME NEW v \in Vehicle, createvehicles(v) PROVE LocksFollowTrip'
  BY <1>2 DEF createvehicles, thread_fork, Fork, trip
<1>3. ASSUME NEW v \in Vehicle, approachintersection(v) PROVE LocksFollowTrip'
  BY <1>3 DEF approachintersection
<1>4. ASSUME NEW v \in Vehicle, load(v) PROVE LocksFollowTrip'
  BY <1>4 DEF load, trip
<1>5. ASSUME NEW v \in Vehicle, increment(v) \/ decrement(v) PROVE LocksFollowTrip'
  BY <1>5 DEF increment, decrement, store, trip
<1>6. ASSUME NEW v \in Vehicle, test_lane(v) \/ test_clear(v) PROVE LocksFollowTrip'
  BY <1>6 DEF test_lane, test_clear, Entered, trip, Left, Right
<1>7. ASSUME NEW v \in Vehicle, acquire_tl(v) PROVE LocksFollowTrip'
  BY <1>7 DEF acquire_tl, acquire, lock_acquire_sleep, lock_acquire_done, trip
<1>8. ASSUME NEW v \in Vehicle, acquire_first(v) PROVE LocksFollowTrip'
  BY <1>8 DEF acquire_first, acquire, lock_acquire_sleep, lock_acquire_done, trip
<1>9. ASSUME NEW v \in Vehicle, acquire_second(v) PROVE LocksFollowTrip'
  BY <1>9 DEF acquire_second, acquire, lock_acquire_sleep, lock_acquire_done, trip
<1>10. ASSUME NEW v \in Vehicle, release_tl(v) PROVE LocksFollowTrip'
  BY <1>10 DEF release_tl, release, lock_release, Entered, trip, Left, Right
<1>11. ASSUME NEW v \in Vehicle, release_first(v) PROVE LocksFollowTrip'
  BY <1>11, OwnerHolds DEF release_first, release, lock_release, trip, Left, Right
<1>12. ASSUME NEW v \in Vehicle, release_second(v) PROVE LocksFollowTrip'
  BY <1>12, OwnerHolds DEF release_second, release, lock_release, trip
<1>13. ASSUME NEW v \in Vehicle, leave(v) PROVE LocksFollowTrip'
  BY <1>13 DEF leave, thread_exit
<1>14. CASE UNCHANGED vars
  BY <1>14 DEF vars, stopVars, trip
<1>. QED
  BY <1>1, <1>2, <1>3, <1>4, <1>5, <1>6, <1>7, <1>8, <1>9, <1>10, <1>11, <1>12, <1>13, <1>14
     DEF Next, drive, turnleft, turnright, turn

\* orphaned grows only when a vehicle exits, and by then it has no segment.
LEMMA SegmentsNotLostStep ==
  ASSUME StopInv, [Next]_vars
  PROVE  SegmentsNotLost'
<1> USE SegmentsDistinct DEF StopInv, SegmentsNotLost
<1>1. ASSUME NEW v \in Vehicle, leave(v) PROVE SegmentsNotLost'
  <2>1. \A d \in Route : v \notin owns[segment(d)]
    BY <1>1 DEF leave, LocksFollowTrip, HasFirst, HasSecond
  <2>. QED BY <1>1, <2>1 DEF leave, thread_exit
<1>2. ASSUME orphaned' \subseteq orphaned PROVE SegmentsNotLost'
  BY <1>2
<1>3. ASSUME NEW v \in Vehicle, createvehicles(v) \/ drive(v), ~leave(v)
      PROVE orphaned' \subseteq orphaned
  BY <1>3
     DEF createvehicles, drive, turnleft, turnright, turn, thread_fork, approachintersection, load, increment, decrement,
         store, test_lane, test_clear, acquire_tl, acquire_first, acquire_second, acquire,
         lock_acquire_sleep, lock_acquire_done, release_tl, release_first, release_second,
         release, lock_release, synchVars
<1>4. createlocks \/ UNCHANGED vars => orphaned' \subseteq orphaned
  BY DEF createlocks, vars, synchVars
<1>. QED BY <1>1, <1>2, <1>3, <1>4 DEF Next

-----------------------------------------------------------------------------
\* The invariant of the intersection holds in every state.
THEOREM StopInvariant == Spec => []StopInv
<1>1. Init => StopInv
  BY StopInvInit
<1>2. StopInv /\ [Next]_vars => StopInv'
  BY StopSynchStep, StopTypeStep, LocksStep, BookkeepingStep, SegmentsNotLostStep DEF StopInv
<1>. QED BY <1>1, <1>2, PTL DEF Spec

\* Type correctness of the vehicles' locals and the counters.
THEOREM StopTypeCorrect == Spec => []TypeOK
<1>1. StopInv => TypeOK
  BY DEF StopInv
<1>. QED BY <1>1, StopInvariant, PTL

\* turnleft and turnright never let two vehicles into one segment, whatever the
\* counters and the lane locks do.
THEOREM NoCollision == Spec => []SegmentExclusion
<1>1. StopInv => SegmentExclusion
  <2> SUFFICES ASSUME StopInv, NEW d \in Route, NEW v \in Vehicle, NEW w \in Vehicle,
                      Inside(v, segment(d)), Inside(w, segment(d))
               PROVE  v = w
    BY DEF SegmentExclusion
  <2>1. v \in owns[segment(d)] /\ w \in owns[segment(d)]
    BY SegmentsDistinct DEF StopInv, TypeOK, Bookkeeping, LocksFollowTrip, Inside, HasFirst,
                            HasSecond
  <2>. QED BY <2>1, SegmentsDistinct DEF StopInv, SynchInv, MutualExclusion
<1>. QED BY <1>1, StopInvariant, PTL

\* No vehicle exits with a segment's lock.
THEOREM SegmentsStayUsable == Spec => []SegmentsNotLost
<1>1. StopInv => SegmentsNotLost
  BY DEF StopInv
<1>. QED BY <1>1, StopInvariant, PTL
=============================================================================
