---------------------------- MODULE SynchProofs -----------------------------
(***************************************************************************)
(* Proofs about Synch, for any threads, semaphores, locks and bound.       *)
(***************************************************************************)
EXTENDS Synch, TLAPS

\* Fresh semaphores and locks satisfy the inductive invariant.
LEMMA SynchInvInit == SynchInit => SynchInv
<1> SUFFICES ASSUME SynchInit PROVE SynchInv
  OBVIOUS
<1> USE SpecAssumption, SynchAssumption DEF SynchInit, SpecInit
<1>1. SynchTypeOK
  BY DEF SynchTypeOK, SpecTypeOK
<1>2. MutualExclusion
  BY DEF MutualExclusion
<1>3. NoLostWakeup
  BY DEF NoLostWakeup, AsleepOn
<1>4. SleepersInCall
  BY DEF SleepersInCall
<1>5. HeldByOwner
  BY DEF HeldByOwner
<1>. QED BY <1>1, <1>2, <1>3, <1>4, <1>5 DEF SynchInv

\* Each operation keeps every variable in its type.
LEMMA SynchTypeStep ==
  ASSUME SynchTypeOK, [SynchNext]_<<specVars, synchVars>>
  PROVE  SynchTypeOK'
<1> USE SpecAssumption, SynchAssumption DEF SynchTypeOK, SpecTypeOK
<1>1. ASSUME NEW s \in Sem, NEW n \in 0..MaxCount, sem_create(s, n) PROVE SynchTypeOK'
  BY <1>1 DEF sem_create, specVars
<1>2. ASSUME NEW s \in Sem, sem_destroy(s) PROVE SynchTypeOK'
  BY <1>2 DEF sem_destroy, specVars
<1>3. ASSUME NEW s \in Sem, V(s) PROVE SynchTypeOK'
  BY <1>3 DEF V, Wakeup
<1>4. ASSUME NEW t \in Thread, NEW s \in Sem, P_sleep(t, s) PROVE SynchTypeOK'
  BY <1>4 DEF P_sleep, Sleep
<1>5. ASSUME NEW t \in Thread, NEW s \in Sem, P_done(t, s) PROVE SynchTypeOK'
  BY <1>5 DEF P_done, specVars
<1>6. ASSUME NEW l \in Lock, lock_create(l) PROVE SynchTypeOK'
  BY <1>6 DEF lock_create, specVars
<1>7. ASSUME NEW l \in Lock, lock_destroy(l) PROVE SynchTypeOK'
  BY <1>7 DEF lock_destroy, specVars
<1>8. ASSUME NEW t \in Thread, NEW l \in Lock, lock_acquire_sleep(t, l) PROVE SynchTypeOK'
  BY <1>8 DEF lock_acquire_sleep, Sleep
<1>9. ASSUME NEW t \in Thread, NEW l \in Lock, lock_acquire_done(t, l) PROVE SynchTypeOK'
  BY <1>9 DEF lock_acquire_done, specVars
<1>10. ASSUME NEW t \in Thread, NEW l \in Lock, lock_release(t, l) PROVE SynchTypeOK'
  BY <1>10 DEF lock_release, Wakeup, specVars, synchVars
<1>11. ASSUME NEW t \in Thread, thread_fork(t) PROVE SynchTypeOK'
  BY <1>11 DEF thread_fork, Fork, synchVars
<1>12. ASSUME NEW t \in Thread, thread_exit(t) PROVE SynchTypeOK'
  BY <1>12 DEF thread_exit, Exit
<1>13. CASE UNCHANGED <<specVars, synchVars>>
  BY <1>13 DEF specVars, synchVars
<1>. QED
  BY <1>1, <1>2, <1>3, <1>4, <1>5, <1>6, <1>7, <1>8, <1>9, <1>10, <1>11, <1>12, <1>13
     DEF SynchNext

\* Each operation keeps the rest of the invariant.  What carries it: a lock is
\* taken only when it is free, and then nobody owns it; freeing it, or raising a
\* semaphore, wakes every sleeper; an object is destroyed, or its memory made into
\* a new one, only while nobody is in a call on it.
LEMMA SynchInvStep ==
  ASSUME SynchInv, [SynchNext]_<<specVars, synchVars>>
  PROVE  SynchInv'
<1> DEFINE Rest == MutualExclusion /\ NoLostWakeup /\ SleepersInCall /\ HeldByOwner
<1>a. SynchTypeOK /\ SynchTypeOK'
  BY SynchTypeStep DEF SynchInv
<1>b. Rest
  BY DEF SynchInv
<1>1. ASSUME NEW s \in Sem, NEW n \in 0..MaxCount, sem_create(s, n) PROVE Rest'
  <2>1. MutualExclusion'
    BY <1>1, <1>b DEF sem_create, MutualExclusion
  <2>2. NoLostWakeup'
    BY <1>1, <1>b, <1>a, SynchAssumption, SpecAssumption
       DEF sem_create, specVars, NoLostWakeup, AsleepOn, SleepersInCall, SynchTypeOK, SpecTypeOK
  <2>3. SleepersInCall'
    BY <1>1, <1>b DEF sem_create, specVars, SleepersInCall
  <2>4. HeldByOwner'
    BY <1>1, <1>b DEF sem_create, HeldByOwner
  <2>. QED BY <2>1, <2>2, <2>3, <2>4
<1>2. ASSUME NEW s \in Sem, sem_destroy(s) PROVE Rest'
  <2>1. MutualExclusion'
    BY <1>2, <1>b DEF sem_destroy, MutualExclusion
  <2>2. NoLostWakeup'
    BY <1>2, <1>b DEF sem_destroy, specVars, NoLostWakeup, AsleepOn
  <2>3. SleepersInCall'
    BY <1>2, <1>b DEF sem_destroy, specVars, Unused, SleepersInCall
  <2>4. HeldByOwner'
    BY <1>2, <1>b, SynchAssumption DEF sem_destroy, HeldByOwner
  <2>. QED BY <2>1, <2>2, <2>3, <2>4
<1>3. ASSUME NEW s \in Sem, V(s) PROVE Rest'
  <2>1. MutualExclusion'
    BY <1>3, <1>b DEF V, MutualExclusion
  <2>2. NoLostWakeup'
    BY <1>3, <1>b, <1>a, SynchAssumption, SpecAssumption
       DEF V, Wakeup, NoLostWakeup, AsleepOn, SynchTypeOK, SpecTypeOK
  <2>3. SleepersInCall'
    BY <1>3, <1>b, <1>a, SynchAssumption, SpecAssumption
       DEF V, Wakeup, AsleepOn, SleepersInCall, SynchTypeOK, SpecTypeOK
  <2>4. HeldByOwner'
    BY <1>3, <1>b DEF V, HeldByOwner
  <2>. QED BY <2>1, <2>2, <2>3, <2>4
<1>4. ASSUME NEW t \in Thread, NEW s \in Sem, P_sleep(t, s) PROVE Rest'
  <2>1. MutualExclusion'
    BY <1>4, <1>b DEF P_sleep, MutualExclusion
  <2>2. NoLostWakeup'
    BY <1>4, <1>b, <1>a, SynchAssumption, SpecAssumption
       DEF P_sleep, Sleep, NoLostWakeup, AsleepOn, SynchTypeOK, SpecTypeOK
  <2>3. SleepersInCall'
    BY <1>4, <1>b, <1>a, SynchAssumption, SpecAssumption
       DEF P_sleep, Tests, Sleep, SleepersInCall, SynchTypeOK, SpecTypeOK
  <2>4. HeldByOwner'
    BY <1>4, <1>b DEF P_sleep, HeldByOwner
  <2>. QED BY <2>1, <2>2, <2>3, <2>4
<1>5. ASSUME NEW t \in Thread, NEW s \in Sem, P_done(t, s) PROVE Rest'
  <2>1. MutualExclusion'
    BY <1>5, <1>b DEF P_done, MutualExclusion
  <2>2. NoLostWakeup'
    BY <1>5, <1>b, <1>a, SynchAssumption, SpecAssumption
       DEF P_done, specVars, NoLostWakeup, AsleepOn, SynchTypeOK, SpecTypeOK
  <2>3. SleepersInCall'
    BY <1>5, <1>b, <1>a, SynchAssumption, SpecAssumption
       DEF P_done, Tests, specVars, SleepersInCall, SynchTypeOK, SpecTypeOK
  <2>4. HeldByOwner'
    BY <1>5, <1>b DEF P_done, HeldByOwner
  <2>. QED BY <2>1, <2>2, <2>3, <2>4
<1>6. ASSUME NEW l \in Lock, lock_create(l) PROVE Rest'
  <2>1. MutualExclusion'
    BY <1>6, <1>b, <1>a
       DEF lock_create, MutualExclusion, HeldByOwner, SynchTypeOK, SpecTypeOK
  <2>2. NoLostWakeup'
    BY <1>6, <1>b, <1>a, SynchAssumption, SpecAssumption
       DEF lock_create, specVars, NoLostWakeup, AsleepOn, SleepersInCall, SynchTypeOK, SpecTypeOK
  <2>3. SleepersInCall'
    BY <1>6, <1>b DEF lock_create, specVars, SleepersInCall
  <2>4. HeldByOwner'
    BY <1>6, <1>b, <1>a, SynchAssumption, SpecAssumption
       DEF lock_create, HeldByOwner, SynchTypeOK, SpecTypeOK
  <2>. QED BY <2>1, <2>2, <2>3, <2>4
<1>7. ASSUME NEW l \in Lock, lock_destroy(l) PROVE Rest'
  <2>1. MutualExclusion'
    BY <1>7, <1>b DEF lock_destroy, MutualExclusion
  <2>2. NoLostWakeup'
    BY <1>7, <1>b DEF lock_destroy, specVars, NoLostWakeup, AsleepOn
  <2>3. SleepersInCall'
    BY <1>7, <1>b DEF lock_destroy, specVars, Unused, SleepersInCall
  <2>4. HeldByOwner'
    BY <1>7, <1>b DEF lock_destroy, HeldByOwner
  <2>. QED BY <2>1, <2>2, <2>3, <2>4
<1>8. ASSUME NEW t \in Thread, NEW l \in Lock, lock_acquire_sleep(t, l) PROVE Rest'
  <2>1. MutualExclusion'
    BY <1>8, <1>b DEF lock_acquire_sleep, MutualExclusion
  <2>2. NoLostWakeup'
    BY <1>8, <1>b, <1>a, SynchAssumption, SpecAssumption
       DEF lock_acquire_sleep, Sleep, NoLostWakeup, AsleepOn, SynchTypeOK, SpecTypeOK
  <2>3. SleepersInCall'
    BY <1>8, <1>b, <1>a, SynchAssumption, SpecAssumption
       DEF lock_acquire_sleep, Tests, Sleep, SleepersInCall, SynchTypeOK, SpecTypeOK
  <2>4. HeldByOwner'
    BY <1>8, <1>b DEF lock_acquire_sleep, HeldByOwner
  <2>. QED BY <2>1, <2>2, <2>3, <2>4
<1>9. ASSUME NEW t \in Thread, NEW l \in Lock, lock_acquire_done(t, l) PROVE Rest'
  <2>1. MutualExclusion'
    BY <1>9, <1>b, <1>a DEF lock_acquire_done, MutualExclusion, SynchTypeOK, SpecTypeOK
  <2>2. NoLostWakeup'
    BY <1>9, <1>b, <1>a, SynchAssumption, SpecAssumption
       DEF lock_acquire_done, specVars, NoLostWakeup, AsleepOn, SynchTypeOK, SpecTypeOK
  <2>3. SleepersInCall'
    BY <1>9, <1>b, <1>a, SynchAssumption, SpecAssumption
       DEF lock_acquire_done, Tests, specVars, SleepersInCall, SynchTypeOK, SpecTypeOK
  <2>4. HeldByOwner'
    BY <1>9, <1>b, <1>a, SynchAssumption, SpecAssumption
       DEF lock_acquire_done, Tests, HeldByOwner, SynchTypeOK, SpecTypeOK
  <2>. QED BY <2>1, <2>2, <2>3, <2>4
<1>10. ASSUME NEW t \in Thread, NEW l \in Lock, lock_release(t, l) PROVE Rest'
  <2>1. MutualExclusion'
    BY <1>10, <1>b, <1>a
       DEF lock_release, synchVars, lock_do_i_hold, MutualExclusion, SynchTypeOK, SpecTypeOK
  <2>2. NoLostWakeup'
    BY <1>10, <1>b, <1>a, SynchAssumption, SpecAssumption
       DEF lock_release, Wakeup, specVars, synchVars, NoLostWakeup, AsleepOn, SynchTypeOK, SpecTypeOK
  <2>3. SleepersInCall'
    BY <1>10, <1>b, <1>a, SynchAssumption, SpecAssumption
       DEF lock_release, Wakeup, AsleepOn, specVars, synchVars, SleepersInCall, SynchTypeOK, SpecTypeOK
  <2>4. HeldByOwner'
    BY <1>10, <1>b, <1>a, SynchAssumption, SpecAssumption
       DEF lock_release, synchVars, HeldByOwner, SynchTypeOK, SpecTypeOK
  <2>. QED BY <2>1, <2>2, <2>3, <2>4
<1>11. ASSUME NEW t \in Thread, thread_fork(t) PROVE Rest'
  <2>1. MutualExclusion'
    BY <1>11, <1>b DEF thread_fork, synchVars, MutualExclusion
  <2>2. NoLostWakeup'
    BY <1>11, <1>b, <1>a, SynchAssumption, SpecAssumption
       DEF thread_fork, Fork, synchVars, NoLostWakeup, AsleepOn, SynchTypeOK, SpecTypeOK
  <2>3. SleepersInCall'
    BY <1>11, <1>b, <1>a, SynchAssumption, SpecAssumption
       DEF thread_fork, Fork, synchVars, SleepersInCall, SynchTypeOK, SpecTypeOK
  <2>4. HeldByOwner'
    BY <1>11, <1>b DEF thread_fork, synchVars, HeldByOwner
  <2>. QED BY <2>1, <2>2, <2>3, <2>4
<1>12. ASSUME NEW t \in Thread, thread_exit(t) PROVE Rest'
  <2>1. MutualExclusion'
    BY <1>12, <1>b, <1>a DEF thread_exit, MutualExclusion, SynchTypeOK, SpecTypeOK
  <2>2. NoLostWakeup'
    BY <1>12, <1>b, <1>a, SynchAssumption, SpecAssumption
       DEF thread_exit, Exit, NoLostWakeup, AsleepOn, SynchTypeOK, SpecTypeOK
  <2>3. SleepersInCall'
    BY <1>12, <1>b, <1>a, SynchAssumption, SpecAssumption
       DEF thread_exit, Exit, SleepersInCall, SynchTypeOK, SpecTypeOK
  <2>4. HeldByOwner'
    BY <1>12, <1>b, <1>a, SynchAssumption, SpecAssumption
       DEF thread_exit, HeldByOwner, SynchTypeOK, SpecTypeOK
  <2>. QED BY <2>1, <2>2, <2>3, <2>4
<1>13. ASSUME UNCHANGED <<specVars, synchVars>> PROVE Rest'
  BY <1>13, <1>b
     DEF specVars, synchVars, MutualExclusion, NoLostWakeup, AsleepOn, SleepersInCall, HeldByOwner
<1>14. Rest'
  BY <1>1, <1>2, <1>3, <1>4, <1>5, <1>6, <1>7, <1>8, <1>9, <1>10, <1>11, <1>12, <1>13
     DEF SynchNext
<1>. QED BY <1>a, <1>14 DEF SynchInv

-----------------------------------------------------------------------------
\* The invariant of P, V, lock_acquire and lock_release holds in every state.
THEOREM SynchInvariant == SynchSpec => []SynchInv
<1>1. SynchInit => SynchInv
  BY SynchInvInit
<1>2. SynchInv /\ [SynchNext]_<<specVars, synchVars>> => SynchInv'
  BY SynchInvStep
<1>. QED BY <1>1, <1>2, PTL DEF SynchSpec

\* Type correctness, which says of P that its assertion count > 0 never fails.
THEOREM SynchTypeCorrect == SynchSpec => []SynchTypeOK
<1>1. SynchInv => SynchTypeOK
  BY DEF SynchInv
<1>. QED BY <1>1, SynchInvariant, PTL

\* At most one thread is between lock_acquire and lock_release, and it is the
\* recorded holder.
THEOREM LockMutualExclusion == SynchSpec => []MutualExclusion
<1>1. SynchInv => MutualExclusion
  BY DEF SynchInv
<1>. QED BY <1>1, SynchInvariant, PTL

\* No thread sleeps in P or lock_acquire on an object that is free.
THEOREM WakeupNotLost == SynchSpec => []NoLostWakeup
<1>1. SynchInv => NoLostWakeup
  BY DEF SynchInv
<1>. QED BY <1>1, SynchInvariant, PTL

\* lock_do_i_hold is right for every lock whose owner has not exited with it.
THEOREM HoldIsTruthful == SynchSpec => []HoldTruthful
<1>1. SynchInv => HoldTruthful
  BY DEF SynchInv, MutualExclusion, HeldByOwner, HoldTruthful, lock_do_i_hold, Live
<1>. QED BY <1>1, SynchInvariant, PTL

\* Sleepers go on only when their lock is released or their semaphore raised.
THEOREM WakeupNotSpurious == SynchSpec => NoSpuriousWakeup
<1> DEFINE Sound ==
      \A t \in Thread :
        status[t] = "asleep" /\ status'[t] # "asleep" =>
          \/ waddr[t] \in Lock /\ held[waddr[t]] = 1 /\ held'[waddr[t]] = 0
          \/ waddr[t] \in Sem /\ count'[waddr[t]] > count[waddr[t]]
<1>1. SynchInv /\ [SynchNext]_<<specVars, synchVars>> => [Sound]_<<specVars, synchVars>>
  <2> SUFFICES ASSUME SynchInv, SynchNext PROVE Sound
    OBVIOUS
  <2> USE DEF SynchInv, SynchTypeOK, SpecTypeOK
  <2>1. ASSUME NEW s \in Sem, V(s) PROVE Sound
    BY <2>1 DEF V, Wakeup, AsleepOn
  <2>2. ASSUME NEW t \in Thread, NEW l \in Lock, lock_release(t, l) PROVE Sound
    BY <2>2 DEF lock_release, Wakeup, AsleepOn, specVars
  <2>3. ASSUME NEW t \in Thread, NEW o \in Sem \cup Lock, Sleep(t, o) PROVE Sound
    BY <2>3 DEF Sleep
  <2>4. ASSUME NEW t \in Thread, Fork(t) \/ Exit(t) PROVE Sound
    BY <2>4 DEF Fork, Exit
  <2>5. ASSUME UNCHANGED specVars PROVE Sound
    BY <2>5 DEF specVars
  <2>. QED
    BY <2>1, <2>2, <2>3, <2>4, <2>5
       DEF SynchNext, sem_create, sem_destroy, P_sleep, P_done, lock_create, lock_destroy,
           lock_acquire_sleep, lock_acquire_done, thread_fork, thread_exit
<1>. QED BY <1>1, SynchInvariant, PTL DEF SynchSpec, NoSpuriousWakeup

\* P, V, lock_acquire and lock_release use the threads only as thread.h allows:
\* a behaviour of Synch is one of ThreadSpec.
THEOREM SynchKeepsThreadPromise == SynchSpec => ThreadPromise
<1>1. SynchInit => SpecInit
  BY DEF SynchInit
<1>2. [SynchNext]_<<specVars, synchVars>> => [SpecNext]_specVars
  <2> SUFFICES ASSUME SynchNext PROVE SpecNext \/ UNCHANGED specVars
    BY DEF synchVars
  <2> USE SynchAssumption DEF SpecNext
  <2>1. ASSUME NEW s \in Sem, V(s) PROVE SpecNext
    BY <2>1 DEF V
  <2>2. ASSUME NEW t \in Thread, NEW l \in Lock, lock_release(t, l)
        PROVE SpecNext \/ UNCHANGED specVars
    BY <2>2 DEF lock_release
  <2>3. ASSUME NEW t \in Thread, NEW o \in Sem \cup Lock, Sleep(t, o) PROVE SpecNext
    BY <2>3
  <2>4. ASSUME NEW t \in Thread, Fork(t) \/ Exit(t) PROVE SpecNext
    BY <2>4
  <2>. QED
    BY <2>1, <2>2, <2>3, <2>4
       DEF SynchNext, sem_create, sem_destroy, P_sleep, P_done, lock_create, lock_destroy,
           lock_acquire_sleep, lock_acquire_done, thread_fork, thread_exit
<1>. QED BY <1>1, <1>2, PTL DEF SynchSpec, ThreadPromise
=============================================================================
