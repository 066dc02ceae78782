------------------------------- MODULE Synch --------------------------------
(***************************************************************************)
(* Semaphores and locks of kern/thread/synch.c, on the promise of the      *)
(* thread system (ThreadSpec): a thread that is "runnable" may be the next *)
(* to execute, since hardclock can preempt it anywhere outside splhigh.    *)
(*                                                                         *)
(* P and lock_acquire are loops around thread_sleep: the call is one step  *)
(* for every pass of the loop, a thread that was woken tests again.        *)
(***************************************************************************)
EXTENDS ThreadSpec, Integers

CONSTANTS Sem, Lock,    \* addresses of semaphores and of locks
          MaxCount      \* bound on a semaphore's count

ASSUME SynchAssumption == /\ Sem \subseteq Addr /\ Lock \subseteq Addr
                          /\ Sem \cap Lock = {}
                          /\ MaxCount \in Nat

VARIABLES
  alive,          \* objects created and not destroyed
  count,          \* sem->count
  held, holder,   \* lock->held (0 or 1) and lock->holder
  incall,         \* the object in whose P or lock_acquire a thread is, or NULL
  owns,           \* history: who has returned from lock_acquire and not released
  orphaned        \* history: locks whose owner exited without releasing them

synchVars == <<alive, count, held, holder, incall, owns, orphaned>>

SynchInit == /\ SpecInit
             /\ alive = {}
             /\ count = [s \in Sem |-> 0]
             /\ held = [l \in Lock |-> 0]
             /\ holder = [l \in Lock |-> NULL]
             /\ incall = [t \in Thread |-> NULL]
             /\ owns = [l \in Lock |-> {}]
             /\ orphaned = {}

CanCall(t) == status[t] = "runnable" /\ incall[t] = NULL

\* t starts the call on o, or comes back from thread_sleep to test o again.
Tests(t, o) == /\ status[t] = "runnable"
               /\ incall[t] \in {NULL, o}
               /\ o \in alive

\* Callers destroy an object only when nobody is inside a call on it: the
\* functions do not protect against more (see the note in sem_destroy).
Unused(o) == \A t \in Thread : incall[t] # o

\* Objects are made and destroyed by threads, not by interrupt handlers.
ThreadRunning == \E t \in Thread : CanCall(t)

-----------------------------------------------------------------------------
sem_create(s, initial_count) ==
  /\ ThreadRunning
  /\ s \notin alive
  /\ alive' = alive \cup {s}
  /\ count' = [count EXCEPT ![s] = initial_count]
  /\ UNCHANGED <<specVars, held, holder, incall, owns, orphaned>>

\* Asserts that the semaphore has no sleepers, and frees it.
sem_destroy(s) ==
  /\ ThreadRunning
  /\ s \in alive
  /\ AsleepOn(s) = {} /\ Unused(s)
  /\ alive' = alive \ {s}
  /\ UNCHANGED <<specVars, count, held, holder, incall, owns, orphaned>>

P_sleep(t, s) ==
  /\ Tests(t, s)
  /\ count[s] = 0
  /\ Sleep(t, s)
  /\ incall' = [incall EXCEPT ![t] = s]
  /\ UNCHANGED <<alive, count, held, holder, owns, orphaned>>

\* Mutant of P_done: "if" for "while", a woken thread does not test again.
P_done_if(t, s) ==
  /\ Tests(t, s)
  /\ count[s] # 0 \/ incall[t] = s
  /\ count' = [count EXCEPT ![s] = @ - 1]
  /\ incall' = [incall EXCEPT ![t] = NULL]
  /\ UNCHANGED <<specVars, alive, held, holder, owns, orphaned>>

P_done(t, s) ==
  /\ Tests(t, s)
  /\ count[s] # 0
  /\ count' = [count EXCEPT ![s] = @ - 1]
  /\ incall' = [incall EXCEPT ![t] = NULL]
  /\ UNCHANGED <<specVars, alive, held, holder, owns, orphaned>>

\* By a thread or by an interrupt handler.
V(s) ==
  /\ s \in alive
  /\ count[s] < MaxCount
  /\ count' = [count EXCEPT ![s] = @ + 1]
  /\ Wakeup(s)
  /\ UNCHANGED <<alive, held, holder, incall, owns, orphaned>>

-----------------------------------------------------------------------------
lock_create(l) ==
  /\ ThreadRunning
  /\ l \notin alive
  /\ alive' = alive \cup {l}
  /\ held' = [held EXCEPT ![l] = 0]
  /\ holder' = [holder EXCEPT ![l] = NULL]
  /\ UNCHANGED <<specVars, count, incall, owns, orphaned>>

lock_destroy(l) ==
  /\ ThreadRunning
  /\ l \in alive
  /\ held[l] = 0 /\ Unused(l)
  /\ alive' = alive \ {l}
  /\ UNCHANGED <<specVars, count, held, holder, incall, owns, orphaned>>

lock_acquire_sleep(t, l) ==
  /\ Tests(t, l)
  /\ held[l] = 1
  /\ Sleep(t, l)
  /\ incall' = [incall EXCEPT ![t] = l]
  /\ UNCHANGED <<alive, count, held, holder, owns, orphaned>>

\* Mutant of lock_acquire_done: "if" for "while".
lock_acquire_done_if(t, l) ==
  /\ Tests(t, l)
  /\ held[l] = 0 \/ incall[t] = l
  /\ held' = [held EXCEPT ![l] = 1]
  /\ holder' = [holder EXCEPT ![l] = t]
  /\ owns' = [owns EXCEPT ![l] = @ \cup {t}]
  /\ incall' = [incall EXCEPT ![t] = NULL]
  /\ UNCHANGED <<specVars, alive, count, orphaned>>

lock_acquire_done(t, l) ==
  /\ Tests(t, l)
  /\ held[l] = 0
  /\ held' = [held EXCEPT ![l] = 1]
  /\ holder' = [holder EXCEPT ![l] = t]
  /\ owns' = [owns EXCEPT ![l] = @ \cup {t}]
  /\ incall' = [incall EXCEPT ![t] = NULL]
  /\ UNCHANGED <<specVars, alive, count, orphaned>>

\* Mutant of lock_do_i_hold: only the holder field is looked at.
lock_do_i_hold_stale(t, l) == holder[l] = t

lock_do_i_hold(t, l) == holder[l] = t /\ held[l] = 1

\* Mutant of lock_release: the sleepers are not woken.
lock_release_silent(t, l) ==
  /\ CanCall(t)
  /\ l \in alive
  /\ lock_do_i_hold(t, l)
  /\ held' = [held EXCEPT ![l] = 0]
  /\ owns' = [owns EXCEPT ![l] = @ \ {t}]
  /\ orphaned' = orphaned \ {l}
  /\ UNCHANGED <<specVars, alive, count, holder, incall>>

\* The holder is not cleared.  A thread that does not hold the lock returns
\* without a word.
lock_release(t, l) ==
  /\ CanCall(t)
  /\ l \in alive
  /\ IF held[l] = 1 /\ lock_do_i_hold(t, l)
     THEN /\ held' = [held EXCEPT ![l] = 0]
          /\ owns' = [owns EXCEPT ![l] = @ \ {t}]
          /\ orphaned' = orphaned \ {l}
          /\ Wakeup(l)
          /\ UNCHANGED <<alive, count, holder, incall>>
     ELSE UNCHANGED <<specVars, synchVars>>

-----------------------------------------------------------------------------
thread_fork(t) == Fork(t) /\ UNCHANGED synchVars

\* Nothing releases the locks of a thread that exits; its structure is freed
\* and may become another thread's.
thread_exit(t) ==
  /\ CanCall(t) /\ t # boot
  /\ Exit(t)
  /\ owns' = [l \in Lock |-> owns[l] \ {t}]
  /\ orphaned' = orphaned \cup {l \in Lock : t \in owns[l]}
  /\ UNCHANGED <<alive, count, held, holder, incall>>

SynchNext ==
  \/ \E s \in Sem : \/ \E n \in 0..MaxCount : sem_create(s, n)
                    \/ sem_destroy(s) \/ V(s)
  \/ \E t \in Thread, s \in Sem : P_sleep(t, s) \/ P_done(t, s)
  \/ \E l \in Lock : lock_create(l) \/ lock_destroy(l)
  \/ \E t \in Thread, l \in Lock :
       lock_acquire_sleep(t, l) \/ lock_acquire_done(t, l) \/ lock_release(t, l)
  \/ \E t \in Thread : thread_fork(t) \/ thread_exit(t)

SynchSpec == SynchInit /\ [][SynchNext]_<<specVars, synchVars>>

-----------------------------------------------------------------------------
(* Properties. *)

SynchTypeOK ==
  /\ SpecTypeOK
  /\ alive \subseteq Sem \cup Lock
  /\ count \in [Sem -> 0..MaxCount]
  /\ held \in [Lock -> {0, 1}]
  /\ holder \in [Lock -> Thread \cup {NULL}]
  /\ incall \in [Thread -> Sem \cup Lock \cup {NULL}]
  /\ owns \in [Lock -> SUBSET Thread]
  /\ orphaned \subseteq Lock

\* "Only one thread can hold the lock at the same time" (synch.h), whoever else
\* was woken by the same release, and the lock knows which: whoever has
\* acquired it and not released it is the one lock_do_i_hold answers 1 to.
MutualExclusion ==
  \A l \in Lock : \A t \in owns[l] :
    /\ \A u \in owns[l] : u = t
    /\ holder[l] = t /\ held[l] = 1

\* Nobody sleeps on what could be had: a lock with sleepers is held and a
\* semaphore with sleepers is at 0, so a wakeup still has to come.
NoLostWakeup ==
  /\ \A l \in Lock : AsleepOn(l) # {} => held[l] = 1
  /\ \A s \in Sem : AsleepOn(s) # {} => count[s] = 0

\* A sleeper goes on only in the step that frees the lock, or raises the
\* semaphore, that it sleeps on.
NoSpuriousWakeup ==
  [][\A t \in Thread :
       status[t] = "asleep" /\ status'[t] # "asleep" =>
         \/ waddr[t] \in Lock /\ held[waddr[t]] = 1 /\ held'[waddr[t]] = 0
         \/ waddr[t] \in Sem /\ count'[waddr[t]] > count[waddr[t]]
    ]_<<specVars, synchVars>>

\* lock_do_i_hold tells a live thread the truth, as long as no thread has
\* exited with the lock held.
HoldTruthful ==
  \A l \in Lock \ orphaned, t \in Live : lock_do_i_hold(t, l) <=> t \in owns[l]

\* "lock_do_i_hold - Return true if the current thread holds the lock; false
\* otherwise" (synch.h), without that exception.
DoIHoldTruthful ==
  \A l \in Lock, t \in Live : lock_do_i_hold(t, l) <=> t \in owns[l]

-----------------------------------------------------------------------------
(* The inductive invariant behind these (proved in SynchProofs). *)

\* A sleeper is inside a call on the object it sleeps on, and an object somebody
\* is in a call on has not been destroyed.
SleepersInCall ==
  \A t \in Thread : /\ status[t] = "asleep" => incall[t] # NULL /\ waddr[t] = incall[t]
                    /\ incall[t] # NULL => incall[t] \in alive

\* A held lock exists, and its holder field names its owner unless that has
\* exited.
HeldByOwner ==
  \A l \in Lock : held[l] = 1 => /\ l \in alive
                                 /\ l \in orphaned \/ holder[l] \in owns[l]

SynchInv == /\ SynchTypeOK /\ MutualExclusion /\ NoLostWakeup
            /\ SleepersInCall /\ HeldByOwner
=============================================================================
