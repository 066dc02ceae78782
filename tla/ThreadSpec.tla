----------------------------- MODULE ThreadSpec -----------------------------
(***************************************************************************)
(* What kern/include/thread.h promises its callers, with the run queue,    *)
(* the context switch and the processor left out: a thread exists or not,  *)
(* is runnable or asleep on an address, a wakeup wakes all and only the    *)
(* threads asleep on that address, and an exited thread is gone until its  *)
(* structure is allocated again.  Module ThreadSystem implements it;       *)
(* module Synch is built on it.                                            *)
(***************************************************************************)
CONSTANTS Thread,   \* addresses of thread structures (kmalloc may reuse one)
          boot,     \* the "<boot/menu>" thread made by thread_bootstrap
          Addr,     \* sleep addresses
          NULL

ASSUME SpecAssumption == boot \in Thread /\ NULL \notin Thread /\ NULL \notin Addr

VARIABLES status,   \* "none", "runnable" (running or ready) or "asleep"
          waddr     \* the address an "asleep" thread waits on, else NULL

specVars == <<status, waddr>>

Live == {t \in Thread : status[t] # "none"}
AsleepOn(a) == {t \in Thread : status[t] = "asleep" /\ waddr[t] = a}

SpecTypeOK == /\ status \in [Thread -> {"none", "runnable", "asleep"}]
              /\ waddr \in [Thread -> Addr \cup {NULL}]

SpecInit == /\ status = [t \in Thread |-> IF t = boot THEN "runnable" ELSE "none"]
            /\ waddr = [t \in Thread |-> NULL]

\* thread_fork returned 0: a new thread that is ready to run.
Fork(t) == /\ status[t] = "none"
           /\ status' = [status EXCEPT ![t] = "runnable"]
           /\ UNCHANGED waddr

\* thread_sleep: the caller stops until somebody wakes the address.
Sleep(t, a) == /\ status[t] = "runnable"
               /\ status' = [status EXCEPT ![t] = "asleep"]
               /\ waddr' = [waddr EXCEPT ![t] = a]

\* Mutant of Wakeup: it wakes every sleeper.
Wakeup_all(a) ==
  /\ status' = [t \in Thread |-> IF status[t] = "asleep" THEN "runnable" ELSE status[t]]
  /\ waddr' = [t \in Thread |-> NULL]

\* thread_wakeup: "Cause all threads sleeping on the specified address to
\* wake up", and no other.
Wakeup(a) ==
  /\ status' = [t \in Thread |-> IF t \in AsleepOn(a) THEN "runnable" ELSE status[t]]
  /\ waddr' = [t \in Thread |-> IF t \in AsleepOn(a) THEN NULL ELSE waddr[t]]

\* thread_exit: only a thread that is running can exit.
Exit(t) == /\ status[t] = "runnable"
           /\ status' = [status EXCEPT ![t] = "none"]
           /\ UNCHANGED waddr

\* Panic or shutdown: at most one thread, the one doing it, is left.
Down == /\ \E left \in SUBSET {t \in Thread : status[t] = "runnable"} :
             /\ \A t, u \in left : t = u
             /\ status' = [t \in Thread |-> IF t \in left THEN "runnable" ELSE "none"]
        /\ waddr' = [t \in Thread |-> NULL]

SpecNext == \/ \E t \in Thread : Fork(t) \/ Exit(t)
            \/ \E t \in Thread, a \in Addr : Sleep(t, a)
            \/ \E a \in Addr : Wakeup(a)
            \/ Down

ThreadPromise == SpecInit /\ [][SpecNext]_specVars
=============================================================================
