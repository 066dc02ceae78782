---------------------------- MODULE ThreadSystem ----------------------------
(***************************************************************************)
(* The kernel thread system of kern/thread (thread.c, scheduler.c,         *)
(* hardclock.c) with the processor's part in it (mips/pcb.c md_switch,     *)
(* mips/interrupt.c, cpu_idle and cpu_halt of mips/spl.c).                 *)
(*                                                                         *)
(* One processor.  Code between splhigh and splx, and an interrupt         *)
(* handler, cannot be interrupted: each such section is one step.          *)
(* Anything else can be preempted by hardclock between two steps.          *)
(***************************************************************************)
EXTENDS Integers, FiniteSets, SequencesExt

CONSTANTS Thread,       \* addresses of thread structures; kfree'd ones are reused
          boot,         \* the "<boot/menu>" thread
          Addr,         \* sleep addresses
          lbolt,        \* the one hardclock wakes every HZ ticks
          HZ,           \* ticks a second (the code's value is from clock.h)
          RunqueueInit, \* initial size of the run queue (q_create(32) in the code)
          NULL

ASSUME ThreadAssumption ==
  /\ IsFiniteSet(Thread) /\ boot \in Thread /\ lbolt \in Addr
  /\ NULL \notin Thread /\ NULL \notin Addr /\ NULL \notin {0, 1}
  /\ HZ \in Nat \ {0} /\ RunqueueInit \in Nat \ {0}

VARIABLES
  curthread,      \* running thread; NULL while scheduler() waits in cpu_idle
  onstack,        \* whose kernel stack and pcb the processor is using
  runqueue, sleepers, zombies,    \* Seq(Thread), as in the code
  numthreads,     \* "outstanding threads. Does not count zombies[]"
  t_sleepaddr,    \* field of struct thread
  allocated,      \* thread structures (with their stack) kmalloc has handed out
  fresh,          \* threads that are to start in mi_threadstart
  newguy,         \* local of thread_fork: the thread a caller is making, or NULL
  in_interrupt, pcb_ininterrupt,  \* global, and its per-thread copy in the pcb
  old_in,         \* local of mips_interrupt in a preempted thread's frame, or NULL
  lbolt_counter,
  sleepersMax, zombiesMax, runqueueMax,   \* slots preallocated so far
  up              \* FALSE after panic or shutdown

queues == <<runqueue, sleepers, zombies>>
capacity == <<sleepersMax, zombiesMax, runqueueMax>>
cpu == <<curthread, onstack, in_interrupt, pcb_ininterrupt, old_in>>
vars == <<cpu, queues, capacity, numthreads, t_sleepaddr, allocated, fresh,
          newguy, lbolt_counter, up>>

-----------------------------------------------------------------------------
\* The run queue has room from the start.
scheduler_bootstrap == runqueue = <<>> /\ runqueueMax = RunqueueInit

\* thread_bootstrap, and the globals' initial values.
Init ==
  /\ scheduler_bootstrap
  /\ curthread = boot /\ onstack = boot
  /\ sleepers = <<>> /\ zombies = <<>>
  /\ numthreads = 1
  /\ t_sleepaddr = [t \in Thread |-> NULL]
  /\ allocated = {boot} /\ fresh = {}
  /\ newguy = [t \in Thread |-> NULL]
  /\ in_interrupt = 0
  /\ pcb_ininterrupt = [t \in Thread |-> 0]
  /\ old_in = [t \in Thread |-> NULL]
  /\ lbolt_counter = 0
  /\ sleepersMax = 0 /\ zombiesMax = 0
  /\ up = TRUE

-----------------------------------------------------------------------------
(* Context switch. *)

\* exorcise frees every zombie, but a thread that runs for the first time
\* comes out of the switch in mi_threadstart and does not call it.
Exorcise(next, zs) ==
  IF next \in fresh
  THEN zombies' = zs /\ UNCHANGED allocated
  ELSE zombies' = <<>> /\ allocated' = allocated \ ToSet(zs)

\* Mutant of SwitchTo: in_interrupt is not kept per thread.
SwitchTo_global(cur, next, zs, ii, oi) ==
  /\ curthread' = next
  /\ onstack' = next
  /\ in_interrupt' = IF oi[next] = NULL THEN ii ELSE oi[next]
  /\ old_in' = [oi EXCEPT ![next] = NULL]
  /\ Exorcise(next, zs)
  /\ fresh' = fresh \ {next}
  /\ UNCHANGED pcb_ininterrupt

\* md_switch from cur to next, with in_interrupt = ii, zombies = zs and
\* old_in = oi when it is called, and what next does before interrupts are on
\* again: it goes on after mi_switch (exorcise, t_sleepaddr = NULL if it was in
\* thread_sleep) and leaves the mips_interrupt it was preempted in, if any.
SwitchTo(cur, next, zs, ii, oi) ==
  LET resumed == IF cur = next THEN ii ELSE pcb_ininterrupt[next]
  IN  /\ curthread' = next
      /\ onstack' = next
      /\ pcb_ininterrupt' =
           IF cur = next THEN pcb_ininterrupt ELSE [pcb_ininterrupt EXCEPT ![cur] = ii]
      /\ in_interrupt' = IF oi[next] = NULL THEN resumed ELSE oi[next]
      /\ old_in' = [oi EXCEPT ![next] = NULL]
      /\ Exorcise(next, zs)
      /\ fresh' = fresh \ {next}

\* Mutant of MiSwitch: zombies are freed before the idle loop, not after the switch.
MiSwitch_early(cur, rq, zs, slp, ii, oi) ==
  IF rq = <<>>
  THEN /\ curthread' = NULL
       /\ runqueue' = rq /\ t_sleepaddr' = slp
       /\ zombies' = <<>> /\ allocated' = allocated \ ToSet(zs)
       /\ UNCHANGED <<onstack, in_interrupt, pcb_ininterrupt, old_in, fresh>>
  ELSE /\ SwitchTo(cur, Head(rq), zs, ii, oi)
       /\ runqueue' = Tail(rq)
       /\ t_sleepaddr' = [slp EXCEPT ![Head(rq)] = NULL]

\* mi_switch after it has stashed cur: rq and zs are the run queue and the
\* zombies with cur on its list, slp the t_sleepaddr fields.  With nothing
\* ready, scheduler() stays in its cpu_idle loop, on cur's stack.
MiSwitch(cur, rq, zs, slp, ii, oi) ==
  IF rq = <<>>
  THEN /\ curthread' = NULL
       /\ runqueue' = rq /\ zombies' = zs /\ t_sleepaddr' = slp
       /\ UNCHANGED <<onstack, in_interrupt, pcb_ininterrupt, old_in, allocated, fresh>>
  ELSE /\ SwitchTo(cur, Head(rq), zs, ii, oi)
       /\ runqueue' = Tail(rq)
       /\ t_sleepaddr' = [slp EXCEPT ![Head(rq)] = NULL]

\* A thread is running, or scheduler() is in cpu_idle, where only interrupts do
\* anything.
Running == up /\ curthread # NULL
Idle == up /\ curthread = NULL

\* The running thread is not in the middle of thread_fork.
CanCall == Running /\ newguy[curthread] = NULL

-----------------------------------------------------------------------------
(* Operations of the running thread. *)

\* A new thread's pcb makes it start in mi_threadstart, outside any interrupt.
md_initpcb(t) ==
  /\ fresh' = fresh \cup {t}
  /\ pcb_ininterrupt' = [pcb_ininterrupt EXCEPT ![t] = 0]

\* thread_create, the stack's kmalloc and md_initpcb, in thread_fork with
\* interrupts on.  (If kmalloc fails, what was allocated is freed and
\* thread_fork returns ENOMEM: no state changes.)
thread_create(t) ==
  /\ CanCall
  /\ t \notin allocated
  /\ allocated' = allocated \cup {t}
  /\ t_sleepaddr' = [t_sleepaddr EXCEPT ![t] = NULL]
  /\ md_initpcb(t)
  /\ newguy' = [newguy EXCEPT ![curthread] = t]
  /\ UNCHANGED <<curthread, onstack, in_interrupt, old_in, queues, capacity,
                 numthreads, lbolt_counter, up>>

\* Mutant of AtLeast: one slot too few.
AtLeast_short(cap, n) == IF cap < n - 1 THEN n - 1 ELSE cap

\* array_preallocate and q_preallocate: room for at least n.
AtLeast(cap, n) == IF cap < n THEN n ELSE cap

\* The splhigh section of thread_fork: preallocate, make_runnable, count.
thread_fork ==
  /\ Running
  /\ newguy[curthread] \in fresh
  /\ sleepersMax' = AtLeast(sleepersMax, numthreads + 1)
  /\ zombiesMax' = AtLeast(zombiesMax, numthreads + 1)
  /\ runqueueMax' = AtLeast(runqueueMax, numthreads + 1)
  /\ runqueue' = Append(runqueue, newguy[curthread])
  /\ numthreads' = numthreads + 1
  /\ newguy' = [newguy EXCEPT ![curthread] = NULL]
  /\ UNCHANGED <<cpu, sleepers, zombies, t_sleepaddr, allocated, fresh,
                 lbolt_counter, up>>

\* The same section with a preallocation out of memory, after done of the
\* three have succeeded: the slots stay, and the new thread will not start.
thread_fork_fail(done) ==
  /\ Running
  /\ newguy[curthread] \in fresh
  /\ sleepersMax' = IF done >= 1 THEN AtLeast(sleepersMax, numthreads + 1) ELSE sleepersMax
  /\ zombiesMax' = IF done >= 2 THEN AtLeast(zombiesMax, numthreads + 1) ELSE zombiesMax
  /\ fresh' = fresh \ {newguy[curthread]}
  /\ UNCHANGED <<cpu, queues, runqueueMax, numthreads, t_sleepaddr, allocated,
                 newguy, lbolt_counter, up>>

\* fail: after the splx the new thread is freed, with interrupts on.
thread_fork_free ==
  /\ Running
  /\ newguy[curthread] \in allocated \ fresh
  /\ allocated' = allocated \ {newguy[curthread]}
  /\ newguy' = [newguy EXCEPT ![curthread] = NULL]
  /\ UNCHANGED <<cpu, queues, capacity, numthreads, t_sleepaddr, fresh,
                 lbolt_counter, up>>

\* mi_switch(S_READY) from thread context; splx afterwards.
thread_yield ==
  /\ CanCall
  /\ MiSwitch(curthread, Append(runqueue, curthread), zombies, t_sleepaddr,
              in_interrupt, old_in)
  /\ UNCHANGED <<sleepers, capacity, numthreads, newguy, lbolt_counter, up>>

\* mi_switch(S_SLEEP).  The caller has interrupts off, so nothing comes between
\* its decision to sleep and this step.
thread_sleep(addr) ==
  /\ CanCall
  /\ sleepers' = Append(sleepers, curthread)
  /\ MiSwitch(curthread, runqueue, zombies, [t_sleepaddr EXCEPT ![curthread] = addr],
              in_interrupt, old_in)
  /\ UNCHANGED <<capacity, numthreads, newguy, lbolt_counter, up>>

\* The first thread runs menu(), which loops forever, so it never exits.
thread_exit ==
  /\ CanCall
  /\ curthread # boot
  /\ numthreads' = numthreads - 1
  /\ MiSwitch(curthread, runqueue, Append(zombies, curthread), t_sleepaddr,
              in_interrupt, old_in)
  /\ UNCHANGED <<sleepers, capacity, newguy, lbolt_counter, up>>

\* The elements of s that are in S, in their order.
Among(s, S) ==
  LET f[i \in 0 .. Len(s)] ==
        IF i = 0 THEN <<>>
        ELSE IF s[i] \in S THEN Append(f[i - 1], s[i]) ELSE f[i - 1]
  IN f[Len(s)]

\* The loop of thread_wakeup: the threads it takes out of sleepers, in their
\* order, which is the order make_runnable appends them in, and the others.
Woken(addr) == Among(sleepers, {t \in Thread : t_sleepaddr[t] = addr})
StillAsleep(addr) == Among(sleepers, {t \in Thread : t_sleepaddr[t] # addr})

\* Mutant of thread_wakeup: woken threads go to the head of the run queue.
thread_wakeup_head(addr) ==
  /\ up
  /\ addr # lbolt
  /\ sleepers' = StillAsleep(addr)
  /\ runqueue' = Woken(addr) \o runqueue
  /\ UNCHANGED <<cpu, zombies, capacity, numthreads, t_sleepaddr, allocated,
                 fresh, newguy, lbolt_counter, up>>

\* Mutant of thread_wakeup: the loop stops at the first thread.
thread_wakeup_one(addr) ==
  /\ up
  /\ addr # lbolt
  /\ Woken(addr) # <<>>
  /\ sleepers' = Remove(sleepers, Head(Woken(addr)))
  /\ runqueue' = Append(runqueue, Head(Woken(addr)))
  /\ UNCHANGED <<cpu, zombies, capacity, numthreads, t_sleepaddr, allocated,
                 fresh, newguy, lbolt_counter, up>>

\* Called by the running thread, or by a device's interrupt handler, which may
\* also interrupt the idle loop and restores in_interrupt when it returns.
thread_wakeup(addr) ==
  /\ up
  /\ addr # lbolt
  /\ sleepers' = StillAsleep(addr)
  /\ runqueue' = runqueue \o Woken(addr)
  /\ UNCHANGED <<cpu, zombies, capacity, numthreads, t_sleepaddr, allocated,
                 fresh, newguy, lbolt_counter, up>>

-----------------------------------------------------------------------------
(* The clock, the idle loop, and the end. *)

\* Mutant of LboltDue: > for >=.
LboltDue_late == lbolt_counter + 1 > HZ

LboltDue == lbolt_counter + 1 >= HZ
Ticked(rq) == IF LboltDue THEN rq \o Woken(lbolt) ELSE rq
CountTick ==
  /\ lbolt_counter' = IF LboltDue THEN 0 ELSE lbolt_counter + 1
  /\ sleepers' = IF LboltDue THEN StillAsleep(lbolt) ELSE sleepers

\* Mutant of hardclock: it does not yield.
hardclock_noyield ==
  /\ Running
  /\ CountTick
  /\ runqueue' = Ticked(runqueue)
  /\ UNCHANGED <<cpu, zombies, capacity, numthreads, t_sleepaddr, allocated,
                 fresh, newguy, up>>

\* A timer interrupt while a thread runs: mips_interrupt saves in_interrupt in
\* its frame, hardclock ticks and yields.
hardclock ==
  /\ Running
  /\ CountTick
  /\ MiSwitch(curthread, Append(Ticked(runqueue), curthread), zombies, t_sleepaddr,
              1, [old_in EXCEPT ![curthread] = in_interrupt])
  /\ UNCHANGED <<capacity, numthreads, newguy, up>>

\* Mutant of hardclock_idle: mi_switch does not notice that it is in the scheduler.
hardclock_idle_again ==
  /\ Idle
  /\ CountTick
  /\ runqueue' = Append(Ticked(runqueue), onstack)
  /\ UNCHANGED <<cpu, zombies, capacity, numthreads, t_sleepaddr, allocated,
                 fresh, newguy, up>>

\* Mutant of hardclock_idle: the clock is ignored in the idle loop.
hardclock_idle_deaf == Idle /\ UNCHANGED vars

\* The same interrupt in cpu_idle: mi_switch finds curthread NULL and returns.
hardclock_idle ==
  /\ Idle
  /\ CountTick
  /\ runqueue' = Ticked(runqueue)
  /\ UNCHANGED <<cpu, zombies, capacity, numthreads, t_sleepaddr, allocated,
                 fresh, newguy, up>>

\* cpu_idle returns to scheduler() and there is somebody to run.
scheduler ==
  /\ Idle
  /\ runqueue # <<>>
  /\ MiSwitch(onstack, runqueue, zombies, t_sleepaddr, in_interrupt, old_in)
  /\ UNCHANGED <<sleepers, capacity, numthreads, newguy, lbolt_counter, up>>

\* "We drop them on the floor": no thread is freed.
scheduler_killall == runqueue' = <<>>
thread_killall == sleepers' = <<>>

\* panic: thread_panic drops every other thread, interrupts stay off until
\* md_panic powers off.
thread_panic ==
  /\ up
  /\ thread_killall /\ scheduler_killall
  /\ up' = FALSE
  /\ UNCHANGED <<cpu, zombies, capacity, numthreads, t_sleepaddr, allocated,
                 fresh, newguy, lbolt_counter>>

\* array_destroy: "If not empty, the contents are lost" (array.h).
thread_shutdown == sleepers' = <<>> /\ zombies' = <<>>

\* shutdown() of sys_reboot: scheduler_shutdown empties and destroys the run
\* queue, thread_shutdown the arrays; then the machine stops.
shutdown ==
  /\ CanCall
  /\ scheduler_killall /\ thread_shutdown
  /\ up' = FALSE
  /\ UNCHANGED <<cpu, capacity, numthreads, t_sleepaddr, allocated, fresh,
                 newguy, lbolt_counter>>

\* cpu_halt: wait forever with interrupts off.
cpu_halt == ~up /\ UNCHANGED vars

Next ==
  \/ \E t \in Thread : thread_create(t)
  \/ thread_fork
  \/ \E done \in 0..2 : thread_fork_fail(done)
  \/ thread_fork_free
  \/ thread_yield
  \/ \E a \in Addr : thread_sleep(a)
  \/ \E a \in Addr : thread_wakeup(a)
  \/ thread_exit
  \/ hardclock \/ hardclock_idle \/ scheduler
  \/ thread_panic \/ shutdown \/ cpu_halt

\* The timer device interrupts HZ times a second, and the processor executes
\* the idle loop.  Nothing is assumed of the threads themselves.
Spec == Init /\ [][Next]_vars /\ WF_vars(hardclock \/ hardclock_idle) /\ WF_vars(scheduler)

-----------------------------------------------------------------------------
(* Properties. *)

TypeOK ==
  /\ curthread \in Thread \cup {NULL} /\ onstack \in Thread
  /\ runqueue \in Seq(Thread) /\ sleepers \in Seq(Thread) /\ zombies \in Seq(Thread)
  /\ numthreads \in 1..Cardinality(Thread)
  /\ t_sleepaddr \in [Thread -> Addr \cup {NULL}]
  /\ allocated \subseteq Thread /\ fresh \subseteq allocated
  /\ newguy \in [Thread -> Thread \cup {NULL}]
  /\ in_interrupt \in {0, 1} /\ pcb_ininterrupt \in [Thread -> {0, 1}]
  /\ old_in \in [Thread -> {0, 1, NULL}]
  /\ lbolt_counter \in 0..HZ-1
  /\ {sleepersMax, zombiesMax, runqueueMax} \subseteq 0..(Cardinality(Thread) + RunqueueInit)
  /\ up \in BOOLEAN

BeingForked == {newguy[t] : t \in Thread} \ {NULL}
Places(t) ==
  Cardinality({i \in DOMAIN runqueue : runqueue[i] = t})
  + Cardinality({i \in DOMAIN sleepers : sleepers[i] = t})
  + Cardinality({i \in DOMAIN zombies : zombies[i] = t})
  + Cardinality({t} \cap {curthread})
  + Cardinality({u \in Thread : newguy[u] = t})

\* No thread is lost or on two lists: each allocated structure is running, or
\* once on one list, or still being forked, and a freed one is nowhere; and
\* numthreads counts the ones that are neither exited nor being forked.  (A
\* thread on two lists is what a second switch from the idle loop would do.)
ThreadsConserved ==
  up => /\ \A t \in Thread : Places(t) = IF t \in allocated THEN 1 ELSE 0
        /\ numthreads = Cardinality(allocated \ (ToSet(zombies) \cup BeingForked))

\* The stack in use is never freed, even while the idle loop runs on the stack
\* of a thread that has exited: thread_destroy "cannot be called in the victim
\* thread's own context".
StackSafe ==
  /\ onstack \in allocated
  /\ curthread # NULL => onstack = curthread

\* When a thread executes its own code, no interrupt handler is left half done
\* in its context: in_interrupt is 0 (else the assertion of thread_sleep and P
\* would fail), and t_sleepaddr is NULL.
CleanContext ==
  Running => /\ in_interrupt = 0
             /\ old_in[curthread] = NULL
             /\ t_sleepaddr[curthread] = NULL

\* What thread_fork preallocates is enough for mi_switch and thread_wakeup never
\* to have to grow sleepers or the run queue, counting the threads that may
\* still come back to the run queue.  (Before the first thread_fork nothing
\* has been preallocated for sleepers.)
PreallocationSuffices ==
  /\ numthreads > 1 => Len(sleepers) <= sleepersMax
  /\ Len(runqueue) <= runqueueMax
  /\ up => Len(runqueue) + Len(sleepers) + Cardinality({curthread} \ {NULL}) <= runqueueMax

\* mi_switch on the three lists: "Because we preallocate during thread_fork,
\* this should not fail."  For zombies[] this is false.
ZombiesPreallocated == Len(zombies) <= zombiesMax

\* Round robin: a step never reorders the run queue.  It appends, and takes the
\* head only to run it.
NoOvertaking ==
  [][up' => \/ IsPrefix(runqueue, runqueue')
            \/ /\ runqueue # <<>>
               /\ curthread' = Head(runqueue)
               /\ IsPrefix(Tail(runqueue), runqueue')]_vars

\* A ready thread gets the processor, whatever the others do, because the clock
\* preempts them.
ReadyRuns ==
  \A t \in Thread : t \in ToSet(runqueue) ~> (curthread = t \/ ~up)

\* A thread in clocksleep runs again: the clock goes on counting and waking in
\* the idle loop, where it cannot switch.
ClockSleepEnds ==
  \A t \in Thread :
    (t \in ToSet(sleepers) /\ t_sleepaddr[t] = lbolt) ~> (curthread = t \/ ~up)

\* The thread system keeps the promise of thread.h.
Promise == INSTANCE ThreadSpec WITH
  status <- [t \in Thread |->
               IF t = curthread \/ t \in ToSet(runqueue) THEN "runnable"
               ELSE IF t \in ToSet(sleepers) THEN "asleep" ELSE "none"],
  waddr <- [t \in Thread |-> IF t \in ToSet(sleepers) THEN t_sleepaddr[t] ELSE NULL]
KeepsPromise == Promise!ThreadPromise
=============================================================================
