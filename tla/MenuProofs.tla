----------------------------- MODULE MenuProofs -----------------------------
(***************************************************************************)
(* Proofs about Menu, for any children, disks, command lines and bounds.   *)
(***************************************************************************)
EXTENDS Menu, FiniteSetTheorems, TLAPS

\* The functions of boot() that have been called after k steps.
Called(k) == {BootOrder[i] : i \in 1 .. k}

\* While boot() runs there is no other thread, and interrupts are on from
\* dev_bootstrap on.
BootInv ==
  /\ \A t \in Child : pc[t] # "boot"
  /\ pc[boot] = "boot" =>
       /\ \A t \in Child : pc[t] = "none"
       /\ \E k \in 0 .. 7 : up = Called(k) /\ (ie <=> k >= 5)

\* A thread in the last part of shutdown() has turned interrupts off.
MaskInv ==
  \A t \in Thread : pc[t] \in {"scheduler_shutdown", "thread_shutdown", "md"} => ~ie

\* What the clock needs, once boot() is over; nothing turns interrupts on then.
ServeInv == pc[boot] # "boot" /\ ie => {"scheduler", "thread", "dev"} \subseteq up

\* Places of a shutdown after the boot file system is cleared, after the
\* current directory is, and after the disks are unmounted.
NoBootfs == Shutdown \ {"vfs_clearbootfs"}
NoCurdir == NoBootfs \ {"vfs_clearcurdir"}
Unmounted == NoCurdir \ {"vfs_unmountall"}

\* What keeps a disk busy during a shutdown by t was used by another thread
\* since the shutdown began.
UnmountInv ==
  /\ \A t, u \in Thread : pc[t] \in Shutdown /\ u # t => cwd[u] \in touched \cup {NULL}
  /\ \A t \in Thread :
       /\ pc[t] \in NoBootfs => bootfs \in touched \cup {NULL}
       /\ pc[t] \in NoCurdir => cwd[t] \in touched \cup {NULL}
       /\ pc[t] \in Unmounted => mounted \subseteq touched
  /\ UnmountedAtStop

\* The k functions called so far are different ones.
LEMMA CalledCardinality ==
  \A k \in 0 .. 7 : Cardinality(Called(k)) = k
<1>1. /\ Called(0) = {}
      /\ Called(1) = {"ram"}
      /\ Called(2) = Called(1) \cup {"scheduler"}
      /\ Called(3) = Called(2) \cup {"thread"}
      /\ Called(4) = Called(3) \cup {"vfs"}
  BY DEF Called, BootOrder
<1>2. /\ Called(5) = Called(4) \cup {"dev"}
      /\ Called(6) = Called(5) \cup {"vm"}
      /\ Called(7) = Called(6) \cup {"kprintf"}
  BY DEF Called, BootOrder
<1>3. /\ "scheduler" \notin Called(1) /\ "thread" \notin Called(2)
      /\ "vfs" \notin Called(3) /\ "dev" \notin Called(4)
      /\ "vm" \notin Called(5) /\ "kprintf" \notin Called(6)
  <2>1. "scheduler" \notin Called(1) /\ "thread" \notin Called(2)
    BY <1>1
  <2>2. "vfs" \notin Called(3) /\ "dev" \notin Called(4)
    BY <1>1
  <2>3. "vm" \notin Called(5) /\ "kprintf" \notin Called(6)
    BY <1>1, <1>2
  <2>. QED BY <2>1, <2>2, <2>3
<1>4. IsFiniteSet(Called(1)) /\ Cardinality(Called(1)) = 1
  <2>1. IsFiniteSet({"ram"}) /\ Cardinality({"ram"}) = 1
    BY FS_Singleton
  <2>2. Called(1) = {"ram"}
    BY <1>1
  <2>. QED BY <2>1, <2>2
<1>5. ASSUME NEW S, NEW x, IsFiniteSet(S), x \notin S
      PROVE  IsFiniteSet(S \cup {x}) /\ Cardinality(S \cup {x}) = Cardinality(S) + 1
  BY <1>5, FS_AddElement
<1>6. /\ IsFiniteSet(Called(2)) /\ Cardinality(Called(2)) = 2
      /\ IsFiniteSet(Called(3)) /\ Cardinality(Called(3)) = 3
      /\ IsFiniteSet(Called(4)) /\ Cardinality(Called(4)) = 4
  <2>1. IsFiniteSet(Called(2)) /\ Cardinality(Called(2)) = 2
    BY <1>1, <1>3, <1>4, <1>5
  <2>2. IsFiniteSet(Called(3)) /\ Cardinality(Called(3)) = 3
    BY <1>1, <1>3, <1>5, <2>1
  <2>3. IsFiniteSet(Called(4)) /\ Cardinality(Called(4)) = 4
    BY <1>1, <1>3, <1>5, <2>2
  <2>. QED BY <2>1, <2>2, <2>3
<1>7. Cardinality(Called(5)) = 5 /\ Cardinality(Called(6)) = 6 /\ Cardinality(Called(7)) = 7
  <2>1. IsFiniteSet(Called(5)) /\ Cardinality(Called(5)) = 5
    BY <1>2, <1>3, <1>5, <1>6
  <2>2. IsFiniteSet(Called(6)) /\ Cardinality(Called(6)) = 6
    BY <1>2, <1>3, <1>5, <2>1
  <2>3. IsFiniteSet(Called(7)) /\ Cardinality(Called(7)) = 7
    BY <1>2, <1>3, <1>5, <2>2
  <2>. QED BY <2>1, <2>2, <2>3
<1>8. Cardinality(Called(0)) = 0
  BY <1>1, FS_EmptySet
<1>9. ASSUME NEW k \in 0 .. 7 PROVE k \in {0, 1, 2, 3, 4, 5, 6, 7}
  OBVIOUS
<1>. QED BY <1>4, <1>6, <1>7, <1>8, <1>9

\* A bootstrap function is the next of the order, and interrupts come on with
\* the fifth.
LEMMA BootStep ==
  ASSUME BootInv, bootstrap
  PROVE  \E k \in 0 .. 6 : /\ up = Called(k) /\ up' = Called(k + 1)
                           /\ ie' <=> k + 1 >= 5
<1>1. pc[boot] = "boot"
  BY DEF bootstrap, Runs
<1>2. PICK k \in 0 .. 7 : up = Called(k) /\ (ie <=> k >= 5)
  BY <1>1 DEF BootInv
<1>3. Cardinality(up) = k
  BY <1>2, CalledCardinality
<1>4. k \in 0 .. 6 /\ up' = up \cup {BootOrder[k + 1]} /\ ie' = IeAfter(BootOrder[k + 1])
  <2>1. Len(BootOrder) = 7
    BY DEF BootOrder
  <2>. QED BY <1>3, <2>1 DEF bootstrap
<1>5. up' = Called(k + 1)
  BY <1>2, <1>4 DEF Called
<1>6. BootOrder[k + 1] = "dev" <=> k = 4
  BY <1>4 DEF BootOrder
<1>7. k + 1 >= 5 <=> k >= 5 \/ k = 4
  OBVIOUS
<1>8. ie' <=> k + 1 >= 5
  BY <1>2, <1>4, <1>6, <1>7, Zenon DEF IeAfter
<1>. QED BY <1>2, <1>4, <1>5, <1>8

\* Every step of the menu, its programs and the clock keeps the types.
LEMMA TypeNext ==
  ASSUME TypeOK, BootInv, [Next]_vars
  PROVE  TypeOK'
<1> USE MenuAssumption DEF TypeOK, Thread, Shutdown, vars, menuVars, fsVars, progVars, machVars, Runs
<1>1. CASE bootstrap
  <2>1. up' \subseteq {BootOrder[i] : i \in DOMAIN BootOrder}
    <3>1. PICK k \in 0 .. 6 : up' = Called(k + 1)
      BY <1>1, BootStep
    <3>2. DOMAIN BootOrder = 1 .. 7
      BY DEF BootOrder
    <3>. QED BY <3>1, <3>2 DEF Called
  <2>2. ie' \in BOOLEAN
    BY <1>1 DEF bootstrap, IeAfter
  <2>. QED BY <1>1, <2>1, <2>2 DEF bootstrap
<1>2. CASE kmain
  BY <1>2 DEF kmain, Goto
<1>3. CASE kgets
  BY <1>3 DEF kgets, Goto
<1>4. CASE menu_execute
  BY <1>4 DEF menu_execute, Goto, Words
<1>5. CASE cmd_refused
  BY <1>5 DEF cmd_refused, Returns, Goto, Calls
<1>6. CASE cmd_mainmenu
  BY <1>6 DEF cmd_mainmenu, Returns, Goto, Calls
<1>7. CASE cmd_pwd
  BY <1>7 DEF cmd_pwd, Returns, Goto, Calls
<1>8. CASE cmd_return
  BY <1>8 DEF cmd_return, Goto, panic, Reused
<1>9. CASE cmd_panic
  BY <1>9 DEF cmd_panic, panic, Calls
<1>10. CASE start_threads
  BY <1>10 DEF start_threads, Goto, Calls
<1>11. CASE fork_thread
  BY <1>11 DEF fork_thread, Returns, Goto, panic, thread_fork, MoreForks
<1>12. CASE cmd_mount
  BY <1>12 DEF cmd_mount, Returns, Goto, Touch, Calls
<1>13. CASE cmd_unmount
  BY <1>13 DEF cmd_unmount, Returns, Goto, Busy, Calls
<1>14. CASE cmd_bootfs
  BY <1>14 DEF cmd_bootfs, Returns, Goto, Touch, Usable, Calls
<1>15. CASE cmd_chdir
  BY <1>15 DEF cmd_chdir, Returns, Goto, Touch, Usable, Calls
<1>16. ASSUME NEW t \in Child, common_prog(t) PROVE TypeOK'
  BY <1>16 DEF common_prog, Returns, Goto, thread_fork, Calls, FirstArg
<1>17. ASSUME NEW t \in Child, cmd_progthread(t) PROVE TypeOK'
  BY <1>17 DEF cmd_progthread, Goto, panic
<1>18. ASSUME NEW t \in Child, runprogram(t) PROVE TypeOK'
  BY <1>18 DEF runprogram, Goto, panic, thread_exit
<1>19. ASSUME NEW t \in Child, child_exit(t) PROVE TypeOK'
  BY <1>19 DEF child_exit, Goto, thread_exit
<1>20. ASSUME NEW t \in Thread, sys_reboot(t) PROVE TypeOK'
  BY <1>20 DEF sys_reboot, Goto, Calls
<1>21. ASSUME NEW t \in Thread, vfs_clearbootfs(t) PROVE TypeOK'
  BY <1>21 DEF vfs_clearbootfs, Goto, BootfsAfterClear
<1>22. ASSUME NEW t \in Thread, vfs_clearcurdir(t) PROVE TypeOK'
  BY <1>22 DEF vfs_clearcurdir, Goto
<1>23. ASSUME NEW t \in Thread, vfs_unmountall(t) PROVE TypeOK'
  BY <1>23 DEF vfs_unmountall, Goto, Busy
<1>24. ASSUME NEW t \in Thread, splhigh(t) PROVE TypeOK'
  BY <1>24 DEF splhigh, Goto, MaskForShutdown
<1>25. ASSUME NEW t \in Thread, scheduler_shutdown(t) PROVE TypeOK'
  BY <1>25 DEF scheduler_shutdown, Goto
<1>26. ASSUME NEW t \in Thread, thread_shutdown(t) PROVE TypeOK'
  BY <1>26 DEF thread_shutdown, Goto
<1>27. ASSUME NEW t \in Thread, md_stop(t) PROVE TypeOK'
  BY <1>27 DEF md_stop
<1>28. CASE UNCHANGED vars
  BY <1>28
<1>. QED
  BY <1>1, <1>2, <1>3, <1>4, <1>5, <1>6, <1>7, <1>8, <1>9, <1>10, <1>11, <1>12, <1>13, <1>14, <1>15, <1>16, <1>17, <1>18, <1>19, <1>20, <1>21, <1>22, <1>23, <1>24, <1>25, <1>26, <1>27, <1>28
     DEF Next, menu, shutdown, Thread

\* Every step keeps the boot order and what the clock interrupt relies on.
LEMMA ServeNext ==
  ASSUME TypeOK, BootInv, MaskInv, ServeInv, [Next]_vars
  PROVE  (BootInv /\ MaskInv /\ ServeInv)'
<1> USE MenuAssumption DEF TypeOK, BootInv, MaskInv, ServeInv, Thread, Shutdown, vars, menuVars, fsVars, progVars, machVars, Runs, Masked
<1>1. CASE bootstrap
  <2>1. PICK k \in 0 .. 6 : up' = Called(k + 1) /\ (ie' <=> k + 1 >= 5)
    BY <1>1, BootStep
  <2>2. k + 1 \in 0 .. 7
    OBVIOUS
  <2>. QED BY <1>1, <2>1, <2>2 DEF bootstrap
<1>2. CASE kmain
  <2>1. ie => {"scheduler", "thread", "dev"} \subseteq up
    <3>1. PICK k \in 0 .. 7 : up = Called(k) /\ (ie <=> k >= 5)
      BY <1>2 DEF kmain
    <3>2. k >= 5 => {BootOrder[2], BootOrder[3], BootOrder[5]} \subseteq Called(k)
      BY DEF Called
    <3>3. BootOrder[2] = "scheduler" /\ BootOrder[3] = "thread" /\ BootOrder[5] = "dev"
      BY DEF BootOrder
    <3>. QED BY <3>1, <3>2, <3>3
  <2>. QED BY <1>2, <2>1 DEF kmain, Goto
<1>3. CASE kgets
  BY <1>3 DEF kgets, Goto
<1>4. CASE menu_execute
  BY <1>4 DEF menu_execute, Goto
<1>5. CASE cmd_refused
  BY <1>5 DEF cmd_refused, Returns, Goto, Calls
<1>6. CASE cmd_mainmenu
  BY <1>6 DEF cmd_mainmenu, Returns, Goto, Calls
<1>7. CASE cmd_pwd
  BY <1>7 DEF cmd_pwd, Returns, Goto, Calls
<1>8. CASE cmd_return
  BY <1>8 DEF cmd_return, Goto, panic
<1>9. CASE cmd_panic
  BY <1>9 DEF cmd_panic, panic, Calls
<1>10. CASE start_threads
  BY <1>10 DEF start_threads, Goto, Calls
<1>11. CASE fork_thread
  BY <1>11 DEF fork_thread, Returns, Goto, panic, thread_fork, MoreForks
<1>12. CASE cmd_mount
  BY <1>12 DEF cmd_mount, Returns, Goto, Touch, Calls
<1>13. CASE cmd_unmount
  BY <1>13 DEF cmd_unmount, Returns, Goto, Busy, Calls
<1>14. CASE cmd_bootfs
  BY <1>14 DEF cmd_bootfs, Returns, Goto, Touch, Usable, Calls
<1>15. CASE cmd_chdir
  BY <1>15 DEF cmd_chdir, Returns, Goto, Touch, Usable, Calls
<1>16. ASSUME NEW t \in Child, common_prog(t) PROVE (BootInv /\ MaskInv /\ ServeInv)'
  BY <1>16 DEF common_prog, Returns, Goto, thread_fork, Calls
<1>17. ASSUME NEW t \in Child, cmd_progthread(t) PROVE (BootInv /\ MaskInv /\ ServeInv)'
  BY <1>17 DEF cmd_progthread, Goto, panic
<1>18. ASSUME NEW t \in Child, runprogram(t) PROVE (BootInv /\ MaskInv /\ ServeInv)'
  BY <1>18 DEF runprogram, Goto, panic, thread_exit
<1>19. ASSUME NEW t \in Child, child_exit(t) PROVE (BootInv /\ MaskInv /\ ServeInv)'
  BY <1>19 DEF child_exit, Goto, thread_exit
<1>20. ASSUME NEW t \in Thread, sys_reboot(t) PROVE (BootInv /\ MaskInv /\ ServeInv)'
  BY <1>20 DEF sys_reboot, Goto, Calls
<1>21. ASSUME NEW t \in Thread, vfs_clearbootfs(t) PROVE (BootInv /\ MaskInv /\ ServeInv)'
  BY <1>21 DEF vfs_clearbootfs, Goto, BootfsAfterClear
<1>22. ASSUME NEW t \in Thread, vfs_clearcurdir(t) PROVE (BootInv /\ MaskInv /\ ServeInv)'
  BY <1>22 DEF vfs_clearcurdir, Goto
<1>23. ASSUME NEW t \in Thread, vfs_unmountall(t) PROVE (BootInv /\ MaskInv /\ ServeInv)'
  BY <1>23 DEF vfs_unmountall, Goto, Busy
<1>24. ASSUME NEW t \in Thread, splhigh(t) PROVE (BootInv /\ MaskInv /\ ServeInv)'
  BY <1>24 DEF splhigh, Goto, MaskForShutdown
<1>25. ASSUME NEW t \in Thread, scheduler_shutdown(t) PROVE (BootInv /\ MaskInv /\ ServeInv)'
  BY <1>25 DEF scheduler_shutdown, Goto
<1>26. ASSUME NEW t \in Thread, thread_shutdown(t) PROVE (BootInv /\ MaskInv /\ ServeInv)'
  BY <1>26 DEF thread_shutdown, Goto
<1>27. ASSUME NEW t \in Thread, md_stop(t) PROVE (BootInv /\ MaskInv /\ ServeInv)'
  BY <1>27 DEF md_stop
<1>28. CASE UNCHANGED vars
  BY <1>28
<1>. QED
  BY <1>1, <1>2, <1>3, <1>4, <1>5, <1>6, <1>7, <1>8, <1>9, <1>10, <1>11, <1>12, <1>13, <1>14, <1>15, <1>16, <1>17, <1>18, <1>19, <1>20, <1>21, <1>22, <1>23, <1>24, <1>25, <1>26, <1>27, <1>28
     DEF Next, menu, shutdown, Thread

\* Every step keeps what relates the shutdown sequence to the mounted disks.
LEMMA UnmountNext ==
  ASSUME TypeOK, BootInv, UnmountInv, [Next]_vars
  PROVE  UnmountInv'
<1> USE MenuAssumption DEF TypeOK, BootInv, UnmountInv, UnmountedAtStop, NoBootfs, NoCurdir, Unmounted, ShuttingDown, Thread, Shutdown, vars, menuVars, fsVars, progVars, machVars, Runs
<1>1. CASE bootstrap
  BY <1>1 DEF bootstrap
<1>2. CASE kmain
  BY <1>2 DEF kmain, Goto
<1>3. CASE kgets
  BY <1>3 DEF kgets, Goto
<1>4. CASE menu_execute
  BY <1>4 DEF menu_execute, Goto
<1>5. CASE cmd_refused
  BY <1>5 DEF cmd_refused, Returns, Goto, Calls
<1>6. CASE cmd_mainmenu
  BY <1>6 DEF cmd_mainmenu, Returns, Goto, Calls
<1>7. CASE cmd_pwd
  BY <1>7 DEF cmd_pwd, Returns, Goto, Calls
<1>8. CASE cmd_return
  BY <1>8 DEF cmd_return, Goto, panic
<1>9. CASE cmd_panic
  BY <1>9 DEF cmd_panic, panic, Calls
<1>10. CASE start_threads
  BY <1>10 DEF start_threads, Goto, Calls
<1>11. CASE fork_thread
  BY <1>11 DEF fork_thread, Returns, Goto, panic, thread_fork, MoreForks
<1>12. CASE cmd_mount
  BY <1>12 DEF cmd_mount, Returns, Goto, Touch, Calls
<1>13. CASE cmd_unmount
  BY <1>13 DEF cmd_unmount, Returns, Goto, Busy, Calls
<1>14. CASE cmd_bootfs
  BY <1>14 DEF cmd_bootfs, Returns, Goto, Touch, Usable, Calls
<1>15. CASE cmd_chdir
  BY <1>15 DEF cmd_chdir, Returns, Goto, Touch, Usable, Calls
<1>16. ASSUME NEW t \in Child, common_prog(t) PROVE UnmountInv'
  BY <1>16 DEF common_prog, Returns, Goto, thread_fork, Calls
<1>17. ASSUME NEW t \in Child, cmd_progthread(t) PROVE UnmountInv'
  BY <1>17 DEF cmd_progthread, Goto, panic
<1>18. ASSUME NEW t \in Child, runprogram(t) PROVE UnmountInv'
  BY <1>18 DEF runprogram, Goto, panic, thread_exit
<1>19. ASSUME NEW t \in Child, child_exit(t) PROVE UnmountInv'
  BY <1>19 DEF child_exit, Goto, thread_exit
<1>20. ASSUME NEW t \in Thread, sys_reboot(t) PROVE UnmountInv'
  BY <1>20 DEF sys_reboot, Goto, Calls
<1>21. ASSUME NEW t \in Thread, vfs_clearbootfs(t) PROVE UnmountInv'
  BY <1>21 DEF vfs_clearbootfs, Goto, BootfsAfterClear
<1>22. ASSUME NEW t \in Thread, vfs_clearcurdir(t) PROVE UnmountInv'
  BY <1>22 DEF vfs_clearcurdir, Goto
<1>23. ASSUME NEW t \in Thread, vfs_unmountall(t) PROVE UnmountInv'
  BY <1>23 DEF vfs_unmountall, Goto, Busy
<1>24. ASSUME NEW t \in Thread, splhigh(t) PROVE UnmountInv'
  BY <1>24 DEF splhigh, Goto, MaskForShutdown
<1>25. ASSUME NEW t \in Thread, scheduler_shutdown(t) PROVE UnmountInv'
  BY <1>25 DEF scheduler_shutdown, Goto
<1>26. ASSUME NEW t \in Thread, thread_shutdown(t) PROVE UnmountInv'
  BY <1>26 DEF thread_shutdown, Goto
<1>27. ASSUME NEW t \in Thread, md_stop(t) PROVE UnmountInv'
  BY <1>27 DEF md_stop
<1>28. CASE UNCHANGED vars
  BY <1>28
<1>. QED
  BY <1>1, <1>2, <1>3, <1>4, <1>5, <1>6, <1>7, <1>8, <1>9, <1>10, <1>11, <1>12, <1>13, <1>14, <1>15, <1>16, <1>17, <1>18, <1>19, <1>20, <1>21, <1>22, <1>23, <1>24, <1>25, <1>26, <1>27, <1>28
     DEF Next, menu, shutdown, Thread

MenuInv == TypeOK /\ BootInv /\ MaskInv /\ ServeInv /\ UnmountInv

\* Boot establishes the inductive invariant.
LEMMA MenuInvInit == Init => MenuInv
<1> SUFFICES ASSUME Init PROVE MenuInv
  OBVIOUS
<1> USE MenuAssumption DEF Init
<1>1. TypeOK
  <2>1. /\ pc[boot] = "boot" /\ pc \in [Thread -> {"none", "boot"}]
        /\ cwd \in [Thread -> {NULL}]
    BY DEF Thread
  <2>2. 0 \in 0 .. NTHREADS
    OBVIOUS
  <2>3. DOMAIN args = 1 .. 2 /\ ptr \in [Child -> 1 .. 2]
    OBVIOUS
  <2>. QED BY <2>1, <2>2, <2>3 DEF TypeOK
<1>2. BootInv
  <2>1. up = Called(0) /\ 0 \in 0 .. 7 /\ (ie <=> 0 >= 5)
    BY DEF Called
  <2>. QED BY <2>1 DEF BootInv, Thread
<1>3. MaskInv /\ ServeInv
  BY DEF MaskInv, ServeInv
<1>4. UnmountInv
  BY DEF UnmountInv, UnmountedAtStop, Thread, Shutdown, NoBootfs, NoCurdir, Unmounted
<1>. QED BY <1>1, <1>2, <1>3, <1>4 DEF MenuInv

\* The inductive invariant of the menu, from which the named properties follow.
THEOREM MenuInvariant == Spec => []MenuInv
<1>1. Init => MenuInv
  BY MenuInvInit
<1>2. MenuInv /\ [Next]_vars => MenuInv'
  BY TypeNext, ServeNext, UnmountNext DEF MenuInv
<1>. QED BY <1>1, <1>2, PTL DEF Spec

\* No state of the menu leaves the types.
THEOREM MenuTypeCorrect == Spec => []TypeOK
BY MenuInvariant, PTL DEF MenuInv

\* From boot to power off a clock interrupt finds the bus, the run queue and
\* the thread arrays, for any number of threads that shut down at once.
THEOREM ClockIsServed == Spec => []InterruptsServed
<1>1. MenuInv => InterruptsServed
  <2> SUFFICES ASSUME MenuInv, ie, power = "on" PROVE {"scheduler", "thread", "dev"} \subseteq up
    BY DEF InterruptsServed
  <2>1. CASE pc[boot] # "boot"
    BY <2>1 DEF MenuInv, ServeInv
  <2>2. CASE pc[boot] = "boot"
    <3>1. PICK k \in 5 .. 7 : up = Called(k)
      BY <2>2 DEF MenuInv, BootInv
    <3>2. {BootOrder[2], BootOrder[3], BootOrder[5]} \subseteq Called(k)
      BY DEF Called
    <3>3. BootOrder[2] = "scheduler" /\ BootOrder[3] = "thread" /\ BootOrder[5] = "dev"
      BY DEF BootOrder
    <3>. QED BY <3>1, <3>2, <3>3
  <2>. QED BY <2>1, <2>2
<1>. QED BY <1>1, MenuInvariant, PTL

\* shutdown() leaves mounted only what others used while it ran.
THEOREM DisksUnmounted == Spec => []UnmountedAtStop
<1>1. MenuInv => UnmountedAtStop
  BY DEF MenuInv, UnmountInv
<1>. QED BY <1>1, MenuInvariant, PTL

=============================================================================
