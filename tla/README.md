# Verification of Windborne

TLA+ models of the programs in this repository, checked with TLC on small
instances and, where a theorem is stated, proved with TLAPS for every instance.
`PROJECT.json` lists the runs, the mutants, the theorems, the hazards and, for
every definition that models code, the lines it models.

## 1. The system

The repository holds several independent programs under `src/Projects`.

| Component | State it keeps | Operations | Interacts with |
|---|---|---|---|
| Kernel thread system (`OS161/kern/thread/thread.c`, `scheduler.c`, `hardclock.c`) | `curthread`, run queue, `sleepers`, `zombies`, `numthreads`, thread structures | fork, yield, sleep, wakeup, exit, exorcise, panic, shutdown, `hardclock`, `clocksleep` | interrupts, `md_switch`, kmalloc, every user of threads |
| Context switch and interrupts (`kern/mips/pcb.c`, `interrupt.c`, `spl.c`, `*.S`) | `in_interrupt`, `curspl`, one pcb a thread | `md_switch`, `mips_interrupt`, `splx`, `cpu_idle`, `cpu_halt` | thread system |
| Semaphores and locks (`kern/thread/synch.c`) | `count`; `held`, `holder` | create, destroy, P, V, acquire, release, do_i_hold; the `cv_` functions are empty | sleep and wakeup |
| Stoplight (`kern/asst1/stoplight.c`) | seven locks, three counters, vehicles' locals | `createvehicles`, `approachintersection`, `turnleft`, `turnright` | locks, threads |
| Cats and mice (`kern/asst1/catlock.c`, `catsem.c`) | none: bodies unwritten | drivers that fork | threads, menu |
| Virtual memory (`kern/mips/dumbvm.c`, `ram.c`) | `firstpaddr`, `lastpaddr`, address spaces, TLB | `ram_stealmem`, `getppages`, `alloc_kpages`, `as_*`, `vm_fault` | traps, context switches |
| Traps and system calls (`kern/mips/trap.c`, `syscall.c`, `spl.c`, `interrupt.c`) | the trapframes, `curspl`, the interrupt flag, `in_interrupt` | `mips_trap`, `mips_syscall`, `mips_usermode`, `md_forkentry`, `splx` | interrupts, VM, threads |
| Boot and menu (`kern/main`, `kern/mips/lamebus_mips.c`) | what is set up, the command line, the `args` array on the menu's stack, mounts | boot, command dispatch, shutdown | everything above |
| User programs (`OS161/bin`) | a buffer and descriptors | cat, cp, ls, ... | system calls |
| Mancala (`Mancala/*.lisp`) | the board, whose turn it is, the score of a tournament | moves, score, game loop, tournament, alpha-beta player | the player functions |
| Social media service, Javalin (`REST/N-Wil-pep-project-master`) | accounts and messages in H2, one connection field in each DAO | register, login, message CRUD | concurrent HTTP requests |
| Social media service, Spring (`REST/N-Wil-pep-spring-project-main`) | the same through JPA | the same | the same |
| TechEntrance (`TechEntrance/techentrance`) | users with a session id, cookies | sign up, login, logout, edit | browser, JPA |

What is hard here: the kernel is preemptive (the clock interrupts any code not
under `splhigh`), sleeping threads depend on somebody else's wakeup, structures
are freed while the processor still runs on their stack and are then reused, and
three different loops rely on space preallocated elsewhere.  `curspl` and the
TLB are one for all threads and have to be right again after every switch, and
`splx` turns interrupts on one instruction before it records that it has.  Loads
and forks ask for memory region by region and can fail between two.  The menu
does not wait for the programs it starts, which read its stack and may shut the
machine down under it.  The web programs check and then write in separate
statements while other requests run.

What makes each part correct: no thread is lost, doubled or freed in use, and
every ready one runs (threads); one owner per lock and no thread asleep on
something free (synch); no two vehicles in one segment and each gets through
(stoplight); a page belongs to one owner and the TLB shows the running process
its own memory (VM); a trap gives the interrupted code its level back and
interrupts never stay off (traps); interrupts are served only while what they use
exists, and every command line is answered (boot and menu); stones are conserved,
games end, the player's search equals minimax and it plays a best move (mancala);
one account a name, no registration, post or patch reported that did not happen
(a deletion can be: section 3), and a request alone does what the readme says but
for a stated list of cases (services).

## 2. Modules

    ThreadSpec <--INSTANCE (refined by)-- ThreadSystem <-- MCThreadSystem,  ThreadProofs
       ^ EXTENDS
     Synch  <-- MCSynch,  SynchProofs
       ^ EXTENDS
    Stoplight <-- MCStoplight,  StoplightProofs (also extends SynchProofs)

    PrivateMemory <--INSTANCE (refined by)-- DumbVM <-- MCDumbVM,  DumbVMProofs

    Trap <-- MCTrap,  TrapProofs
    Menu <-- MCMenu,  MenuProofs
    SocialMedia <-- MCSocialMedia,  SocialMediaProofs
    Mancala <-- MCMancala,  MancalaProofs

`DumbVM`, `Trap` and `Menu` look at the same kernel from three sides and each
keeps of the others what it depends on: `DumbVM` has the switches (`mi_switch`)
and leaves levels out; `Trap` has the levels, and of the VM only whether
`vm_fault` succeeds and whether it restores the level; `Menu` has threads as
places in the code and of the levels only whether interrupts are on.

**ThreadSystem** is the implementation of threads.  `curthread`, `runqueue`,
`sleepers`, `zombies`, `numthreads`, `t_sleepaddr`, `in_interrupt` and
`lbolt_counter` are the code's variables.  `onstack` says whose stack the
processor uses: while `scheduler()` idles it is that of a thread already on
`sleepers` or `zombies`.  `fresh` are threads that have never run, which come
out of the switch in `mi_threadstart` and so skip `exorcise`.  `newguy` and
`old_in` are locals of `thread_fork` and `mips_interrupt` that live on a
preempted thread's stack.  `sleepersMax`, `zombiesMax` and `runqueueMax` are the
slots the preallocations have ensured; `array.c` and `queue.c` are not in the
repository, and `array.h` and `queue.h` promise no more.  A section under
`splhigh` and an interrupt handler are one step each, including everything the
thread switched to does before interrupts are on again.  `MiSwitch` is
`mi_switch` after the thread is stashed; the actions are the functions of the
code, with `hardclock_idle` for the clock in the idle loop, `scheduler` for the
end of the idle loop, and `thread_fork_fail` for a preallocation out of memory;
the new thread is freed after the `splx`, in a step of its own
(`thread_fork_free`), before which it can be preempted.  An address freed by `exorcise` can be allocated again.

**ThreadSpec** is what `thread.h` promises: a thread is runnable or asleep on an
address, and a wakeup wakes all and only the sleepers on its address.
ThreadSystem refines it (`KeepsPromise`): running and ready threads are
`"runnable"`, threads on `sleepers` are `"asleep"`.

**Synch** is `synch.c` on that promise: any runnable thread may take the next
step, since the clock can preempt and the run queue serves everybody.  The loops
of `P` and `lock_acquire` are one step for each pass (`_sleep` or `_done`), with
`incall` the call a thread is in.  `owns` and `orphaned` are history variables,
used by properties only.  A call of `V` may come from an interrupt.  Threads may
exit with locks held, and their structures are reused.  Two obligations are left to the
callers, as the code does: objects are destroyed only when nobody is in a call
on them (`Unused`), and counts stay below `MaxCount`.  The `cv_` functions have
empty bodies and no counterpart.

**Stoplight** is `stoplight.c` on Synch's locks: `acquire` and `release` are
Synch's actions with a program counter.  The counters are plain ints touched
outside any lock, so an increment is a load and a store, and a test right after
may use the register or load again (both are possible builds).  Vehicles run on
thread structures that an earlier vehicle may have left.  `createvehicles` is
called once; a failure of `thread_fork` panics and is left to ThreadSystem.

**DumbVM** is `ram.c` and `dumbvm.c`.  `firstpaddr` and `lastpaddr` are the
code's; addresses are numbers below `WORD` and every sum that the code makes in
32 bits is taken modulo it.  `as[t]` is `t_vmspace` with its three regions,
`newas` the copy under construction in a fork, `tlb` the slots, `mem` one value a
page.  What runs at `splhigh` (`getppages`, `vm_fault`, `as_activate`) is part of
one step.  `as_prepare_load` and `as_copy` run with interrupts on, so they take a
step for each request (`as_prepare_load`, `as_copy_region`), and `mi_switch`
may come between any two.  `tlb_miss` and `vm_fault` are two steps, because
`mips_trap` lowers the level in between.  `runprogram` is not in the repository;
it stands for `as_create` and `as_activate` of a thread that has a program to
load, whose segments wait in `image`; `as_define_region` takes them one at a
time, before the first `as_prepare_load` request.  `alloc_kpages` takes any number
of pages out of `KernelRequest`.  `md_forkentry` takes `data1 + 1` for the address
space, as the code does: the child has `BadAs` and its first fault stops the
kernel; its `as_activate` is a second step, since interrupts are on.  Segments are any the caller names, also one that starts in page 0,
a third one, and one nearly as large as the word.  `wrapped` is history: the
request for such a segment was granted.

**PrivateMemory** is what `addrspace.h` promises: only its own stores change a
process's memory, and `as_copy` makes an exact copy.  DumbVM refines it
(`MemoryIsPrivate`) as long as no request has wrapped.

**Trap** is the interrupt level through `mips_trap`, `mips_syscall`, `splx`,
`mips_interrupt` and the switch.  A thread is the stack of what it executes; a
frame keeps the local variables of that code (`savespl` or `spl`, `old_in`) and
IEp of the trapframe, and as history the level the code itself asked for.  Code
with interrupts off is one step.  With interrupts on, `interrupt` may come after
every step, also in the window inside `splx` (`splx` turns the flag on,
`splx_end` sets `curspl`), and the handler may yield to any other thread.
`vm_fault` returns without `splx` when there is no address space, as the code
does.  The boot thread starts as `boot()` does, at `SPL_HIGH` with the flag off,
until `machdep_dev_bootstrap` lowers the level.  Each level of nesting takes the interrupt flag, and nothing turns it on
again inside a handler, so stacks are short without a bound.

**Menu** is `main.c`, `menu.c`, the forking loops of `kern/asst1` and the boot
and power functions of `lamebus_mips.c`.  A line is a sequence of commands and a
command is its function, its number of words and its argument.  The menu takes
one step for each command it takes from the line, for each call and for each
return; `bootstrap` takes the functions of `boot()` in their order; `shutdown(t)`
is `shutdown()` call by call, for the menu's `q` and for a program's `reboot`.
`args` is the one array on the menu's stack that every `cmd_dispatch` fills
(`Words`) and that programs' threads point into (`ptr`); after `cmd_dispatch` has
returned its words may be there still or be no string any more (`Reused`).  So a
program's thread may find its own name, another command's, or nothing, and a name
in `TooLong` fails `cmd_progthread`'s assertion.  `menu.c:90-92` says that this
race exists, and nothing is claimed of which program runs.  File systems are external: a mount, `bootfs` and `cd` behave as `vfs.h` says.  The
tests and `printfile` are external too and change nothing that is modelled.

**SocialMedia** is the Javalin service.  A request is a record that walks through
the calls its service method makes (`Calls`) and, in each, through
`getConnection`, `prepareStatement`, `execute`, `fetch` and `close`.  `conn[d]`
is the one field of each DAO object that all requests share, so a request may
prepare its statement on another's connection, and close it; the field is not
`volatile`, so a thread may also still see the value it stored itself.
`ConnectionUtil.getConnection` returns null when the database refuses, and a null
connection, user name or password, or a body that cannot be read, is an exception
nobody catches (`Throws`, `Crashed`): 500, or 200 from the one handler that
catches everything.  H2 is external: each statement is atomic, the constraints of
`SocialMedia.sql` hold, and a closed connection throws, which the DAO catches, as
it does when the text of an `INSERT` is broken by the user name put into it
(`Unstorable`).  A text is its length.

**Mancala** is the rules and drivers of `mancala.lisp` and the player of
`Nick-Wilfong.lisp`.  Board indices are the code's.  The player's value is a
record with `err`, because `evaluate` refers to a symbol `s` that has no value
when its player is ahead in mid-game, and looks opposite player 1's mancala at
index -1; such an error ends the game and the driver, and so does a human's input
that is no number.  A tournament has a depth for each player.  The code's recursion and
its loops are recursive functions on an interval, which TLAPS can reason about:
`ab[k]` is `alpha-beta` with `k` moves left, and in the loops over the children
(one turn is `LoopStep`) the index is a pit's place in `moves`, passing over the
pits that cannot be sown.

Definitions whose comment says "Mutant of" are wrong versions of the definition
after them, used to see that a property notices; nothing else refers to them.

## 3. Runs

| Run | Instance | What it shows |
|---|---|---|
| `thread` | 4 structures, 2 sleep addresses, `HZ` = 2, run queue of 1 slot | `ThreadsConserved`, `StackSafe`, `CleanContext`, `PreallocationSuffices`; `NoOvertaking`; refinement `KeepsPromise`; liveness `ReadyRuns`, `ClockSleepEnds` |
| `thread_zombies` | 5 structures | **violation**: a chain of threads that fork a successor and exit makes `zombies` longer than any preallocation |
| `synch` | 3 threads, 1 semaphore (count to 2), 2 locks | `MutualExclusion`, `NoLostWakeup`, `HoldTruthful`, `NoSpuriousWakeup` |
| `synch_reuse` | the same | **violation**: after an exit with the lock held and reuse of the structure, `lock_do_i_hold` says yes to a thread that never acquired |
| `stoplight` | 3 vehicles; left-turning trucks on every route, right-turning cars on A | `SegmentExclusion`, `SegmentsNotLost`, and `StallsOnlyFromRingOrLane` |
| `stoplight_stuck` | 2 vehicles, every trip | **violation**: two cars on a route, the first exits with the lane's lock |
| `vm` | 3 threads, 7 pages of memory, 2 TLB slots, 5 program images | `PagesOwnedOnce`, `TLBSeesCurrent`, `PanicsOnlyFromImage`; refinement `MemoryIsPrivate` |
| `trap` | 3 threads, programs that make one system call after another | `SplTransparent`, `InInterruptTruthful`, `AssertionsHold`; liveness `InterruptsReturn` |
| `menu` | 2 child threads, 1 disk, a boot line and 2 typed lines | `InterruptsServed`, `UnmountedAtStop`; liveness `EveryLineAnswered` |
| `service` | 3 requests out of 22, one account and one message | `OneRegistration`, `SuccessIsTrue`; `DeletedForGood`, `AloneAsReadme` |
| `service_delete` | 2 requests out of 22 | **violation**: a deletion whose connection another request has closed is answered with 200 and the message, which stays |
| `mancala` | 2 pits and 4 stones a pit, depths 1 and 3 for either player | `AlphaBetaIsMinimax`, `PlaysBest`; `MovesAdvance` |

Bounds.  With four structures there are two forked threads beside a forker and a
sleeper, so that wakeups of several threads, idling on an exited thread's stack
and reuse all occur; the run queue starts with one slot (32 in the code) so that
preallocation matters; `HZ` = 2 is the least value for which a tick does not
always wake `lbolt`.  Four zombies need five structures.  In `synch` two threads
can wait for what a third holds.  In `stoplight` three vehicles are the fewest
for a ring of left turns; three kinds of truck trip and one kind of car trip
keep the counter race, the lane lock and the ring, and the two-vehicle run has
all twelve trips.  The theorems of section 4 have no such bounds.

In `vm` a page has two bytes and a word 32 pages, and the kernel has one of the
seven pages of memory: two loaded programs, or one and half of a fork, fill the
rest, so requests fail at every region.  Programs touch an address of each region
(2, 5 and 8, of which 5 is not page-aligned); with two TLB slots the third page a
process touches finds none.  Two starts, one store and one kernel request, of two
pages, are enough
for a page to be reused if the allocator allowed it, and for a store to show
through a stale entry.  `BeforeWrap` stops where a wrapped request has been
granted, since nothing is promised after that.  In `trap` no bound but
`LastPC` is needed: two system calls in a row show whether the first left the
level as it found it, and three threads let a preempted handler, a sleeper and a
new thread exist together.  In `menu` the lines are the example of `menu.c`'s
comment, every command with an effect, every way `cmd_dispatch` refuses, and a
name that is too long on the boot line;
two typed lines make a program of one run beside the commands of the next, and
two children let two shutdowns and the menu's own meet.  In `service` three
requests are a holder of a connection, one that replaces the field and one that
closes it; texts and ids lie on both sides of every check, and names and passwords
are present, empty, missing and unstorable.  In `mancala` two pits
of four stones give laps around the board, captures and moves in a row; depth 3
is the least at which a cut-off skips a subtree.

Before the first `thread_fork` nothing has been preallocated for `sleepers`, so
the boot thread's first sleep may allocate; `PreallocationSuffices` speaks of
the time when other threads exist.

Fairness.  ThreadSystem assumes that the timer interrupts and that the idle loop
executes, and nothing about the threads, which may compute forever.  Stoplight
assumes weak fairness of every thread, which is what `ReadyRuns` shows of the
scheduler; a sleeping vehicle has no enabled step.  Synch states no liveness: a
lock's waiter can be overtaken without end by others.  Trap assumes that the
processor goes on in straight-line kernel code (`Straight`: no loop and no wait),
and nothing of the devices, of programs or of threads' functions.  Menu assumes
that a ready thread runs on, for the menu's own steps and for a shutdown, which
never wait for anybody; nobody has to type and programs need not end.  DumbVM,
SocialMedia and Mancala state no liveness: a blocked H2 call or a human who does
not type may stop them.  That a game ends follows from `MovesAdvance`, whose
`Distance` is a natural number that every move lowers.

`CHECK_DEADLOCK FALSE` in `synch` and `stoplight`: callers of locks can deadlock
(a second acquire by the holder is enough), and vehicles finish; in `vm`, `trap`
and `menu`: the kernel stops when it panics or is shut down; in `service`: every
request has been answered.

Some statements are true only with a condition, and the condition is in the
property.  `PagesOwnedOnce` holds until a request wraps around the word
(`ram_stealmem` compares the wrapped sum).  `UnmountedAtStop` excepts disks that
others used while a shutdown ran, since `vfs_clearcurdir` clears one thread's
directory only.  `TLBSeesCurrent` excepts a child of fork until `md_forkentry` has
called `as_activate`.  `SuccessIsTrue` is about registrations, posts and patches;
what `readme.md` says of deletions is `DeletedAsAnswered`, which is violated.
`AloneAsReadme` speaks of requests without overlap that get their connections:
with overlap, one that was valid can be refused because its connection was closed.

Disagreements between code and text that were met and have no run of their own.
`Good` and `PerReadme` say what `readme.md` does, and `Disputed` lists where the
code does something else; `AloneAsReadme` states that in each of these cases the
answer is *not* the readme's and nothing changes, and everywhere else it is.  The
cases: a new message of 255 characters is refused, though it is "not over 255
characters" (`readme.md:50`); the messages of a user id that is no number are
answered with 500, where the status "should always be 200" (`readme.md:83`); a
null user name or password, or an unreadable body, is answered with 500 and not
with 400 or 401; and a name with a quote in it is refused.  `PlaysBest` states when
`computer-make-move` returns nil: at the end of the game, for which alone its
comment (`Nick-Wilfong.lisp:189`) and `mancala.lisp:65-66` have it, and also in an
unfinished game in which every move scores `*min-wins*`.  `child_tf.tf_epc =+ 4`
(`syscall.c:183`) assigns 4 where the comment above it wants the pc moved: in Trap
the child of a fork starts there.  `SYS_write` leaves `err` unset.  `md_forkentry`
passes `data1 + 1` and `data1 + 2`, byte addresses, for the address space and the
parent, and frees the trapframe twice.

## 4. Proofs

`SynchProofs` (any threads, semaphores, locks, `MaxCount`): `SynchInv` is
inductive.  `MutualExclusion` and `NoLostWakeup` alone are not, because memory of
a destroyed object can become a new one, which resets `held` and `count`; the
proof needs `SleepersInCall` (a sleeper is in a call on a live object) and
`HeldByOwner` (a held lock is alive, and its holder owns it unless it exited).
From it: `SynchTypeCorrect`, `LockMutualExclusion`, `WakeupNotLost`,
`HoldIsTruthful`, the action property `WakeupNotSpurious`, and
`SynchKeepsThreadPromise`, that every step is one ThreadSpec allows.

`StoplightProofs` (any number of vehicles, any trips): every step but the
creation of the locks is a step of Synch, so `SynchInv` carries over.
`LocksFollowTrip` says which segment locks a vehicle has at each place of its
turn, and with mutual exclusion gives `NoCollision`; `SegmentsStayUsable` follows
because at `"exit"` it has none.  Nothing is assumed of the counters: the race
never endangers exclusion.

`TrapProofs` (any threads, any programs, any depth of nesting): `SplTransparent`
speaks of the frame on top, so it is not inductive; popping a frame uncovers one
it says nothing of.  `TrapInv` says of every stack that each frame will leave the
one under it `Settled` (`Link`), that threads and programs are at the bottom and
system calls right above a program, and that each `mips_interrupt` has kept what
`in_interrupt` was below it.  Pushing, popping and replacing a frame are lemmas
(`PushFrame`, `PopFrame`, `Replace`); a step of the running thread and a switch
are reduced to them by `StepOf` and `SwitchTo`, and each action is one case.
Interrupts that hit the window in `splx` are harmless because the frame `"splx"`
asks nothing of `curspl`, only that the flag is on.  From it:
`SplIsTransparent`, `InterruptFlagTruthful`, `TrapAssertions`, `TrapTypeCorrect`.

`MenuProofs` (any children, disks, lines and bounds): `BootInv` ties what is set
up to the number of bootstrap functions called (`CalledCardinality`: they are
different ones), `MaskInv` says that who tears down the run queue has interrupts
off, and nothing turns them on again: `ClockIsServed`.  `UnmountInv` follows a
shutdown place by place: what can keep a disk busy is in `touched` from the
moment it begins, whoever else shuts down, mounts or forks: `DisksUnmounted`.
Nothing is needed of `args`, which the threads read unprotected.

`ThreadProofs` (any finite set of threads, any sleep addresses, any initial run
queue, any `HZ`): `ThreadsConserved` is not inductive, because a switch can lose
nobody only if the thread it stashes was on no list, and the count stays right
only if the lists are disjoint and without repetition.  `ThreadInv` has this
(`Lists`), `numthreads` as the number of threads on the run queue, on `sleepers`
or running (`UpInv`), what the switch finds in every pcb it can switch to
(`Context`), and room in the arrays for everybody counted (`Room`).  The lists
are the code's sequences; `thread_wakeup` and `exorcise` filter them.  That
filtering keeps exactly the wanted elements, once and in order (`AmongFacts`), is
proved by an induction written out with a least counterexample (`LeastNat`,
`SetInduction`), since the library's induction theorems cannot be instantiated.
Each list operation has a lemma (`ListsReady` to `ListsFork`) and `MiSwitchStep`
does the switch once for all its callers.  From it: `ThreadTypeCorrect`,
`ThreadsAreConserved`, `StackIsSafe`, `ContextIsClean`, `PreallocationIsEnough`,
the action property `RoundRobin` (a step is a suffix of the run queue with
others appended, so nobody overtakes), and the refinement `ThreadsKeepPromise`.
A thread that a failed fork has not freed yet is on no list and not `fresh`.

`SocialMediaProofs` (any requests, any number under way, any initial rows):
`ServiceInv` says what a request has done at each of its program points
(`RegisterInv`, `PostInv`, `PatchInv`): between `execute` and the answer its row
is already in the table, whoever closes the connection or leaves a null in the
field meanwhile; a patch keeps
either its text in the history of rows or its message deleted.  `Tables` has that
ids are handed out once, which `DeletedForGood` and `SuccessIsTrue` rest on.
From it: `ServiceTypeCorrect`, `RegisteredOnce`, `SuccessIsReal`, and the action
property `StaysDeleted`.

The action property `AloneBehavesAsReadme` needs more, `AloneInv`: nothing in
`ServiceInv` says that a request finds its connection open, and with overlap it
may not.  A connection is in a DAO's field or closed only if the call that makes
it has begun (`Fresh`), so the one a call makes is new whatever others have left;
while no other request is under way nobody replaces or closes it (`OwnConn`).
`Progress` says at each program point what the request has found (`First`,
`Checked`) and what the tables are compared with those it started from: the same
until its statement is executed, then `Changed`.  The only exceptions it can meet
are those of the foreign key and of an unstorable name (`ThrowAlone`), and, before
it asks the database, of what cannot be read (`StoppedAsReadme`);
`FirstReturns` and `LastReturns` show that what it makes of a call's result is what
`PerReadme` wants, and for each `Disputed` case that it is not.  The theorem has a
hypothesis, that Java's null is no set of rows, which TLC could not evaluate as an
`ASSUME`.

`DumbVMProofs` (any word, page, memory and TLB size, threads and programs):
`VMInv` is inductive.  `PlaceOK` says for each place of the code which regions of
a thread's address space, and of the copy it is making, have pages; without it
`Translate` could read a base that is not there.  `TLBOK` adds to
`TLBSeesCurrent` that nothing is mapped while a program is being loaded (giving a
region its pages changes what `Translate` says) and that the page of a fault that
waits for `vm_fault` is not mapped (otherwise a second slot would get it); it asks
nothing between a child's assignment and its `as_activate`, which clears the TLB.
`SpaceOK` keeps every region's end within the word, so no translation leaves its
region (`Translation`), and page alignment, which `vm_fault` asserts, is kept by
the arithmetic lemmas `Multiples` to `FrameOfAddress`.  Ownership holds because
`getppages` only moves `firstpaddr` up, until a request wraps: what it gives out
was nobody's (`GivenFrames`, and `KernelPages` for a kernel request of several
pages).  From it: `VMTypeCorrect`, `PagesAreOwnedOnce`,
`TLBIsCurrent`, `PanicsAreTheImages`.

The refinement `MemoryStaysPrivate` is proved there too.  A page has one owner, so
a store through a TLB entry changes one page of the running thread's memory
(`OneWrite`, `StoreStep`), and the `memmove` of a fork writes only pages of the
copy (`MovesCopy`, `CopyStep`), each from one source page; every other step leaves
all views as they were (`QuietStep`) or starts or ends one.  The step at which a
request wraps is one that PrivateMemory leaves open.

`MancalaProofs` (any number of pits and stones, with and without either rule, any
depths): the library's induction theorems cannot be instantiated, so induction up
to a bound (`UpTo`, from a least counterexample) and the existence of the
recursive functions (`Recursion`) are lemmas here.  Sowing is followed stone by
stone: `SowInvStep` says what a stone put down does to the number of stones and to
`Distance`, and `SowAdvances`, `BigWinKeeps` and `MoveAdvances` carry it to a whole
move, laps and captures included.  `GameInv` (`StonesStay`) has that the state is
one with as many stones as at the start, and gives `GamesAdvance`.  For the search,
that the value found equals minimax is true of the full window only and not
inductive: below the root, alpha-beta finds the minimax value cut off to its window
(`Finds`).  `MaxTurn` and `MinTurn` say what a turn of the loop over the children
does to what has been found so far, `MaxNode` and `MinNode` give the node,
`Finding` goes down the tree, and at the root nothing lies outside the window
because `evaluate` stays within `*min-wins*` and `*max-wins*` (`Leaves`):
`SearchIsMinimax`.  `BestTurn` and `BestMove` do the loop of `computer-make-move`:
a best child is kept once one scores more than `*min-wins*`, and none is kept
otherwise, which are the two directions of `ComputerPlaysBest`.

Assumptions are the named `ASSUME`s of the modules: the boot thread is a thread,
`NULL` is neither a thread nor an address, semaphores and locks are different
addresses, the stoplight's segment locks are distinct, `SPL_HIGH` is not 0, and
no disk is `emu0` or `NULL`.  `ThreadAssumption`: threads are finite and the run
queue starts with a slot.  `ServiceAssumption`: the initial rows have different
ids below the next one, and a request is one of the routes.  `RowAssumption`: the
rows and what is asked fit the columns, and `NULL` is no row, not `TRUE` and no
connection.  `RulesAssumption`: there is a pit, and `*min-wins*` and `*max-wins*`
are beyond what `evaluate` can add up (348 for the code's six pits of four, and
they are -10000 and 10000).  `VMAssumption`: the
word, the start of kernel addresses and the memory are whole pages, physical
memory fits in the direct-mapped segment, the stack in the user's, and the kernel
ends on a page boundary, which `start.S` makes true.  `PointerAssumption`:
`NULL` and the wild pointer `BadAs` are not address spaces.

Only model-checked: all liveness (`ReadyRuns`, `ClockSleepEnds`,
`InterruptsReturn`, `EveryLineAnswered`, `StallsOnlyFromRingOrLane`), which is out of
this prover's reach, and the four violations.

## 5. Not modelled

What is left out, and why:

- Social media service (Spring): each repository call is a transaction of the
  framework, which is not in the repository, and the services keep no state of
  their own.
- TechEntrance: form handlers that pass one object to a Spring repository and
  name a page; sessions and persistence are the framework's.
- User programs: short sequential programs whose behaviour is that of system
  calls the kernel in this repository does not implement.
- `ram_getsize`, which nothing calls; `removeAccount`, `getAccountById` and
  `getAllAccounts` of AccountDAO, which no request reaches; the `cv_` stubs and
  the unwritten cats and mice; a second `createvehicles` while vehicles of the
  first still drive.
- Register accesses, bus probing and assembly, which appear as the atomic switch
  and trap entry their comments describe; the page templates; and code the
  repository does not contain (kmalloc, VFS, ELF loading, the H2 database), which
  appears only through how it is used.
