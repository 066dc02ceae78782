-------------------------------- MODULE Menu --------------------------------
(***************************************************************************)
(* Boot, the menu and shutdown: kern/main/main.c and menu.c, the drivers   *)
(* of kern/asst1 as far as they fork threads, and the boot and power code  *)
(* of kern/mips/lamebus_mips.c.                                            *)
(*                                                                         *)
(* The menu runs on the boot thread.  It does not wait for the programs it *)
(* starts: they run beside it, and one of them may call reboot while the   *)
(* menu executes commands.  A command line is a sequence of commands, and  *)
(* a command is a function of cmdtable with the number of its words and    *)
(* its argument.  The file systems are external: they are modelled by what *)
(* vfs.h says of the calls that menu.c and main.c make.                    *)
(***************************************************************************)
EXTENDS Integers, Sequences, FiniteSets

CONSTANTS boot,           \* the boot thread, which runs the menu
          Child,          \* threads that commands start
          Dev,            \* disks that can be mounted
          emu0,           \* the hardwired file system
          TooLong,        \* words that do not fit cmd_progthread's progname
          NULL,
          BootLine, Line, \* what the bootloader passes, what is typed
          MaxLines,       \* bound on the lines typed
          MAXMENUARGS,
          NTHREADS        \* threads started by 1a, 1b or 1c

ASSUME MenuAssumption ==
  /\ boot \notin Child /\ emu0 \notin Dev /\ NULL \notin Dev \cup {emu0}
  /\ NULL \notin TooLong /\ MaxLines \in Nat /\ MAXMENUARGS \in Nat /\ NTHREADS \in Nat

VARIABLES
  pc,                    \* where each thread is; "none" if it does not exist
  up, ie, power,         \* subsystems set up; interrupts on; the machine
  line, cmd, isargs,     \* the commands left, the current one, menu_execute's
  lines, result, forks,  \* lines typed; of cmd_dispatch; threads left to fork
  mounted, bootfs, cwd,  \* the file systems, and t_cwd of each thread
  touched,               \* history: disks others used during a shutdown
  args,                  \* cmd_dispatch's array, on the menu's stack: its first
                         \* two words, NULL where no string need be any more
  ptr                    \* which of them a program's thread was given

menuVars == <<line, cmd, isargs, lines, result, forks>>
fsVars == <<mounted, bootfs, cwd, touched>>
progVars == <<args, ptr>>
machVars == <<up, ie, power>>
vars == <<pc, menuVars, fsVars, progVars, machVars>>

Thread == Child \cup {boot}

\* Threads in these places have interrupts off, or are alone.
Masked == {"boot", "scheduler_shutdown", "thread_shutdown", "md"}

Runs(t, where) == power = "on" /\ pc[t] = where /\ (ie \/ where \in Masked)

Goto(t, where) == pc' = [pc EXCEPT ![t] = where]

panic == power' = "panic"

Shutdown == {"vfs_clearbootfs", "vfs_clearcurdir", "vfs_unmountall", "splhigh",
             "scheduler_shutdown", "thread_shutdown", "md"}

ShuttingDown == \E t \in Thread : pc[t] \in Shutdown

Init ==
  /\ pc = [t \in Thread |-> IF t = boot THEN "boot" ELSE "none"]
  /\ up = {} /\ ie = FALSE /\ power = "on"
  /\ line = <<>> /\ cmd = NULL /\ isargs = TRUE
  /\ lines = 0 /\ result = "0" /\ forks = 0
  /\ mounted = {} /\ bootfs = NULL /\ cwd = [t \in Thread |-> NULL] /\ touched = {}
  /\ args = <<NULL, NULL>> /\ ptr = [t \in Child |-> 1]

-----------------------------------------------------------------------------
\* Mutant of BootOrder: the devices, and interrupts, before the threads.
BootOrder_dev == <<"ram", "scheduler", "vfs", "dev", "thread", "vm", "kprintf">>

\* boot(): "The order of these is important!"
BootOrder == <<"ram", "scheduler", "thread", "vfs", "dev", "vm", "kprintf">>

\* machdep_dev_bootstrap finds interrupts off and turns them on for the probes.
IeAfter(sub) == ie \/ sub = "dev"

\* A bootstrap function.
bootstrap ==
  /\ Runs(boot, "boot") /\ Cardinality(up) < Len(BootOrder)
  /\ LET sub == BootOrder[Cardinality(up) + 1]
     IN up' = up \cup {sub} /\ ie' = IeAfter(sub)
  /\ UNCHANGED <<pc, power, menuVars, fsVars, progVars>>

\* The end of boot(): emu0 is the boot file system if it exists.  kmain calls
\* menu with the bootloader's line.
kmain ==
  /\ Runs(boot, "boot") /\ Cardinality(up) = Len(BootOrder)
  /\ bootfs' \in {emu0, NULL}
  /\ line' \in BootLine
  /\ Goto(boot, "execute")
  /\ UNCHANGED <<cmd, isargs, lines, result, forks, mounted, cwd, touched,
                 progVars, machVars>>

-----------------------------------------------------------------------------
\* menu: the prompt, and kgets.
kgets ==
  /\ Runs(boot, "prompt") /\ lines < MaxLines
  /\ line' \in Line /\ lines' = lines + 1
  /\ Goto(boot, "execute")
  /\ UNCHANGED <<cmd, isargs, result, forks, fsVars, progVars, machVars>>

\* Mutant of RestOfLine: menu_execute starts the line again (strtok without
\* its context).
RestOfLine_again(l) == l

RestOfLine(l) == Tail(l)

\* cmd_dispatch splits a command into args.  Each call has the array at the
\* same place, so the words of the command before are overwritten as far as
\* this one has words.
Words(c) == [i \in 1 .. 2 |-> IF i > c.nargs THEN args[i]
                              ELSE IF i = 1 THEN c.func ELSE c.arg]

\* menu_execute takes the next command, and returns at the end of the line.
menu_execute ==
  /\ Runs(boot, "execute")
  /\ \/ /\ line # <<>>
        /\ cmd' = Head(line) /\ line' = RestOfLine(line)
        /\ args' = Words(cmd')
        /\ Goto(boot, "dispatch")
        /\ UNCHANGED isargs
     \/ /\ line = <<>> /\ isargs' = FALSE
        /\ Goto(boot, "prompt")
        /\ UNCHANGED <<line, cmd, args>>
  /\ UNCHANGED <<lines, result, forks, fsVars, ptr, machVars>>

\* The command's function is called with enough words; else it says "Usage".
Usage(c) == CASE c.func = "cmd_prog" -> c.nargs >= 2
              [] c.func = "cmd_shell" -> c.nargs = 1
              [] c.func = "cmd_mount" -> c.nargs = 3
              [] c.func \in {"cmd_unmount", "cmd_bootfs", "cmd_chdir"} -> c.nargs = 2
              [] OTHER -> TRUE

\* cmd_dispatch before it calls anything; "call" when it finds a function.
Dispatch(c) == CASE c.nargs > MAXMENUARGS -> "E2BIG"
                 [] c.nargs = 0 -> "0"
                 [] c.nargs \in 1 .. MAXMENUARGS /\ (c.func = NULL \/ ~Usage(c)) -> "EINVAL"
                 [] OTHER -> "call"

Calls(func) == Runs(boot, "dispatch") /\ Dispatch(cmd) = "call" /\ cmd.func = func

Returns(r) == result' = r /\ Goto(boot, "return")

\* There is nothing to call.
cmd_refused ==
  /\ Runs(boot, "dispatch") /\ Dispatch(cmd) # "call"
  /\ Returns(Dispatch(cmd))
  /\ UNCHANGED <<line, cmd, isargs, lines, forks, fsVars, progVars, machVars>>

\* The menus and kh only print.
cmd_mainmenu ==
  /\ Calls("cmd_mainmenu") /\ Returns("0")
  /\ UNCHANGED <<line, cmd, isargs, lines, forks, fsVars, progVars, machVars>>

\* pwd, sync, pf and the tests change nothing that is modelled; they may fail.
cmd_pwd ==
  /\ Calls("cmd_pwd") /\ \E r \in {"0", "ENOENT"} : Returns(r)
  /\ UNCHANGED <<line, cmd, isargs, lines, forks, fsVars, progVars, machVars>>

\* The menu goes on using the stack, and the line buffer, that args was in.
Reused == {a \in [1 .. 2 -> {args[1], args[2], NULL}] : \A i \in 1 .. 2 : a[i] \in {args[i], NULL}}

\* cmd_dispatch returns and its args array is no more.  A failure in the
\* bootloader's line is a panic.
cmd_return ==
  /\ Runs(boot, "return")
  /\ args' \in Reused
  /\ IF result # "0" /\ isargs THEN panic ELSE UNCHANGED power
  /\ Goto(boot, "execute")
  /\ cmd' = NULL /\ result' = "0"
  /\ UNCHANGED <<line, isargs, lines, forks, fsVars, ptr, up, ie>>

cmd_panic ==
  /\ Calls("cmd_panic") /\ panic
  /\ UNCHANGED <<pc, up, ie, menuVars, fsVars, progVars>>

-----------------------------------------------------------------------------
\* The new thread inherits the current directory.
thread_fork(t, where) ==
  /\ pc[t] = "none"
  /\ pc' = [pc EXCEPT ![t] = where, ![boot] = IF where = "program" THEN "return" ELSE @]
  /\ cwd' = [cwd EXCEPT ![t] = cwd[boot]]

\* cmd_prog passes args + 1, to drop the leading "p"; cmd_shell stores the
\* shell's path in args[0].
FirstArg(c) == IF c.func = "cmd_prog" THEN 2 ELSE 1

\* common_prog: a thread for cmd_progthread that gets an address in args, or
\* the failure of thread_fork.
common_prog(t) ==
  /\ Calls("cmd_prog") \/ Calls("cmd_shell")
  /\ args' = IF cmd.func = "cmd_shell" THEN [args EXCEPT ![1] = "/bin/sh"] ELSE args
  /\ \/ /\ thread_fork(t, "program")
        /\ result' = "0"
        /\ ptr' = [ptr EXCEPT ![t] = FirstArg(cmd)]
     \/ Returns("ENOMEM") /\ UNCHANGED <<cwd, ptr>>
  /\ UNCHANGED <<line, cmd, isargs, lines, forks, mounted, bootfs, touched, machVars>>

\* cmd_progthread copies args[0], whatever that is by now: a name that does
\* not fit fails the assertion, and what is no string may do so or fault.
cmd_progthread(t) ==
  /\ Runs(t, "program")
  /\ \/ args[ptr[t]] \notin TooLong /\ UNCHANGED power
     \/ args[ptr[t]] \in TooLong \cup {NULL} /\ panic
  /\ Goto(t, "runprogram")
  /\ UNCHANGED <<menuVars, fsVars, progVars, up, ie>>

thread_exit(t) ==
  /\ Goto(t, "none")
  /\ cwd' = [cwd EXCEPT ![t] = NULL]
  /\ ptr' = [ptr EXCEPT ![t] = 1]

\* runprogram does not return, or it fails and the message reads args again.
runprogram(t) ==
  /\ Runs(t, "runprogram")
  /\ \/ Goto(t, "user") /\ UNCHANGED <<cwd, ptr, power>>
     \/ thread_exit(t) /\ UNCHANGED power
     \/ args[ptr[t]] = NULL /\ panic /\ UNCHANGED <<pc, cwd, ptr>>
  /\ UNCHANGED <<menuVars, mounted, bootfs, touched, args, up, ie>>

\* A program, a cat, a mouse or a vehicle ends.
child_exit(t) ==
  /\ Runs(t, "user") \/ Runs(t, "animal")
  /\ thread_exit(t)
  /\ UNCHANGED <<menuVars, mounted, bootfs, touched, args, machVars>>

\* catmousesem, catmouselock and createvehicles: a loop of thread_forks.
start_threads ==
  /\ Calls("catmouse")
  /\ forks' = NTHREADS
  /\ Goto(boot, "forking")
  /\ UNCHANGED <<line, cmd, isargs, lines, result, fsVars, progVars, machVars>>

\* Mutant of MoreForks: one round too many.
MoreForks_atleast(n) == n >= 0

MoreForks(n) == n > 0

\* "panic() on error."
fork_thread ==
  /\ Runs(boot, "forking")
  /\ \/ /\ MoreForks(forks)
        /\ \/ (\E t \in Child : thread_fork(t, "animal")) /\ UNCHANGED power
           \/ panic /\ UNCHANGED <<pc, cwd>>
        /\ forks' = forks - 1
        /\ UNCHANGED result
     \/ ~MoreForks(forks) /\ Returns("0") /\ UNCHANGED <<forks, cwd, power>>
  /\ UNCHANGED <<line, cmd, isargs, lines, mounted, bootfs, touched, progVars, up, ie>>

-----------------------------------------------------------------------------
\* vfs.h: the boot file system has to be cleared "so that the filesystem in
\* question can be unmounted"; so has every current directory.
Busy(d) == bootfs = d \/ \E t \in Thread : cwd[t] = d

Usable(d) == d \in mounted \/ d = emu0

\* A command uses d while a shutdown is going on.
Touch(d) == touched' = IF ShuttingDown THEN touched \cup {d} ELSE touched

\* cmd_mount: the type must be in mounttable, and sfs_mount may fail.
cmd_mount ==
  /\ Calls("cmd_mount")
  /\ \/ /\ cmd.arg \in Dev \ mounted
        /\ mounted' = mounted \cup {cmd.arg} /\ Touch(cmd.arg)
        /\ Returns("0")
     \/ Returns("EINVAL") /\ UNCHANGED <<mounted, touched>>
  /\ UNCHANGED <<line, cmd, isargs, lines, forks, bootfs, cwd, progVars, machVars>>

cmd_unmount ==
  /\ Calls("cmd_unmount")
  /\ IF cmd.arg \in mounted /\ ~Busy(cmd.arg)
     THEN mounted' = mounted \ {cmd.arg} /\ Returns("0")
     ELSE UNCHANGED mounted /\ Returns("EBUSY")
  /\ UNCHANGED <<line, cmd, isargs, lines, forks, bootfs, cwd, touched, progVars, machVars>>

cmd_bootfs ==
  /\ Calls("cmd_bootfs")
  /\ IF Usable(cmd.arg)
     THEN bootfs' = cmd.arg /\ Touch(cmd.arg) /\ Returns("0")
     ELSE UNCHANGED <<bootfs, touched>> /\ Returns("ENODEV")
  /\ UNCHANGED <<line, cmd, isargs, lines, forks, mounted, cwd, progVars, machVars>>

cmd_chdir ==
  /\ Calls("cmd_chdir")
  /\ IF Usable(cmd.arg)
     THEN /\ cwd' = [cwd EXCEPT ![boot] = cmd.arg]
          /\ Touch(cmd.arg) /\ Returns("0")
     ELSE UNCHANGED <<cwd, touched>> /\ Returns("ENODEV")
  /\ UNCHANGED <<line, cmd, isargs, lines, forks, mounted, bootfs, progVars, machVars>>

-----------------------------------------------------------------------------
\* sys_reboot with a code that it knows, from cmd_quit (after vfs_sync) or
\* from a program's system call.
sys_reboot(t) ==
  /\ Runs(t, "user") \/ (t = boot /\ Calls("cmd_quit"))
  /\ Goto(t, "vfs_clearbootfs")
  /\ touched' = touched \cup {cwd[u] : u \in Thread \ {t}}
  /\ UNCHANGED <<menuVars, mounted, bootfs, cwd, progVars, machVars>>

\* Mutant of BootfsAfterClear: the boot file system is kept.
BootfsAfterClear_kept == bootfs

BootfsAfterClear == NULL

vfs_clearbootfs(t) ==
  /\ Runs(t, "vfs_clearbootfs") /\ Goto(t, "vfs_clearcurdir")
  /\ bootfs' = BootfsAfterClear
  /\ UNCHANGED <<menuVars, mounted, cwd, touched, progVars, machVars>>

\* Only the current directory of the thread that shuts down.
vfs_clearcurdir(t) ==
  /\ Runs(t, "vfs_clearcurdir") /\ Goto(t, "vfs_unmountall")
  /\ cwd' = [cwd EXCEPT ![t] = NULL]
  /\ UNCHANGED <<menuVars, mounted, bootfs, touched, progVars, machVars>>

vfs_unmountall(t) ==
  /\ Runs(t, "vfs_unmountall") /\ Goto(t, "splhigh")
  /\ mounted' = {d \in mounted : Busy(d)}
  /\ UNCHANGED <<menuVars, bootfs, cwd, touched, progVars, machVars>>

\* Mutant of MaskForShutdown: interrupts stay on.
MaskForShutdown_on == ie

MaskForShutdown == FALSE

splhigh(t) ==
  /\ Runs(t, "splhigh") /\ Goto(t, "scheduler_shutdown")
  /\ ie' = MaskForShutdown
  /\ UNCHANGED <<menuVars, fsVars, progVars, up, power>>

\* scheduler_shutdown drops the threads that are ready, and destroys the queue.
scheduler_shutdown(t) ==
  /\ Runs(t, "scheduler_shutdown") /\ Goto(t, "thread_shutdown")
  /\ up' = up \ {"scheduler"}
  /\ UNCHANGED <<menuVars, fsVars, progVars, ie, power>>

thread_shutdown(t) ==
  /\ Runs(t, "thread_shutdown") /\ Goto(t, "md")
  /\ up' = up \ {"thread"}
  /\ UNCHANGED <<menuVars, fsVars, progVars, ie, power>>

\* md_poweroff, which cmd_quit asks for, or md_halt; md_reboot powers off too.
md_stop(t) ==
  /\ Runs(t, "md")
  /\ power' \in IF t = boot THEN {"off"} ELSE {"off", "halted"}
  /\ UNCHANGED <<pc, up, ie, menuVars, fsVars, progVars>>

shutdown(t) ==
  \/ vfs_clearbootfs(t) \/ vfs_clearcurdir(t) \/ vfs_unmountall(t)
  \/ splhigh(t) \/ scheduler_shutdown(t) \/ thread_shutdown(t) \/ md_stop(t)

-----------------------------------------------------------------------------
\* What the menu does with a line, without waiting for anybody.
menu ==
  \/ menu_execute \/ cmd_refused \/ cmd_mainmenu \/ cmd_pwd \/ cmd_return \/ cmd_panic
  \/ \E t \in Child : common_prog(t)
  \/ start_threads \/ fork_thread
  \/ cmd_mount \/ cmd_unmount \/ cmd_bootfs \/ cmd_chdir \/ sys_reboot(boot)

Next ==
  \/ bootstrap \/ kmain \/ kgets \/ menu
  \/ \E t \in Child : cmd_progthread(t) \/ runprogram(t) \/ child_exit(t) \/ sys_reboot(t)
  \/ \E t \in Thread : shutdown(t)

\* The run queue is round-robin and the clock preempts: a thread that is ready
\* gets to run.  Nobody has to type, and programs need not end.
Spec == /\ Init /\ [][Next]_vars
        /\ WF_vars(menu) /\ \A t \in Thread : WF_vars(shutdown(t))

-----------------------------------------------------------------------------
TypeOK ==
  /\ pc \in [Thread -> {"none", "boot", "execute", "prompt", "dispatch", "return",
                        "forking", "program", "runprogram", "user", "animal"} \cup Shutdown]
  /\ up \subseteq {BootOrder[i] : i \in DOMAIN BootOrder}
  /\ ie \in BOOLEAN /\ power \in {"on", "off", "halted", "panic"}
  /\ mounted \subseteq Dev /\ bootfs \in Dev \cup {emu0, NULL}
  /\ cwd \in [Thread -> Dev \cup {emu0, NULL}]
  /\ DOMAIN args = 1 .. 2 /\ ptr \in [Child -> 1 .. 2]
  /\ forks \in 0 .. NTHREADS

\* main.c: "The order of these is important!", and thread_yield: "Check
\* sleepers just in case we get here after shutdown".  From boot to power off,
\* whoever shuts down and whatever the others do meanwhile, a clock interrupt
\* can only be taken while the bus, the run queue and the thread arrays that
\* its handler uses exist.
InterruptsServed ==
  ie /\ power = "on" => {"scheduler", "thread", "dev"} \subseteq up

\* vfs_clearbootfs: "This should be done during shutdown so that the
\* filesystem in question can be unmounted."  When the machine stops, a file
\* system is still mounted only if during a shutdown another thread mounted it
\* or used it as the boot file system or as its current directory: also when
\* the menu and a program shut down at the same time.
UnmountedAtStop ==
  power \in {"off", "halted"} => mounted \subseteq touched

\* Every command line is worked off and the prompt comes back, whatever its
\* commands return, or the machine is stopped; and a shutdown that has begun
\* ends, also when two of them run at the same time.
EveryLineAnswered ==
  /\ pc[boot] = "execute" ~> (pc[boot] = "prompt" \/ power # "on")
  /\ ShuttingDown ~> power # "on"
=============================================================================
