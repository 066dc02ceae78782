-------------------------------- MODULE Trap --------------------------------
(***************************************************************************)
(* Traps, system calls and the interrupt level: kern/mips/trap.c,          *)
(* syscall.c, spl.c and interrupt.c, with the spl handling of vm_fault     *)
(* (dumbvm.c), thread_yield, thread_exit and mi_threadstart (thread.c).    *)
(*                                                                         *)
(* There is one curspl and one interrupt enable flag for all threads and   *)
(* all levels of trap.  The state of a thread is the stack of what it is   *)
(* executing, innermost last; the frames keep the local variables that     *)
(* matter (savespl, spl, old_in) and the status and epc of the trapframe.  *)
(* Code that runs with interrupts off is one step; with interrupts on, an  *)
(* interrupt and through hardclock a switch may come after every step,     *)
(* also in splx between the flag and the assignment to curspl.             *)
(***************************************************************************)
EXTENDS Integers, Sequences, SequencesExt

CONSTANTS Thread, boot,
          SPL_HIGH,
          Entry,        \* entry point of a program, in instructions
          LastPC        \* bound: where a program stops making system calls

ASSUME TrapAssumption ==
  /\ boot \in Thread
  /\ SPL_HIGH \in Nat \ {0}
  /\ Entry \in Nat /\ LastPC \in Nat

VARIABLES
  cur,            \* curthread
  stack,          \* what each thread is executing; <<>> if it does not exist
  hasas,          \* threads with an address space (t_vmspace is not NULL)
  badas,          \* threads whose t_vmspace points to something else
  ie,             \* the processor's interrupt enable flag, IEc
  curspl,
  in_interrupt,
  pcb_ininterrupt,
  stopped         \* "no", "halt" or the reason of a panic

vars == <<cur, stack, hasas, badas, ie, curspl, in_interrupt, pcb_ininterrupt,
          stopped>>

(***************************************************************************)
(* kind: "kernel" a thread's function, "forked" the child's md_forkentry,  *)
(* "user" a program, "irq", "sys" and "fault" a mips_trap, "high" a        *)
(* function between spl = splhigh() and splx(spl), "splx" inside splx(0).  *)
(* at: how far it is.  lvl: the level that the code of the frame itself    *)
(* has asked for (history).  spl: savespl or spl.  ie: IEp in tf_status.   *)
(* pc: the program's pc, or tf_epc of the parent's trapframe.              *)
(* old_in: of mips_interrupt.  bad: pcb_badfaultfunc is set (a copyin).    *)
(***************************************************************************)
NoFrame == [kind |-> "kernel", at |-> "run", lvl |-> 0, spl |-> 0, ie |-> FALSE,
            pc |-> 0, old_in |-> FALSE, bad |-> FALSE]

Kinds == {"kernel", "forked", "user", "irq", "sys", "fault", "high", "splx"}

Splx0 == [NoFrame EXCEPT !.kind = "splx"]

Top(t) == Last(stack[t])
Below(t) == Front(stack[t])

\* boot(): "System starts out with interrupts off", until the spl0 of
\* machdep_dev_bootstrap, which is this frame's splx_block.
Booting == [NoFrame EXCEPT !.kind = "high", !.at = "before", !.lvl = SPL_HIGH]

Init ==
  /\ cur = boot
  /\ stack = [t \in Thread |-> IF t = boot THEN <<NoFrame, Booting>> ELSE <<>>]
  /\ hasas = {} /\ badas = {}
  /\ ie = FALSE /\ curspl = SPL_HIGH
  /\ in_interrupt = FALSE
  /\ pcb_ininterrupt = [t \in Thread |-> FALSE]
  /\ stopped = "no"

Runs(t) == cur = t /\ stopped = "no"

\* Kernel code of the thread itself: its function, or a system call.
InKernel(t) == \/ Top(t).kind = "kernel"
               \/ Top(t).kind = "sys" /\ Top(t).at = "body"

-----------------------------------------------------------------------------
\* Mutant of TurnsOn: splx only ever turns interrupts off.
TurnsOn_never(spl) == FALSE

TurnsOn(spl) == spl = 0

\* splx(spl) by code that runs with interrupts off and goes on with stk: the
\* flag first, and curspl in a later step when interrupts are on.
splx(t, stk, spl) ==
  /\ stack' = [stack EXCEPT ![t] = IF spl = 0 THEN Append(stk, Splx0) ELSE stk]
  /\ ie' = TurnsOn(spl)
  /\ curspl' = SPL_HIGH

\* The end of splx(0).
splx_end(t) ==
  /\ Runs(t) /\ stack[t] # <<>> /\ Top(t).kind = "splx"
  /\ curspl' = 0
  /\ stack' = [stack EXCEPT ![t] = Below(t)]
  /\ UNCHANGED <<cur, hasas, badas, ie, in_interrupt, pcb_ininterrupt, stopped>>

\* spl = splhigh() in thread_yield, V and the like, by a thread or by
\* hardclock, which yields once.
splhigh_block(t) ==
  /\ Runs(t)
  /\ InKernel(t) \/ (Top(t).kind = "irq" /\ Top(t).at = "handler")
  /\ stack' = [stack EXCEPT ![t] =
                 Append(IF Top(t).kind = "irq"
                        THEN Append(Below(t), [Top(t) EXCEPT !.at = "yielded"])
                        ELSE stack[t],
                        [NoFrame EXCEPT !.kind = "high", !.at = "before",
                                        !.lvl = SPL_HIGH, !.spl = curspl])]
  /\ ie' = FALSE /\ curspl' = SPL_HIGH
  /\ UNCHANGED <<cur, hasas, badas, in_interrupt, pcb_ininterrupt, stopped>>

\* ... splx(spl).
splx_block(t) ==
  /\ Runs(t) /\ stack[t] # <<>> /\ Top(t).kind = "high"
  /\ splx(t, Below(t), Top(t).spl)
  /\ UNCHANGED <<cur, hasas, badas, in_interrupt, pcb_ininterrupt, stopped>>

-----------------------------------------------------------------------------
\* A thread that can be switched to: it waits in mi_switch, or is new.
SwitchedOut(t) == /\ stack[t] # <<>>
                  /\ \/ Top(t).kind = "high" /\ Top(t).at = "switched"
                     \/ Top(t).at = "new"

\* What next goes on with; a new thread is in spl0, called by mi_threadstart.
Resumed(stk) == IF Last(stk).at = "new"
                   THEN <<[Last(stk) EXCEPT !.at = "run"], Splx0>>
                   ELSE Append(Front(stk), [Last(stk) EXCEPT !.at = "back"])

\* Mutant of ToInterrupt: in_interrupt stays what it was for the old thread.
ToInterrupt_same(next) == in_interrupt

\* md_switch takes in_interrupt from the pcb of the next thread.
ToInterrupt(next) == pcb_ininterrupt[next]

\* A new thread comes out of the switch in mi_threadstart, which turns
\* interrupts on.
Starts(next) == Top(next).at = "new"

\* mi_switch and md_switch, which does not switch curspl.  stk: what is left
\* of the old thread's stack.
md_switch(old, stk, next) ==
  /\ next # old /\ SwitchedOut(next)
  /\ cur' = next
  /\ stack' = [stack EXCEPT ![old] = stk, ![next] = Resumed(stack[next])]
  /\ pcb_ininterrupt' = [pcb_ininterrupt EXCEPT ![old] = in_interrupt]
  /\ in_interrupt' = ToInterrupt(next)

\* thread_yield switches once, to another thread or back to itself.
thread_yield(t, next) ==
  /\ Runs(t) /\ stack[t] # <<>> /\ Top(t).kind = "high" /\ Top(t).at = "before"
  /\ md_switch(t, Append(Below(t), [Top(t) EXCEPT !.at = "switched"]), next)
  /\ ie' = (ie \/ Starts(next))
  /\ UNCHANGED <<hasas, badas, curspl, stopped>>

\* Mutant of AsAfterExit: the address space stays with the dead thread.
AsAfterExit_kept(t) == hasas

AsAfterExit(t) == hasas \ {t}

\* thread_exit: splhigh, the address space goes, and never back.
exit_and_switch(t, next) ==
  /\ md_switch(t, <<>>, next)
  /\ ie' = Starts(next)
  /\ curspl' = SPL_HIGH
  /\ hasas' = AsAfterExit(t)
  /\ badas' = badas \ {t}
  /\ UNCHANGED stopped

\* A thread's function returns, or a program calls _exit.
thread_exit(t, next) ==
  /\ Runs(t) /\ InKernel(t) /\ t # boot
  /\ exit_and_switch(t, next)

-----------------------------------------------------------------------------
\* What the processor and the top of mips_trap do: the flag and curspl are
\* saved in the trap's frame, and interrupts are off.
Enter(t, kind, at, bad) ==
  /\ stack' = [stack EXCEPT ![t] =
                 Append(@, [kind |-> kind, at |-> at, lvl |-> SPL_HIGH,
                            spl |-> curspl, ie |-> ie, pc |-> 0,
                            old_in |-> in_interrupt, bad |-> bad])]
  /\ ie' = FALSE /\ curspl' = SPL_HIGH

interrupt(t) ==
  /\ Runs(t) /\ ie
  /\ Enter(t, "irq", "handler", FALSE)
  /\ in_interrupt' = TRUE
  /\ UNCHANGED <<cur, hasas, badas, pcb_ininterrupt, stopped>>

syscall(t) ==
  /\ Runs(t) /\ Top(t).kind = "user" /\ Top(t).pc < LastPC
  /\ t \notin badas        \* its first instruction faults
  /\ Enter(t, "sys", "entry", FALSE)
  /\ UNCHANGED <<cur, hasas, badas, in_interrupt, pcb_ininterrupt, stopped>>

\* A TLB miss of the program, of a copyin or copyout (bad), or of kernel code
\* that follows a user's pointer itself, as SYS_write does.
fault(t, bad) ==
  /\ Runs(t)
  /\ (Top(t).kind = "user" /\ ~bad) \/ InKernel(t)
  /\ Enter(t, "fault", "entry", bad)
  /\ UNCHANGED <<cur, hasas, badas, in_interrupt, pcb_ininterrupt, stopped>>

At(t, where) == Append(Below(t), [Top(t) EXCEPT !.at = where])

\* "leave spl where it was in the previous context": splx(savespl).
restore_spl(t) ==
  /\ Runs(t) /\ stack[t] # <<>> /\ Top(t).at = "entry"
  /\ splx(t, Append(Below(t), [Top(t) EXCEPT !.at = "body", !.lvl = Top(t).spl]),
          Top(t).spl)
  /\ UNCHANGED <<cur, hasas, badas, in_interrupt, pcb_ininterrupt, stopped>>

Handling(t, kind) == Runs(t) /\ stack[t] # <<>> /\ Top(t).kind = kind /\ Top(t).at = "body"

\* vm_fault, at splhigh.  It returns through splx(spl), except when the thread
\* has no address space: then EFAULT with interrupts off.
vm_fault(t, ok) ==
  /\ Handling(t, "fault") /\ t \notin badas
  /\ ok => t \in hasas
  /\ LET to == At(t, IF ok THEN "done" ELSE "fatal")
     IN IF t \in hasas
        THEN splx(t, to, curspl)
        ELSE /\ stack' = [stack EXCEPT ![t] = to]
             /\ ie' = FALSE /\ curspl' = SPL_HIGH
  /\ UNCHANGED <<cur, hasas, badas, in_interrupt, pcb_ininterrupt, stopped>>

\* vm_fault of a thread whose address space is misaligned: the load of
\* as_vbase1 is an address error in the kernel, which panics.
vm_fault_bad(t) ==
  /\ Handling(t, "fault") /\ t \in badas
  /\ stopped' = "fault"
  /\ UNCHANGED <<cur, stack, hasas, badas, ie, curspl, in_interrupt, pcb_ininterrupt>>

Fatal(t) == Runs(t) /\ stack[t] # <<>> /\ Top(t).at = "fatal"

\* kill_curthread, for a fault of the program.
kill_curthread(t, next) ==
  /\ Fatal(t) /\ Last(Below(t)).kind = "user"
  /\ exit_and_switch(t, next)

\* pcb_badfaultfunc: the copyin resumes there and returns EFAULT.
badfault(t) ==
  /\ Fatal(t) /\ Last(Below(t)).kind # "user" /\ Top(t).bad
  /\ stack' = [stack EXCEPT ![t] = At(t, "done")]
  /\ UNCHANGED <<cur, hasas, badas, ie, curspl, in_interrupt, pcb_ininterrupt, stopped>>

fatal_kernel(t) ==
  /\ Fatal(t) /\ Last(Below(t)).kind # "user" /\ ~Top(t).bad
  /\ stopped' = "fault"
  /\ UNCHANGED <<cur, stack, hasas, badas, ie, curspl, in_interrupt, pcb_ininterrupt>>

\* Mutant of SplAfter: the trap leaves curspl as splhigh() set it.
SplAfter_high(f) == SPL_HIGH

\* done: curspl is restored, the flag is by RFE.
SplAfter(f) == f.spl

\* The end of mips_trap and exception.S, for an interrupt's handler as well.
trap_return(t) ==
  /\ Runs(t) /\ stack[t] # <<>>
  /\ Top(t).at = "done" \/ Top(t).kind = "irq"
  /\ stack' = [stack EXCEPT ![t] = Below(t)]
  /\ curspl' = SplAfter(Top(t))
  /\ ie' = Top(t).ie
  /\ in_interrupt' = IF Top(t).kind = "irq" THEN Top(t).old_in ELSE in_interrupt
  /\ UNCHANGED <<cur, hasas, badas, pcb_ininterrupt, stopped>>

-----------------------------------------------------------------------------
\* mips_syscall asserts that curspl is 0 when it starts and when it ends; it
\* advances the program's pc.  Every call but those below ends like this.
mips_syscall(t) ==
  /\ Handling(t, "sys")
  /\ IF curspl = 0
     THEN /\ stack' = [stack EXCEPT ![t] = [At(t, "done") EXCEPT ![1].pc = @ + 1]]
          /\ UNCHANGED stopped
     ELSE stopped' = "assert" /\ UNCHANGED stack
  /\ UNCHANGED <<cur, hasas, badas, ie, curspl, in_interrupt, pcb_ininterrupt>>

\* SYS_reboot with a code that sys_reboot knows: shutdown, and the machine
\* stops.  Another code is EINVAL, which is mips_syscall.
sys_reboot(t) ==
  /\ Handling(t, "sys")
  /\ stopped' = "halt"
  /\ UNCHANGED <<cur, stack, hasas, badas, ie, curspl, in_interrupt, pcb_ininterrupt>>

\* Mutant of mips_usermode's level: curspl is left at SPL_HIGH.
UserSpl_high == SPL_HIGH

UserSpl == 0

\* mips_usermode: splhigh, curspl = 0, and asm_usermode with IEp set.
mips_usermode(t, pc) ==
  /\ stack' = [stack EXCEPT ![t] = <<[NoFrame EXCEPT !.kind = "user", !.pc = pc]>>]
  /\ curspl' = UserSpl
  /\ ie' = TRUE

\* A kernel thread runs a program, or a program calls execv: md_usermode.
md_usermode(t) ==
  /\ Runs(t) /\ InKernel(t) /\ t # boot
  /\ mips_usermode(t, Entry)
  /\ hasas' = hasas \cup {t}
  /\ badas' = badas \ {t}
  /\ UNCHANGED <<cur, in_interrupt, pcb_ininterrupt, stopped>>

\* thread_fork by kernel code, and by SYS_fork for md_forkentry with a copy of
\* the parent's trapframe.  md_initpcb clears pcb_ininterrupt.
thread_fork(t, c) ==
  /\ Runs(t) /\ InKernel(t) /\ stack[c] = <<>>
  /\ stack' = [stack EXCEPT ![c] =
                 <<IF Top(t).kind = "sys"
                   THEN [NoFrame EXCEPT !.kind = "forked", !.at = "new", !.pc = stack[t][1].pc]
                   ELSE [NoFrame EXCEPT !.at = "new"]>>]
  /\ pcb_ininterrupt' = [pcb_ininterrupt EXCEPT ![c] = FALSE]
  /\ UNCHANGED <<cur, hasas, badas, ie, curspl, in_interrupt, stopped>>

\* md_forkentry: "child_tf.tf_epc =+ 4" assigns 4, the second instruction (the
\* comment there asks for the one after the parent's call), and the address
\* space is data1 + 1, a misaligned address.
ForkPC(epc) == 1

md_forkentry(t) ==
  /\ Runs(t) /\ stack[t] # <<>> /\ Top(t).kind = "forked"
  /\ mips_usermode(t, ForkPC(Top(t).pc))
  /\ hasas' = hasas \cup {t} /\ badas' = badas \cup {t}
  /\ UNCHANGED <<cur, in_interrupt, pcb_ininterrupt, stopped>>

-----------------------------------------------------------------------------
Next ==
  \E t \in Thread :
    \/ splx_end(t) \/ splhigh_block(t) \/ splx_block(t)
    \/ interrupt(t) \/ syscall(t) \/ restore_spl(t)
    \/ \E b \in BOOLEAN : fault(t, b) \/ vm_fault(t, b)
    \/ vm_fault_bad(t) \/ badfault(t) \/ fatal_kernel(t) \/ trap_return(t)
    \/ mips_syscall(t) \/ sys_reboot(t) \/ md_usermode(t) \/ md_forkentry(t)
    \/ \E u \in Thread : \/ thread_yield(t, u) \/ thread_exit(t, u)
                         \/ kill_curthread(t, u) \/ thread_fork(t, u)

\* The steps the processor goes on to by itself in code without a loop.
Straight(t) == \/ splx_end(t) \/ splx_block(t) \/ restore_spl(t) \/ trap_return(t)
               \/ badfault(t) \/ fatal_kernel(t) \/ vm_fault_bad(t)
               \/ \E b \in BOOLEAN : vm_fault(t, b)

Spec == Init /\ [][Next]_vars /\ WF_vars(\E t \in Thread : Straight(t))

-----------------------------------------------------------------------------
Frames(t) == {stack[t][i] : i \in DOMAIN stack[t]}

\* Address spaces belong to live threads only: thread_destroy asserts it.
TypeOK ==
  /\ cur \in Thread
  /\ hasas \subseteq {t \in Thread : stack[t] # <<>>} /\ badas \subseteq hasas
  /\ ie \in BOOLEAN /\ curspl \in {0, SPL_HIGH} /\ in_interrupt \in BOOLEAN
  /\ pcb_ininterrupt \in [Thread -> BOOLEAN]
  /\ \A t \in Thread : \A f \in Frames(t) : f.kind \in Kinds /\ f.spl \in {0, SPL_HIGH}
  /\ stopped \in {"no", "halt", "fault", "assert"}

\* splx: "the interrupt will change the value, but the interrupt will set the
\* value back the way it was before it finishes".  Whatever interrupts, faults
\* and switches came in between, code that runs finds curspl, and the flag, at
\* the level it last asked for itself; a program always runs interruptible.
SplTransparent ==
  stopped = "no" /\ (InKernel(cur) \/ Top(cur).kind \in {"user", "forked", "high"}) =>
    curspl = Top(cur).lvl /\ (ie <=> Top(cur).lvl = 0)

\* in_interrupt, which thread_sleep and lock_acquire trust, is 1 exactly when
\* the running thread is inside mips_interrupt, although the handler itself
\* switches threads and md_switch moves the flag through the pcb.
InInterruptTruthful ==
  in_interrupt <=> \E f \in Frames(cur) : f.kind = "irq"

\* The assertions of mips_trap and mips_syscall: "Interrupts should have been
\* on while in user mode", "Make sure the syscall code didn't forget to lower
\* spl".
AssertionsHold == stopped # "assert"

\* Interrupts are never off for good: the clock goes on ticking until the
\* system is stopped.
InterruptsReturn == []<>(ie \/ stopped # "no")
=============================================================================
