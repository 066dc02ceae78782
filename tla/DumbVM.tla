------------------------------- MODULE DumbVM -------------------------------
(***************************************************************************)
(* The physical allocator of kern/mips/ram.c and the virtual memory of     *)
(* kern/mips/dumbvm.c under the context switches of kern/thread/thread.c.  *)
(*                                                                         *)
(* Addresses are bytes in a word of WORD (2^32) values; a page is          *)
(* PAGE_SIZE bytes and holds one value.  getppages, vm_fault, as_activate  *)
(* and the end of mi_switch run at splhigh and are one step each; loading  *)
(* and copying an address space runs with interrupts on and takes a step   *)
(* for every region, so that other threads allocate in between.            *)
(***************************************************************************)
EXTENDS Integers, FiniteSets, FiniteSetsExt, Sequences

CONSTANTS Thread, boot, NULL,
          BadAs,              \* a pointer to what is not an address space
          PAGE_SIZE, WORD,
          KSEG0,              \* MIPS_KSEG0, which is also USERSTACK
          STACKPAGES,         \* DUMBVM_STACKPAGES
          NUM_TLB,
          ramsize, firstfree, \* what lamebus_ramsize and start.S report
          Image,              \* programs: sequences of segments [vaddr, sz]
          KernelRequest,      \* how many pages alloc_kpages may be asked for
          MaxKernelPages,     \* bound on what it gives in all
          MaxStarts, MaxStores, \* bounds on programs started and on stores
          TouchAddr,          \* user addresses that programs touch
          Value               \* what a page may hold; memory starts as zeros

Segment == [vaddr : 0 .. WORD - 1, sz : 0 .. WORD - 1]

ASSUME VMAssumption ==
  /\ boot \in Thread /\ NULL \notin Thread /\ BadAs # NULL /\ NULL \notin Nat
  /\ PAGE_SIZE \in Nat \ {0} /\ WORD \in Nat /\ KSEG0 \in 1 .. WORD
  /\ WORD % PAGE_SIZE = 0 /\ KSEG0 % PAGE_SIZE = 0 /\ ramsize % PAGE_SIZE = 0
  /\ STACKPAGES \in Nat \ {0} /\ STACKPAGES * PAGE_SIZE < KSEG0
  /\ KernelRequest \subseteq Nat \ {0} /\ MaxKernelPages \in Nat /\ MaxStarts \in Nat /\ MaxStores \in Nat
  /\ NUM_TLB \in Nat \ {0} /\ 0 \in Value
  /\ TouchAddr \subseteq 0 .. KSEG0 - 1 /\ Image \subseteq Seq(Segment)
  /\ ramsize \in 0 .. WORD - KSEG0
  /\ firstfree \in KSEG0 + PAGE_SIZE .. KSEG0 + ramsize
  /\ (firstfree - KSEG0) % PAGE_SIZE = 0

VARIABLES
  firstpaddr, lastpaddr,  \* the free physical pages, of ram.c
  cur,                    \* curthread
  as,                     \* t_vmspace of each thread
  newas,                  \* the address space as_copy is making for a child
  pc,                     \* where the thread is
  image,                  \* segments of its program not yet defined
  seg, fva,               \* the next region to get pages, the faulting address
  tlb,                    \* the slots of the TLB
  mem,                    \* contents of the physical pages
  kpages,                 \* physical pages given out by alloc_kpages
  starts, stores,         \* programs started and stores made, for the bounds
  panicked,               \* "no", or the panic that stopped the kernel
  wrapped                 \* history: a request was granted past the end of WORD

vars == <<firstpaddr, lastpaddr, cur, as, newas, pc, image, seg, fva, tlb, mem,
          kpages, starts, stores, panicked, wrapped>>

USERSTACK == KSEG0
Page == {a \in 0 .. WORD - 1 : a % PAGE_SIZE = 0}
Frame == {a \in Page : a < ramsize}
UserPage == {a \in Page : a < USERSTACK}

PAGE_FRAME(a) == a - (a % PAGE_SIZE)

\* struct addrspace: regions 1 and 2 are the program's, 3 is the stack.
Addrspace == [vbase : [1 .. 2 -> Page], npages : [1 .. 2 -> Nat],
              pbase : [1 .. 3 -> Page]]

\* The two values of t_vmspace that point to no address space.
ASSUME PointerAssumption == NULL \notin Addrspace /\ BadAs \notin Addrspace

EmptyAs == [vbase |-> [i \in 1 .. 2 |-> 0], npages |-> [i \in 1 .. 2 |-> 0],
            pbase |-> [i \in 1 .. 3 |-> 0]]

RegionBase(a, i) == IF i = 3 THEN USERSTACK - STACKPAGES * PAGE_SIZE ELSE a.vbase[i]
RegionPages(a, i) == IF i = 3 THEN STACKPAGES ELSE a.npages[i]

\* The physical pages that region i of a was given.
RegionFrames(a, i) ==
  IF a.pbase[i] = 0 THEN {}
  ELSE {a.pbase[i] + k * PAGE_SIZE : k \in 0 .. RegionPages(a, i) - 1}

NoEntry == [v |-> NULL, p |-> NULL]
Invalid == [i \in 1 .. NUM_TLB |-> NoEntry]

Init ==
  /\ lastpaddr = ramsize
  /\ firstpaddr = firstfree - KSEG0
  /\ cur = boot
  /\ as = [t \in Thread |-> NULL]
  /\ newas = [t \in Thread |-> NULL]
  /\ pc = [t \in Thread |-> "kernel"]
  /\ image = [t \in Thread |-> <<>>]
  /\ seg = [t \in Thread |-> 0]
  /\ fva = [t \in Thread |-> 0]
  /\ tlb = Invalid
  /\ mem = [f \in Frame |-> 0]
  /\ kpages = {}
  /\ starts = 0 /\ stores = 0
  /\ panicked = "no"
  /\ wrapped = FALSE

Runs(t) == cur = t /\ panicked = "no"

-----------------------------------------------------------------------------
\* ram_stealmem, in 32-bit unsigned arithmetic: the size, the test, the sum.
\* Mutant of StealSize: a count of pages taken for a count of bytes.
StealSize_pages(npages) == npages % WORD

StealSize(npages) == (npages * PAGE_SIZE) % WORD

Fits(npages) == (firstpaddr + StealSize(npages)) % WORD <= lastpaddr

\* What getppages returns: 0 when there is no room, else firstpaddr.
paddr(npages) == IF Fits(npages) THEN firstpaddr ELSE 0

\* Mutant of NextFree: every request takes one page.
NextFree_one(npages) == (firstpaddr + PAGE_SIZE) % WORD

NextFree(npages) == (firstpaddr + StealSize(npages)) % WORD

\* ... and it moves firstpaddr.
getppages(npages) ==
  IF Fits(npages)
  THEN /\ firstpaddr' = NextFree(npages)
       /\ wrapped' = (wrapped \/ firstpaddr + StealSize(npages) >= WORD)
       /\ UNCHANGED lastpaddr
  ELSE UNCHANGED <<firstpaddr, lastpaddr, wrapped>>

\* kmalloc takes n pages for the kernel, for a size that fits a word.  They
\* never come back: free_kpages does nothing.  A request that fails changes
\* nothing.
alloc_kpages(t, n) ==
  /\ Runs(t) /\ pc[t] = "kernel"
  /\ Cardinality(kpages) + n <= MaxKernelPages /\ n * PAGE_SIZE < WORD
  /\ paddr(n) # 0
  /\ getppages(n)
  /\ kpages' = kpages \cup {(paddr(n) + k * PAGE_SIZE) % WORD : k \in 0 .. n - 1}
  /\ UNCHANGED <<image, cur, as, newas, pc, seg, fva, tlb, mem, panicked,
                 starts, stores>>

-----------------------------------------------------------------------------
\* The page-aligned size of a segment, in unsigned words.
RegionSize(vaddr, sz) ==
  LET fromBase == (sz + (vaddr % PAGE_SIZE)) % WORD
  IN PAGE_FRAME((fromBase + PAGE_SIZE - 1) % WORD)

\* runprogram (not in the repository): as_create for a thread that has no
\* address space, as_activate, and the segments of the program to load.
runprogram(t, i) ==
  /\ Runs(t) /\ pc[t] = "kernel" /\ t # boot
  /\ starts < MaxStarts /\ starts' = starts + 1
  /\ as' = [as EXCEPT ![t] = EmptyAs]
  /\ tlb' = Invalid
  /\ image' = [image EXCEPT ![t] = i]
  /\ seg' = [seg EXCEPT ![t] = 1]
  /\ pc' = [pc EXCEPT ![t] = "load"]
  /\ UNCHANGED <<firstpaddr, lastpaddr, cur, newas, fva, mem, kpages, panicked,
                 wrapped, stores>>

\* as_define_region takes the first of the two regions that has no base; when
\* there is none it returns EUNIMP, the load fails and thread_exit follows.
as_define_region(t) ==
  /\ Runs(t) /\ pc[t] = "load" /\ image[t] # <<>>
  /\ LET s == Head(image[t])
         free == {i \in 1 .. 2 : as[t].vbase[i] = 0}
     IN IF free = {}
        THEN /\ pc' = [pc EXCEPT ![t] = "exit"]
             /\ image' = [image EXCEPT ![t] = <<>>]
             /\ UNCHANGED as
        ELSE /\ as' = [as EXCEPT
                        ![t].vbase[Min(free)] = PAGE_FRAME(s.vaddr),
                        ![t].npages[Min(free)] = RegionSize(s.vaddr, s.sz) \div PAGE_SIZE]
             /\ image' = [image EXCEPT ![t] = Tail(@)]
             /\ UNCHANGED pc
  /\ UNCHANGED <<firstpaddr, lastpaddr, cur, newas, seg, fva, tlb, mem, kpages,
                 panicked, wrapped, starts, stores>>

\* Mutant of NoMemory: what getppages returned is not looked at.
NoMemory_unseen(addr) == FALSE

\* as_prepare_load gives up with ENOMEM.
NoMemory(addr) == addr = 0

\* as_prepare_load asserts that the region has no pages yet and asks for them.
\* ENOMEM leaves the regions before it as they are; thread_exit follows.
\* After the last one as_complete_load and as_define_stack change nothing and
\* md_usermode enters the program.
as_prepare_load(t) ==
  /\ Runs(t) /\ pc[t] = "load" /\ image[t] = <<>>
  /\ IF as[t].pbase[seg[t]] # 0
     THEN panicked' = "assert" /\ UNCHANGED <<as, pc, seg, firstpaddr,
                                             lastpaddr, wrapped>>
     ELSE LET addr == paddr(RegionPages(as[t], seg[t])) IN
          /\ getppages(RegionPages(as[t], seg[t]))
          /\ as' = [as EXCEPT ![t].pbase[seg[t]] = addr]
          /\ pc' = [pc EXCEPT ![t] = IF NoMemory(addr) THEN "exit"
                                     ELSE IF seg[t] = 3 THEN "user" ELSE "load"]
          /\ seg' = [seg EXCEPT ![t] = IF ~NoMemory(addr) /\ @ < 3 THEN @ + 1 ELSE 0]
          /\ UNCHANGED panicked
  /\ UNCHANGED <<image, cur, newas, fva, tlb, mem, kpages, starts, stores>>

-----------------------------------------------------------------------------
\* The program gets to execute: its code is at a page that can be mapped.
Running(t) == as[t] # BadAs

\* as_copy, called for a fork by the thread that owns the old address space.
as_copy(t) ==
  /\ Runs(t) /\ pc[t] = "user" /\ Running(t)
  /\ newas' = [newas EXCEPT ![t] = [as[t] EXCEPT !.pbase = EmptyAs.pbase]]
  /\ pc' = [pc EXCEPT ![t] = "copy"]
  /\ seg' = [seg EXCEPT ![t] = 1]
  /\ UNCHANGED <<image, firstpaddr, lastpaddr, cur, as, fva, tlb, mem, kpages,
                 panicked, wrapped, starts, stores>>

\* as_prepare_load of the copy.  On ENOMEM the copy is freed and fork fails;
\* the pages it had been given are not.
as_copy_region(t) ==
  /\ Runs(t) /\ pc[t] = "copy" /\ seg[t] <= 3
  /\ getppages(RegionPages(newas[t], seg[t]))
  /\ LET addr == paddr(RegionPages(newas[t], seg[t])) IN
          IF NoMemory(addr)
          THEN /\ newas' = [newas EXCEPT ![t] = NULL]
               /\ pc' = [pc EXCEPT ![t] = "user"]
               /\ seg' = [seg EXCEPT ![t] = 0]
          ELSE /\ newas' = [newas EXCEPT ![t].pbase[seg[t]] = addr]
               /\ seg' = [seg EXCEPT ![t] = @ + 1]
               /\ UNCHANGED pc
  /\ UNCHANGED <<image, cur, as, fva, tlb, mem, kpages, panicked,
                 starts, stores>>

\* Mutant of MovedFrom: the stack is not moved.
MovedFrom_nostack(old, new, f) ==
  {old.pbase[i] + (f - new.pbase[i]) :
     i \in {j \in 1 .. 2 : f \in RegionFrames(new, j)}}

\* The pages whose contents the three memmoves of as_copy put in f.
MovedFrom(old, new, f) ==
  {old.pbase[i] + (f - new.pbase[i]) :
     i \in {j \in 1 .. 3 : f \in RegionFrames(new, j)}}

\* The three memmoves of as_copy; a region that runs off the end of memory
\* is a bus error.  The child is a new thread, which runs md_forkentry.
as_copy_move(t, c) ==
  /\ Runs(t) /\ pc[t] = "copy" /\ seg[t] > 3
  /\ c # t /\ c # boot /\ pc[c] = "kernel" /\ as[c] = NULL
  /\ LET old == as[t]
         new == newas[t]
         touched == UNION {RegionFrames(old, i) \cup RegionFrames(new, i) : i \in 1 .. 3}
     IN IF touched \subseteq Frame
        THEN /\ mem' = [f \in Frame |->
                          LET from == MovedFrom(old, new, f)
                          IN IF from = {} THEN mem[f] ELSE mem[CHOOSE g \in from : TRUE]]
             /\ newas' = [newas EXCEPT ![t] = NULL, ![c] = new]
             /\ pc' = [pc EXCEPT ![t] = "user", ![c] = "forkentry"]
             /\ seg' = [seg EXCEPT ![t] = 0]
             /\ UNCHANGED panicked
        ELSE panicked' = "bus" /\ UNCHANGED <<mem, newas, pc, seg>>
  /\ UNCHANGED <<image, firstpaddr, lastpaddr, cur, as, fva, tlb, kpages, wrapped,
                 starts, stores>>

\* md_forkentry takes data1 + 1, one byte past the array that sys_fork passed,
\* for the child's address space: the copy is lost, and the child has a
\* misaligned pointer.
md_forkentry(c) ==
  /\ Runs(c) /\ pc[c] = "forkentry"
  /\ as' = [as EXCEPT ![c] = BadAs]
  /\ newas' = [newas EXCEPT ![c] = NULL]
  /\ pc' = [pc EXCEPT ![c] = "activate"]
  /\ UNCHANGED <<image, firstpaddr, lastpaddr, cur, seg, fva, tlb, mem, kpages, panicked,
                 wrapped, starts, stores>>

\* md_forkentry calls it last, with interrupts on; mips_usermode follows.
as_activate(c) ==
  /\ Runs(c) /\ pc[c] = "activate"
  /\ tlb' = Invalid
  /\ pc' = [pc EXCEPT ![c] = "user"]
  /\ UNCHANGED <<image, firstpaddr, lastpaddr, cur, as, newas, seg, fva, mem, kpages,
                 panicked, wrapped, starts, stores>>

-----------------------------------------------------------------------------
\* An access of the process, or of the kernel on its behalf, through the TLB.
Hits(v) == {i \in 1 .. NUM_TLB : tlb[i].v = v}

\* The processor stores to a mapped page.  Outside memory it is a bus error.
store(t, v, x) ==
  /\ Runs(t) /\ pc[t] = "user"
  /\ stores < MaxStores /\ stores' = stores + 1
  /\ \E i \in Hits(v) :
       IF tlb[i].p \in Frame
       THEN mem' = [mem EXCEPT ![tlb[i].p] = x] /\ UNCHANGED panicked
       ELSE panicked' = "bus" /\ UNCHANGED mem
  /\ UNCHANGED <<image, firstpaddr, lastpaddr, cur, as, newas, pc, seg, fva, tlb,
                 kpages, wrapped,
                 starts>>

\* A TLB miss: mips_trap restores spl and interrupts may come before vm_fault.
tlb_miss(t, a) ==
  /\ Runs(t) /\ pc[t] = "user"
  /\ Hits(PAGE_FRAME(a)) = {}
  /\ pc' = [pc EXCEPT ![t] = "fault"]
  /\ fva' = [fva EXCEPT ![t] = a]
  /\ UNCHANGED <<image, firstpaddr, lastpaddr, cur, as, newas, seg, tlb, mem, kpages,
                 panicked, wrapped, starts, stores>>

\* The region of a that holds page v: the first that matches, as in vm_fault.
RegionOf(a, v) ==
  {i \in 1 .. 3 :
     /\ RegionBase(a, i) <= v
     /\ v < (RegionBase(a, i) + RegionPages(a, i) * PAGE_SIZE) % WORD}

\* The physical page for v; NULL when v is in no region.
Translate(a, v) ==
  LET hit == RegionOf(a, v)
      i == Min(hit)
  IN IF hit = {} THEN NULL ELSE ((v - RegionBase(a, i)) + a.pbase[i]) % WORD

\* The assertions of vm_fault on an address space.
SetUp(a) == /\ \A i \in 1 .. 2 : a.vbase[i] # 0 /\ a.npages[i] # 0
            /\ \A i \in 1 .. 3 : a.pbase[i] # 0

FreeSlots == {i \in 1 .. NUM_TLB : tlb[i] = NoEntry}

\* vm_fault on a read or write miss.  EFAULT (an address in no region, or no
\* free slot in the TLB) kills the process.
vm_fault(t) ==
  /\ Runs(t) /\ pc[t] = "fault"
  /\ LET v == PAGE_FRAME(fva[t])
     IN IF as[t] = BadAs
        THEN panicked' = "pointer" /\ UNCHANGED <<pc, tlb>>
        ELSE IF ~SetUp(as[t])
        THEN panicked' = "assert" /\ UNCHANGED <<pc, tlb>>
        ELSE IF Translate(as[t], v) = NULL \/ FreeSlots = {}
        THEN pc' = [pc EXCEPT ![t] = "exit"] /\ UNCHANGED <<tlb, panicked>>
        ELSE /\ tlb' = [tlb EXCEPT ![Min(FreeSlots)] =
                                      [v |-> v, p |-> Translate(as[t], v)]]
             /\ pc' = [pc EXCEPT ![t] = "user"]
             /\ UNCHANGED panicked
  /\ fva' = [fva EXCEPT ![t] = 0]
  /\ UNCHANGED <<image, firstpaddr, lastpaddr, cur, as, newas, seg, mem, kpages,
                 wrapped,
                 starts, stores>>

-----------------------------------------------------------------------------
\* Mutant of ActivateNext: a switch to a thread that ran before keeps the TLB.
ActivateNext_keep(next) ==
  tlb' = IF as[next] # NULL /\ pc[next] # "user" THEN Invalid ELSE tlb

\* The end of mi_switch and mi_threadstart: as_activate, which invalidates
\* every slot, only when the next thread has an address space.
ActivateNext(next) == tlb' = IF as[next] # NULL THEN Invalid ELSE tlb

\* Preemption or a blocking call of the running thread.
mi_switch(next) ==
  /\ panicked = "no" /\ next # cur
  /\ cur' = next
  /\ ActivateNext(next)
  /\ UNCHANGED <<image, firstpaddr, lastpaddr, as, newas, pc, seg, fva, mem, kpages,
                 panicked, wrapped, starts, stores>>

\* thread_exit, after _exit, a kill or a failed load: as_destroy frees the
\* structure, the pages and the TLB entries stay, and another thread runs.
thread_exit(t, next) ==
  /\ Runs(t) /\ next # t /\ as[t] # NULL
  /\ pc[t] \in {"user", "exit"} /\ Running(t)
  /\ as' = [as EXCEPT ![t] = NULL]
  /\ pc' = [pc EXCEPT ![t] = "kernel"]
  /\ seg' = [seg EXCEPT ![t] = 0]
  /\ cur' = next
  /\ ActivateNext(next)
  /\ UNCHANGED <<image, firstpaddr, lastpaddr, newas, fva, mem, kpages, panicked,
                 wrapped, starts, stores>>

Next ==
  \/ \E t \in Thread :
       \/ \E n \in KernelRequest : alloc_kpages(t, n)
       \/ \E i \in Image : runprogram(t, i)
       \/ as_define_region(t) \/ as_prepare_load(t)
       \/ as_copy(t) \/ as_copy_region(t) \/ md_forkentry(t) \/ as_activate(t)
       \/ \E c \in Thread : as_copy_move(t, c) \/ thread_exit(t, c)
       \/ \E v \in UserPage, x \in Value : store(t, v, x)
       \/ \E a \in TouchAddr : tlb_miss(t, a)
       \/ vm_fault(t)
  \/ \E next \in Thread : mi_switch(next)

Spec == Init /\ [][Next]_vars

-----------------------------------------------------------------------------
TypeOK ==
  /\ firstpaddr \in Page \cup {lastpaddr} /\ lastpaddr = ramsize
  /\ cur \in Thread
  /\ \A t \in Thread :
       /\ as[t] \in {NULL, BadAs} \/ as[t] \in Addrspace
       /\ newas[t] = NULL \/ newas[t] \in Addrspace
       /\ pc[t] \in {"kernel", "load", "user", "fault", "copy",
                     "forkentry", "activate", "exit"}
       /\ (as[t] = NULL) <=> (pc[t] \in {"kernel", "forkentry"})
       /\ (newas[t] # NULL) <=> (pc[t] \in {"copy", "forkentry"})
  /\ \A i \in 1 .. NUM_TLB : tlb[i] = NoEntry \/ (tlb[i].v \in UserPage /\ tlb[i].p \in Page)
  /\ mem \in [Frame -> Value]
  /\ kpages \subseteq Page
  /\ starts \in 0 .. MaxStarts /\ stores \in 0 .. MaxStores

\* Who may own physical pages: each region of an address space or of a copy
\* under construction, and the kernel.
Owner == (Thread \X {"as", "newas"} \X (1 .. 3)) \cup {<<NULL, "kernel", 0>>}

PagesOf(o) ==
  LET a == IF o[2] = "as" THEN as[o[1]] ELSE newas[o[1]]
  IN IF o[2] = "kernel" THEN kpages
     ELSE IF a \in {NULL, BadAs} THEN {} ELSE RegionFrames(a, o[3])

\* ram.c: "The pages it hands back will not be reported to the VM system when
\* the VM system calls ram_getsize()".  However loads, forks, failures and
\* exits interleave, a page given out is never among the pages still free, no
\* page has two owners, and none is below the end of the kernel - unless a
\* request as large as the address word has wrapped around it.
PagesOwnedOnce ==
  ~wrapped => \A o \in Owner : \A f \in PagesOf(o) :
    /\ firstfree - KSEG0 <= f /\ f < firstpaddr
    /\ \A p \in Owner : f \in PagesOf(p) => p = o

\* addrspace.h on as_activate: "make the specified address space the one
\* currently 'seen' by the processor".  While a thread with an address space
\* runs, every valid TLB entry is a translation of its own address space, and
\* no page is in two slots - also when it was preempted between its fault and
\* vm_fault, or kernel threads ran in between and left the TLB as it was.  Only
\* a child is not so far before md_forkentry has called as_activate.
TLBSeesCurrent ==
  as[cur] # NULL /\ pc[cur] # "activate" =>
    /\ \A i \in 1 .. NUM_TLB :
         tlb[i] # NoEntry => as[cur] # BadAs /\ tlb[i].p = Translate(as[cur], tlb[i].v)
    /\ \A i, j \in 1 .. NUM_TLB : tlb[i].v = tlb[j].v /\ tlb[i] # NoEntry => i = j

\* vm_fault: "Assert that the address space has been set up properly."  A load
\* or a copy that ran out of memory half way, or was interrupted, never gets
\* to a fault: the assertion fails only for a program that does not have two
\* segments above page 0.  Bus errors come only of a wrapped request.
PanicsOnlyFromImage ==
  /\ panicked = "assert" =>
       \E i \in 1 .. 2 : as[cur].vbase[i] = 0 \/ as[cur].npages[i] = 0
  /\ panicked = "bus" => wrapped

\* What PrivateMemory sees of a thread.  A program that is not set up as
\* vm_fault wants it never gets ready: its first fault is a panic.
SpaceOf(t) == IF pc[t] = "forkentry" THEN newas[t] ELSE as[t]

Phase(t) == IF wrapped \/ pc[t] = "kernel" \/ as[t] = BadAs THEN "none"
            ELSE IF SetUp(SpaceOf(t)) THEN "ready" ELSE "loading"

\* The memory of a process: the contents of the pages of its regions.
Seen(t) ==
  LET a == SpaceOf(t)
  IN IF Phase(t) # "ready" THEN <<>>
     ELSE [i \in 1 .. 3 |-> [k \in 0 .. RegionPages(a, i) - 1 |->
                               mem[a.pbase[i] + k * PAGE_SIZE]]]

Private == INSTANCE PrivateMemory
             WITH phase <- [t \in Thread |-> Phase(t)],
                  space <- [t \in Thread |-> Seen(t)]

\* The module as a whole keeps addrspace.h's promise: a process's memory is
\* changed by its own stores only, and a fork starts with an exact copy.
MemoryIsPrivate == Private!PMSpec
=============================================================================
