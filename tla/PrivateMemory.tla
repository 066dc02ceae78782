--------------------------- MODULE PrivateMemory ----------------------------
(***************************************************************************)
(* What kern/include/addrspace.h promises a process: an address space of   *)
(* its own that only its own stores change, and as_copy makes "an exact    *)
(* copy of an old one".  Page frames, the TLB and the switches between     *)
(* threads are left out.  The promise ends when ram_stealmem has granted a *)
(* request that wraps around the end of the address word (see DumbVM).     *)
(***************************************************************************)
CONSTANTS Thread

VARIABLES phase,     \* of each thread: "none", "loading" or "ready"
          space,     \* the pages of the regions of a "ready" thread
          wrapped    \* the physical allocator has wrapped around

pmVars == <<phase, space, wrapped>>

PMInit == phase = [t \in Thread |-> "none"] /\ wrapped = FALSE

Becomes(t, from, to) == phase[t] = from /\ phase'[t] = to

\* exec: the thread asks for an address space, ...
Create(t) == Becomes(t, "none", "loading")

\* ... and its pages then exist, with whatever they contained.
Load(t) == Becomes(t, "loading", "ready")

\* A store of the process to one page of one region.
Store(t) == /\ Becomes(t, "ready", "ready")
            /\ \E i \in DOMAIN space[t] : \E k \in DOMAIN space[t][i] :
                 space'[t] = [space[t] EXCEPT ![i][k] = space'[t][i][k]]

\* fork: the child t starts with an exact copy of the parent's memory.
Copy(p, t) == Becomes(t, "none", "ready") /\ phase[p] = "ready" /\ space'[t] = space[p]

Free(t) == phase[t] # "none" /\ phase'[t] = "none"

Touched == {t \in Thread : <<phase[t], space[t]>>' # <<phase[t], space[t]>>}

\* A step touches the memory of one thread.
PMNext == \/ wrapped'
          \/ /\ UNCHANGED wrapped
             /\ \E t \in Touched :
                  /\ Touched = {t}
                  /\ \/ Create(t) \/ Load(t) \/ Store(t) \/ Free(t)
                     \/ \E p \in Thread : Copy(p, t)

PMSpec == PMInit /\ [][PMNext]_pmVars
=============================================================================
