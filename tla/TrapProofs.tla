----------------------------- MODULE TrapProofs -----------------------------
(***************************************************************************)
(* Proofs about Trap, for any threads, programs and nesting of traps.      *)
(***************************************************************************)
EXTENDS Trap, SequenceTheorems, TLAPS

Ats == {"run", "new", "handler", "yielded", "entry", "body", "fatal", "done",
        "before", "switched", "back"}

Frame == [kind : Kinds, at : Ats, lvl : {0, SPL_HIGH}, spl : {0, SPL_HIGH},
          ie : BOOLEAN, pc : Int, old_in : BOOLEAN, bad : BOOLEAN]

\* How far code of each kind can be, and the level it has asked for there.
FrameOk(f) ==
  /\ f \in Frame
  /\ f.kind \in {"kernel", "forked"} => f.at \in {"run", "new"} /\ f.lvl = 0
  /\ f.kind = "user" => f.at = "run" /\ f.lvl = 0
  /\ f.kind = "splx" => f.at = "run"
  /\ f.kind = "high" => f.at \in {"before", "switched", "back"} /\ f.lvl = SPL_HIGH
  /\ f.kind = "irq" => f.at \in {"handler", "yielded"}
  /\ f.kind \in {"sys", "fault"} => f.at \in {"entry", "body", "fatal", "done"}
  /\ f.kind = "sys" => f.spl = 0
  /\ f.kind = "sys" /\ f.at = "body" => f.lvl = 0

\* Code f can go on when curspl is spl and the flag is i.
Settled(f, spl, i) ==
  /\ f.kind = "splx" => i
  /\ f.kind = "irq" \/ f.at = "entry" => spl = SPL_HIGH /\ ~i
  /\ f.kind \notin {"splx", "irq"} /\ f.at \notin {"entry", "fatal", "done"} =>
       spl = f.lvl /\ (i <=> f.lvl = 0)

\* What is at the bottom of a stack, and only there.
Base == {"kernel", "forked", "user"}

\* What f finds when g, which is executing on top of it, has ended.
Link(f, g) ==
  /\ g.kind \notin Base
  /\ g.kind = "sys" => f.kind = "user"
  /\ g.kind = "splx" => Settled(f, 0, TRUE)
  /\ g.kind = "high" => Settled(f, g.spl, g.spl = 0)
  /\ g.kind \in {"irq", "sys", "fault"} => Settled(f, g.spl, g.ie)

HasIrq(s) == \E i \in 1 .. Len(s) : s[i].kind = "irq"

\* A stack is well formed: every frame leaves the one under it settled, and
\* mips_interrupt has kept what in_interrupt was before it.
StackOk(s) ==
  /\ s \in Seq(Frame)
  /\ s # <<>> => s[1].kind \in Base
  /\ \A i \in 1 .. Len(s) : FrameOk(s[i])
  /\ \A i \in 2 .. Len(s) : Link(s[i - 1], s[i])
  /\ \A i \in 1 .. Len(s) : s[i].kind = "irq" =>
       (s[i].old_in <=> \E j \in 1 .. i - 1 : s[j].kind = "irq")

RunInv == stack[cur] # <<>> /\ Settled(Top(cur), curspl, ie)

\* A thread that does not run waits in mi_switch, or has not started.
WaitInv ==
  \A t \in Thread : t # cur /\ stack[t] # <<>> =>
    /\ SwitchedOut(t)
    /\ Top(t).at = "new" => Len(stack[t]) = 1
    /\ pcb_ininterrupt[t] <=> HasIrq(stack[t])

StacksInv == stack \in [Thread -> Seq(Frame)] /\ \A t \in Thread : StackOk(stack[t])

TrapInv == TypeOK /\ StacksInv /\ RunInv /\ WaitInv
           /\ (in_interrupt <=> HasIrq(stack[cur])) /\ AssertionsHold

\* Pushing a frame.
LEMMA PushFrame ==
  ASSUME NEW s, StackOk(s), NEW g, FrameOk(g),
         IF s = <<>> THEN g.kind \in Base ELSE Link(Last(s), g),
         g.kind = "irq" => (g.old_in <=> HasIrq(s))
  PROVE  /\ StackOk(Append(s, g))
         /\ Append(s, g) # <<>> /\ Last(Append(s, g)) = g
         /\ Front(Append(s, g)) = s
         /\ HasIrq(Append(s, g)) <=> HasIrq(s) \/ g.kind = "irq"
<1> DEFINE r == Append(s, g)
<1>1. s \in Seq(Frame) /\ g \in Frame
  BY DEF StackOk, FrameOk
<1>2. /\ r \in Seq(Frame) /\ Len(r) = Len(s) + 1 /\ r[Len(r)] = g
      /\ \A i \in 1 .. Len(s) : r[i] = s[i]
      /\ Len(s) \in Nat
  BY <1>1
<1>3. Last(r) = g /\ r # <<>>
  BY <1>2 DEF Last
<1>4. Front(r) = s
  BY <1>1 DEF Front
<1>5. HasIrq(r) <=> HasIrq(s) \/ g.kind = "irq"
  BY <1>2 DEF HasIrq
<1>6. \A i \in 1 .. Len(r) : FrameOk(r[i])
  BY <1>2 DEF StackOk
<1>7. \A i \in 2 .. Len(r) : Link(r[i - 1], r[i])
  <2> SUFFICES ASSUME NEW i \in 2 .. Len(r) PROVE Link(r[i - 1], r[i])
    OBVIOUS
  <2>1. CASE i <= Len(s)
    <3>1. i \in 2 .. Len(s) /\ r[i - 1] = s[i - 1] /\ r[i] = s[i]
      BY <1>2, <2>1
    <3>. QED BY <3>1 DEF StackOk
  <2>2. CASE i = Len(s) + 1
    <3>1. r[i - 1] = Last(s) /\ r[i] = g /\ s # <<>>
      BY <1>1, <1>2, <2>2 DEF Last
    <3>. QED BY <3>1
  <2>. QED BY <1>2, <2>1, <2>2
<1>8. \A i \in 1 .. Len(r) : r[i].kind = "irq" =>
        (r[i].old_in <=> \E j \in 1 .. i - 1 : r[j].kind = "irq")
  <2> SUFFICES ASSUME NEW i \in 1 .. Len(r), r[i].kind = "irq"
               PROVE  r[i].old_in <=> \E j \in 1 .. i - 1 : r[j].kind = "irq"
    OBVIOUS
  <2>1. CASE i <= Len(s)
    <3>1. i \in 1 .. Len(s) /\ r[i] = s[i] /\ \A j \in 1 .. i - 1 : r[j] = s[j]
      BY <1>2, <2>1
    <3>. QED BY <3>1 DEF StackOk
  <2>2. CASE i = Len(s) + 1
    <3>1. r[i] = g /\ 1 .. i - 1 = 1 .. Len(s)
      BY <1>2, <2>2
    <3>. QED BY <3>1, <1>2 DEF HasIrq
  <2>. QED BY <1>2, <2>1, <2>2
<1>9. r[1].kind \in Base
  <2>1. CASE s = <<>>
    BY <1>2, <2>1
  <2>2. CASE s # <<>>
    BY <1>1, <1>2, <2>2 DEF StackOk
  <2>. QED BY <2>1, <2>2
<1>. QED BY <1>2, <1>3, <1>4, <1>5, <1>6, <1>7, <1>8, <1>9 DEF StackOk

\* Popping one.
LEMMA PopFrame ==
  ASSUME NEW s, StackOk(s), s # <<>>
  PROVE  /\ StackOk(Front(s)) /\ FrameOk(Last(s))
         /\ Front(s) # <<>> => Link(Last(Front(s)), Last(s))
         /\ Last(s).kind \notin Base => Front(s) # <<>>
         /\ HasIrq(s) <=> HasIrq(Front(s)) \/ Last(s).kind = "irq"
         /\ Last(s).kind = "irq" => (Last(s).old_in <=> HasIrq(Front(s)))
         /\ Len(Front(s)) = Len(s) - 1
<1> DEFINE r == Front(s)
           n == Len(s)
<1>1. s \in Seq(Frame) /\ n \in Nat \ {0}
  BY DEF StackOk
<1>2. /\ r \in Seq(Frame) /\ Len(r) = n - 1 /\ \A i \in 1 .. n - 1 : r[i] = s[i]
  <2>1. /\ n - 1 \in Int /\ 1 \in Int /\ \A i \in 1 .. n - 1 : s[i] \in Frame
    BY <1>1
  <2>2. /\ SubSeq(s, 1, n - 1) \in Seq(Frame)
        /\ Len(SubSeq(s, 1, n - 1)) = IF 1 <= n - 1 THEN (n - 1) - 1 + 1 ELSE 0
        /\ \A i \in 1 .. (n - 1) - 1 + 1 : SubSeq(s, 1, n - 1)[i] = s[1 + i - 1]
    BY <2>1, SubSeqProperties
  <2>3. r = SubSeq(s, 1, n - 1)
    BY DEF Front
  <2>4. Len(r) = n - 1
    <3>1. ASSUME NEW m \in Nat \ {0} PROVE (IF 1 <= m - 1 THEN (m - 1) - 1 + 1 ELSE 0) = m - 1
      OBVIOUS
    <3>. QED BY <1>1, <2>2, <2>3, <3>1, Zenon
  <2>5. ASSUME NEW i \in 1 .. n - 1 PROVE r[i] = s[i]
    <3>1. i \in 1 .. (n - 1) - 1 + 1 /\ 1 + i - 1 = i
      BY <1>1
    <3>. QED BY <2>2, <2>3, <3>1
  <2>. QED BY <2>2, <2>3, <2>4, <2>5
<1>3. FrameOk(s[n])
  BY <1>1 DEF StackOk
<1>4. r # <<>> => Link(Last(r), s[n])
  <2> SUFFICES ASSUME r # <<>> PROVE Link(r[Len(r)], s[n])
    BY DEF Last
  <2>1. n \in 2 .. n /\ r[Len(r)] = s[n - 1]
    BY <1>1, <1>2
  <2>. QED BY <2>1 DEF StackOk
<1>5. HasIrq(s) <=> HasIrq(r) \/ s[n].kind = "irq"
  BY <1>1, <1>2 DEF HasIrq
<1>6. s[n].kind = "irq" => (s[n].old_in <=> HasIrq(r))
  <2>1. s[n].kind = "irq" => (s[n].old_in <=> \E j \in 1 .. n - 1 : s[j].kind = "irq")
    BY <1>1 DEF StackOk
  <2>2. HasIrq(r) <=> \E j \in 1 .. n - 1 : s[j].kind = "irq"
    BY <1>2 DEF HasIrq
  <2>. QED BY <2>1, <2>2
<1>7. StackOk(r)
  <2>1. \A i \in 1 .. Len(r) : i \in 1 .. Len(s) /\ r[i] = s[i]
    BY <1>1, <1>2
  <2>2. \A i \in 1 .. Len(r) : FrameOk(r[i])
    BY <2>1 DEF StackOk
  <2>3. \A i \in 2 .. Len(r) : Link(r[i - 1], r[i])
    <3> SUFFICES ASSUME NEW i \in 2 .. Len(r) PROVE Link(r[i - 1], r[i])
      OBVIOUS
    <3>1. i \in 2 .. Len(s) /\ r[i - 1] = s[i - 1] /\ r[i] = s[i]
      BY <1>1, <1>2
    <3>. QED BY <3>1 DEF StackOk
  <2>4. \A i \in 1 .. Len(r) : r[i].kind = "irq" =>
          (r[i].old_in <=> \E j \in 1 .. i - 1 : r[j].kind = "irq")
    <3> SUFFICES ASSUME NEW i \in 1 .. Len(r), r[i].kind = "irq"
                 PROVE  r[i].old_in <=> \E j \in 1 .. i - 1 : r[j].kind = "irq"
      OBVIOUS
    <3>1. i \in 1 .. Len(s) /\ r[i] = s[i] /\ \A j \in 1 .. i - 1 : r[j] = s[j]
      BY <1>1, <1>2
    <3>. QED BY <3>1 DEF StackOk
  <2>5. r # <<>> => r[1].kind \in Base
    BY <1>1, <1>2, SMTT(30) DEF StackOk
  <2>. QED BY <1>2, <2>2, <2>3, <2>4, <2>5 DEF StackOk
<1>8. s[n].kind \notin Base => r # <<>>
  <2> SUFFICES ASSUME r = <<>> PROVE s[n].kind \in Base
    OBVIOUS
  <2>1. n = 1
    BY <1>1, <1>2
  <2>. QED BY <2>1 DEF StackOk
<1>. QED BY <1>2, <1>3, <1>4, <1>5, <1>6, <1>7, <1>8 DEF Last

\* The program's pc plays no part in this.
LEMMA BumpPC ==
  ASSUME NEW s, StackOk(s), s # <<>>
  PROVE  LET r == [s EXCEPT ![1].pc = @ + 1]
         IN  StackOk(r) /\ r # <<>> /\ (HasIrq(r) <=> HasIrq(s)) /\ Len(r) = Len(s)
             /\ Last(r).kind = Last(s).kind /\ Last(r).at = Last(s).at
<1> DEFINE r == [s EXCEPT ![1].pc = @ + 1]
<1>1. s \in Seq(Frame) /\ Len(s) \in Nat \ {0}
  BY DEF StackOk
<1>2. s[1] \in Frame /\ [s[1] EXCEPT !.pc = @ + 1] \in Frame
  <2>1. s[1] \in Frame
    BY <1>1
  <2>. QED BY <2>1 DEF Frame
<1>3. r \in Seq(Frame) /\ Len(r) = Len(s)
  BY <1>1, <1>2
<1>4. ASSUME NEW i \in 1 .. Len(s)
      PROVE  /\ r[i].kind = s[i].kind /\ r[i].at = s[i].at /\ r[i].lvl = s[i].lvl
             /\ r[i].spl = s[i].spl /\ r[i].ie = s[i].ie /\ r[i].old_in = s[i].old_in
             /\ r[i] \in Frame
  <2>1. s[i] \in Frame
    BY <1>1
  <2>2. CASE i = 1
    BY <1>1, <1>2, <2>1, <2>2, SMTT(30) DEF Frame
  <2>3. CASE i # 1
    BY <1>1, <2>1, <2>3
  <2>. QED BY <2>2, <2>3
<1>5. \A i \in 1 .. Len(r) : FrameOk(r[i])
  BY <1>3, <1>4 DEF StackOk, FrameOk
<1>6. \A i \in 2 .. Len(r) : Link(r[i - 1], r[i])
  <2> SUFFICES ASSUME NEW i \in 2 .. Len(r) PROVE Link(r[i - 1], r[i])
    OBVIOUS
  <2>1. Link(s[i - 1], s[i]) /\ i \in 1 .. Len(s) /\ i - 1 \in 1 .. Len(s)
    BY <1>3 DEF StackOk
  <2>. QED BY <2>1, <1>4 DEF Link, Settled
<1>7. \A i \in 1 .. Len(r) : r[i].kind = "irq" =>
        (r[i].old_in <=> \E j \in 1 .. i - 1 : r[j].kind = "irq")
  BY <1>1, <1>3, <1>4 DEF StackOk
<1>8. HasIrq(r) <=> HasIrq(s)
  BY <1>1, <1>3, <1>4 DEF HasIrq
<1>9. Last(r).kind = Last(s).kind /\ Last(r).at = Last(s).at
  BY <1>1, <1>3, <1>4 DEF Last
<1>10. r # <<>> /\ r[1].kind \in Base
  BY <1>1, <1>3, <1>4 DEF StackOk
<1>. QED BY <1>1, <1>3, <1>5, <1>6, <1>7, <1>8, <1>9, <1>10 DEF StackOk

\* A thread's function, and a system call, run on nothing but the program.
LEMMA KernelNoIrq ==
  ASSUME NEW s, StackOk(s), s # <<>>,
         Last(s).kind \in {"kernel", "forked", "user", "sys"}
  PROVE  ~HasIrq(s)
<1>1. Len(s) \in Nat /\ Len(s) >= 1
  BY DEF StackOk
<1>2. ASSUME NEW i \in 2 .. Len(s)
      PROVE  /\ s[i].kind \notin {"kernel", "forked", "user"}
             /\ s[i].kind = "sys" => s[i - 1].kind = "user"
  BY <1>2 DEF StackOk, Link, Base
<1>3. CASE Len(s) = 1
  BY <1>1, <1>3 DEF HasIrq, Last
<1>4. CASE Len(s) > 1
  <2>1. s[Len(s)].kind = "sys" /\ s[Len(s) - 1].kind = "user"
    BY <1>1, <1>2, <1>4 DEF Last
  <2>2. Len(s) = 2
    <3>1. ~(Len(s) > 2)
      <4> SUFFICES ASSUME Len(s) > 2 PROVE FALSE
        OBVIOUS
      <4>1. Len(s) - 1 \in 2 .. Len(s)
        BY <1>1
      <4>. QED BY <4>1, <1>2, <2>1
    <3>2. ASSUME NEW m \in Nat, m > 1, ~(m > 2) PROVE m = 2
      BY <3>2
    <3>. QED BY <1>1, <1>4, <3>1, <3>2, Zenon
  <2>3. ASSUME NEW i \in 1 .. Len(s) PROVE s[i].kind # "irq"
    <3>1. i = Len(s) \/ i = Len(s) - 1
      BY <2>2
    <3>. QED BY <2>1, <3>1
  <2>. QED BY <2>3 DEF HasIrq
<1>. QED BY <1>1, <1>3, <1>4

\* The blank frame is a frame.
LEMMA NoFrameTyped == NoFrame \in Frame
BY DEF NoFrame, Frame, Kinds, Ats

\* Every frame of a typed stack has a known kind and saves a real interrupt level.
LEMMA FramesTyped ==
  ASSUME NEW S \in [Thread -> Seq(Frame)], NEW u \in Thread, NEW i \in DOMAIN S[u]
  PROVE  S[u][i].kind \in Kinds /\ S[u][i].spl \in {0, SPL_HIGH}
<1>1. S[u][i] \in Frame
  OBVIOUS
<1>. QED BY <1>1 DEF Frame

\* The frame an splx pushes is well formed.
LEMMA SplxFrame == FrameOk(Splx0) /\ Splx0.kind = "splx"
<1>1. NoFrame \in Frame
  BY NoFrameTyped
<1>2. Splx0 \in Frame /\ Splx0.kind = "splx" /\ Splx0.at = "run"
  BY <1>1 DEF Splx0, NoFrame, Frame, Kinds, Ats
<1>. QED BY <1>2 DEF FrameOk

\* A step of the running thread that leaves it s.
LEMMA StepOf ==
  ASSUME TrapInv, NEW s, StackOk(s), s # <<>>,
         stack' = [stack EXCEPT ![cur] = s], cur' = cur,
         Settled(Last(s), curspl', ie'), ie' \in BOOLEAN, curspl' \in {0, SPL_HIGH},
         pcb_ininterrupt' = pcb_ininterrupt,
         in_interrupt' \in BOOLEAN, in_interrupt' <=> HasIrq(s),
         hasas' \subseteq hasas \cup {cur}, badas' \subseteq hasas',
         stopped' \in {"no", "halt", "fault"}
  PROVE  TrapInv'
<1>1. cur \in Thread /\ stack \in [Thread -> Seq(Frame)] /\ s \in Seq(Frame)
  BY DEF TrapInv, TypeOK, StacksInv, StackOk
<1>2. stack'[cur] = s /\ \A u \in Thread : u # cur => stack'[u] = stack[u]
  BY <1>1
<1>3. stack' \in [Thread -> Seq(Frame)]
  BY <1>1
<1>4. \A u \in Thread : StackOk(stack'[u])
  BY <1>2 DEF TrapInv, StacksInv
<1>5. RunInv'
  BY <1>2 DEF RunInv, Top
<1>6. WaitInv'
  BY <1>2 DEF TrapInv, WaitInv, SwitchedOut, Top
<1>7. TypeOK'
  <2>1. \A u \in Thread : \A f \in Frames(u)' : f.kind \in Kinds /\ f.spl \in {0, SPL_HIGH}
    BY <1>3, FramesTyped DEF Frames
  <2>2. hasas' \subseteq {u \in Thread : stack'[u] # <<>>}
    BY <1>1, <1>2 DEF TrapInv, TypeOK
  <2>. QED BY <1>1, <2>1, <2>2 DEF TrapInv, TypeOK
<1>. QED BY <1>2, <1>3, <1>4, <1>5, <1>6, <1>7 DEF TrapInv, StacksInv, AssertionsHold

\* A switch that leaves the old thread s, with interrupts off.
LEMMA SwitchTo ==
  ASSUME TrapInv, NEW s, NEW next \in Thread, md_switch(cur, s, next),
         s # <<>> => /\ StackOk(s) /\ (HasIrq(s) <=> HasIrq(stack[cur]))
                     /\ Last(s).kind = "high" /\ Last(s).at = "switched",
         curspl' = SPL_HIGH, ie' = Starts(next),
         hasas' \subseteq hasas \ (IF s = <<>> THEN {cur} ELSE {}), badas' \subseteq hasas',
         stopped' = "no"
  PROVE  TrapInv'
<1> DEFINE old == stack[next]
           new == Resumed(old)
<1>1. /\ cur \in Thread /\ stack \in [Thread -> Seq(Frame)] /\ next # cur
      /\ StackOk(old) /\ old # <<>> /\ SwitchedOut(next) /\ cur' = next
  BY DEF TrapInv, TypeOK, StacksInv, md_switch, SwitchedOut
<1>2. StackOk(<<>>)
  BY DEF StackOk
<1>3. FrameOk(Last(old)) /\ StackOk(Front(old))
  BY <1>1, PopFrame
<1>4. /\ StackOk(new) /\ new # <<>> /\ Settled(Last(new), SPL_HIGH, Starts(next))
      /\ HasIrq(new) <=> HasIrq(old)
  <2>1. CASE Last(old).at = "new"
    <3> DEFINE f == [Last(old) EXCEPT !.at = "run"]
    <3>1. FrameOk(f) /\ f.kind \in Base /\ f.kind # "irq" /\ f.lvl = 0 /\ f.at = "run"
      BY <1>3, <2>1 DEF FrameOk, Frame, Ats, Kinds, Base
    <3>2. FrameOk(Splx0) /\ Splx0.kind = "splx"
      BY SplxFrame
    <3>3. StackOk(Append(<<>>, f)) /\ Append(<<>>, f) # <<>>
          /\ Last(Append(<<>>, f)) = f /\ ~HasIrq(Append(<<>>, f))
      <4>1. ~HasIrq(<<>>)
        BY DEF HasIrq
      <4>. QED BY <1>2, <3>1, <4>1, PushFrame
    <3>4. Link(f, Splx0)
      BY <3>1, <3>2 DEF Link, Settled, Base
    <3>5. /\ StackOk(Append(Append(<<>>, f), Splx0)) /\ Append(Append(<<>>, f), Splx0) # <<>>
          /\ Last(Append(Append(<<>>, f), Splx0)) = Splx0 /\ ~HasIrq(Append(Append(<<>>, f), Splx0))
      BY <3>2, <3>3, <3>4, PushFrame
    <3>6. new = Append(Append(<<>>, f), Splx0)
      BY <2>1 DEF Resumed
    <3>7. Settled(Splx0, SPL_HIGH, Starts(next))
      <4>1. Splx0.at = "run"
        BY DEF Splx0, NoFrame
      <4>. QED BY <2>1, <3>2, <4>1 DEF Settled, Starts, Top
    <3>8. ~HasIrq(old)
      BY <1>1, <1>3, <2>1, KernelNoIrq DEF FrameOk, Frame, Kinds
    <3>. QED BY <3>5, <3>6, <3>7, <3>8
  <2>2. CASE Last(old).at # "new"
    <3> DEFINE f == [Last(old) EXCEPT !.at = "back"]
    <3>1. Last(old).kind = "high"
      BY <1>1, <2>2 DEF SwitchedOut, Top
    <3>2. /\ FrameOk(f) /\ f.kind = "high" /\ f.spl = Last(old).spl
          /\ f.lvl = SPL_HIGH /\ f.at = "back"
      BY <1>3, <3>1 DEF FrameOk, Frame, Ats
    <3>3. Front(old) # <<>> /\ Link(Last(Front(old)), Last(old))
          /\ (HasIrq(old) <=> HasIrq(Front(old)))
      BY <1>1, <3>1, PopFrame DEF Base
    <3>4. Link(Last(Front(old)), f)
      BY <3>1, <3>2, <3>3 DEF Link, Base
    <3>5. /\ StackOk(Append(Front(old), f)) /\ Append(Front(old), f) # <<>>
          /\ Last(Append(Front(old), f)) = f
          /\ HasIrq(Append(Front(old), f)) <=> HasIrq(Front(old))
      BY <1>3, <3>2, <3>3, <3>4, PushFrame, ZenonT(30)
    <3>6. new = Append(Front(old), f)
      BY <2>2 DEF Resumed
    <3>7. Settled(f, SPL_HIGH, Starts(next))
      BY <2>2, <3>2, TrapAssumption DEF Settled, Starts, Top
    <3>. QED BY <3>3, <3>5, <3>6, <3>7
  <2>. QED BY <2>1, <2>2
<1>5. s \in Seq(Frame) /\ StackOk(s) /\ new \in Seq(Frame)
  BY <1>2, <1>4 DEF StackOk
<1>6. /\ stack'[cur] = s /\ stack'[next] = new
      /\ \A u \in Thread : u # cur /\ u # next => stack'[u] = stack[u]
  BY <1>1 DEF md_switch
<1>7. stack' \in [Thread -> Seq(Frame)]
  BY <1>1, <1>5 DEF md_switch
<1>8. \A u \in Thread : StackOk(stack'[u])
  BY <1>4, <1>5, <1>6 DEF TrapInv, StacksInv
<1>9. RunInv'
  BY <1>1, <1>4, <1>6 DEF RunInv, Top
<1>10. WaitInv'
  <2> SUFFICES ASSUME NEW u \in Thread, u # next, stack'[u] # <<>>
               PROVE  /\ SwitchedOut(u)' /\ (Top(u)'.at = "new" => Len(stack'[u]) = 1)
                      /\ pcb_ininterrupt'[u] <=> HasIrq(stack'[u])
    BY <1>1 DEF WaitInv
  <2>1. pcb_ininterrupt'[u] = IF u = cur THEN in_interrupt ELSE pcb_ininterrupt[u]
    BY <1>1 DEF md_switch, TrapInv, TypeOK
  <2>2. CASE u = cur
    BY <1>6, <2>1, <2>2 DEF SwitchedOut, Top, TrapInv
  <2>3. CASE u # cur
    BY <1>6, <2>1, <2>3 DEF SwitchedOut, Top, TrapInv, WaitInv
  <2>. QED BY <2>2, <2>3
<1>11. in_interrupt' \in BOOLEAN /\ (in_interrupt' <=> HasIrq(stack'[cur']))
  <2>1. in_interrupt' = pcb_ininterrupt[next] /\ pcb_ininterrupt \in [Thread -> BOOLEAN]
    BY DEF md_switch, ToInterrupt, TrapInv, TypeOK
  <2>2. pcb_ininterrupt[next] <=> HasIrq(old)
    BY <1>1 DEF TrapInv, WaitInv
  <2>. QED BY <1>1, <1>4, <1>6, <2>1, <2>2
<1>12. TypeOK'
  <2>1. \A u \in Thread : \A f \in Frames(u)' : f.kind \in Kinds /\ f.spl \in {0, SPL_HIGH}
    BY <1>7, FramesTyped DEF Frames
  <2>2. hasas' \subseteq {u \in Thread : stack'[u] # <<>>}
    BY <1>1, <1>4, <1>6 DEF TrapInv, TypeOK
  <2>3. pcb_ininterrupt' \in [Thread -> BOOLEAN]
    BY DEF md_switch, TrapInv, TypeOK
  <2>4. ie' \in BOOLEAN
    BY DEF Starts
  <2>. QED BY <1>1, <1>11, <2>1, <2>2, <2>3, <2>4 DEF TypeOK
<1>. QED BY <1>7, <1>8, <1>9, <1>10, <1>11, <1>12 DEF TrapInv, StacksInv, AssertionsHold

\* The running thread, in short.
LEMMA Running ==
  ASSUME TrapInv
  PROVE  /\ cur \in Thread /\ StackOk(stack[cur]) /\ stack[cur] # <<>>
         /\ FrameOk(Last(stack[cur])) /\ Settled(Last(stack[cur]), curspl, ie)
         /\ curspl \in {0, SPL_HIGH} /\ ie \in BOOLEAN /\ in_interrupt \in BOOLEAN
         /\ in_interrupt <=> HasIrq(stack[cur])
         /\ badas \subseteq hasas
<1>1. cur \in Thread /\ StackOk(stack[cur]) /\ stack[cur] # <<>>
  BY DEF TrapInv, TypeOK, StacksInv, RunInv
<1>2. FrameOk(Last(stack[cur]))
  BY <1>1, PopFrame
<1>. QED BY <1>1, <1>2 DEF TrapInv, TypeOK, RunInv, Top

\* The topmost frame goes on to another place.
LEMMA Replace ==
  ASSUME NEW s, StackOk(s), s # <<>>, NEW g, FrameOk(g),
         g.kind = Last(s).kind, g.spl = Last(s).spl, g.ie = Last(s).ie,
         g.old_in = Last(s).old_in
  PROVE  LET r == Append(Front(s), g)
         IN  StackOk(r) /\ r # <<>> /\ Last(r) = g /\ (HasIrq(r) <=> HasIrq(s))
<1>1. /\ StackOk(Front(s))
      /\ Front(s) # <<>> => Link(Last(Front(s)), Last(s))
      /\ Last(s).kind \notin Base => Front(s) # <<>>
      /\ HasIrq(s) <=> HasIrq(Front(s)) \/ Last(s).kind = "irq"
      /\ Last(s).kind = "irq" => (Last(s).old_in <=> HasIrq(Front(s)))
  BY PopFrame
<1>2. IF Front(s) = <<>> THEN g.kind \in Base ELSE Link(Last(Front(s)), g)
  BY <1>1 DEF Link
<1>3. g.kind = "irq" => (g.old_in <=> HasIrq(Front(s)))
  BY <1>1
<1>. QED BY <1>1, <1>2, <1>3, PushFrame

\* Code that goes on with s after splx(spl).
LEMMA SplxStep ==
  ASSUME TrapInv, NEW s, StackOk(s), s # <<>>, NEW spl \in {0, SPL_HIGH},
         splx(cur, s, spl), Settled(Last(s), spl, spl = 0),
         HasIrq(s) <=> HasIrq(stack[cur]), stopped = "no",
         UNCHANGED <<cur, hasas, badas, in_interrupt, pcb_ininterrupt, stopped>>
  PROVE  TrapInv'
<1>1. SPL_HIGH # 0
  BY TrapAssumption
<1>2. CASE spl = 0
  <2> DEFINE r == Append(s, Splx0)
  <2>1. Link(Last(s), Splx0)
    BY <1>2, SplxFrame DEF Link, Base, Settled
  <2>2. StackOk(r) /\ r # <<>> /\ Last(r) = Splx0 /\ (HasIrq(r) <=> HasIrq(s))
    BY <2>1, SplxFrame, PushFrame
  <2>3. stack' = [stack EXCEPT ![cur] = r] /\ ie' = TRUE /\ curspl' = SPL_HIGH
    BY <1>2 DEF splx, TurnsOn
  <2>4. Settled(Last(r), curspl', ie')
    <3>1. Splx0.kind = "splx" /\ Splx0.at = "run"
      BY DEF Splx0, NoFrame
    <3>. QED BY <2>2, <2>3, <3>1 DEF Settled
  <2>5. in_interrupt' \in BOOLEAN /\ (in_interrupt' <=> HasIrq(r))
    BY <2>2, Running
  <2>. QED BY <2>2, <2>3, <2>4, <2>5, Running, StepOf
<1>3. CASE spl = SPL_HIGH
  <2>1. stack' = [stack EXCEPT ![cur] = s] /\ ie' = FALSE /\ curspl' = SPL_HIGH
    BY <1>1, <1>3 DEF splx, TurnsOn
  <2>2. Settled(Last(s), curspl', ie')
    BY <1>1, <1>3, <2>1 DEF Settled
  <2>3. in_interrupt' \in BOOLEAN /\ (in_interrupt' <=> HasIrq(s))
    BY Running
  <2>. QED BY <2>1, <2>2, <2>3, Running, StepOf
<1>. QED BY <1>2, <1>3

\* The top of mips_trap.
LEMMA EnterStep ==
  ASSUME TrapInv, NEW kind \in {"irq", "sys", "fault"}, NEW at, NEW bad \in BOOLEAN,
         at = IF kind = "irq" THEN "handler" ELSE "entry",
         Enter(cur, kind, at, bad), stopped = "no",
         kind = "sys" => Last(stack[cur]).kind = "user",
         in_interrupt' = (in_interrupt \/ kind = "irq"),
         UNCHANGED <<cur, hasas, badas, pcb_ininterrupt, stopped>>
  PROVE  TrapInv'
<1> DEFINE s == stack[cur]
           g == [kind |-> kind, at |-> at, lvl |-> SPL_HIGH, spl |-> curspl, ie |-> ie,
                 pc |-> 0, old_in |-> in_interrupt, bad |-> bad]
           r == Append(s, g)
<1>1. /\ g \in Frame /\ g.kind = kind /\ g.at = at /\ g.spl = curspl /\ g.ie = ie
      /\ g.old_in = in_interrupt
  <2>1. kind \in Kinds /\ at \in Ats
    BY DEF Kinds, Ats
  <2>2. g \in Frame
    BY <2>1, Running DEF Frame
  <2>. QED BY <2>2
<1>2. kind = "sys" => curspl = 0
  BY Running DEF Settled, FrameOk
<1>3. FrameOk(g)
  BY <1>1, <1>2 DEF FrameOk
<1>4. Link(Last(s), g)
  BY <1>1, Running DEF Link, Base
<1>5. /\ StackOk(r) /\ r # <<>> /\ Last(r) = g
      /\ HasIrq(r) <=> HasIrq(s) \/ g.kind = "irq"
  <2>1. g.old_in <=> HasIrq(s)
    BY <1>1, Running
  <2> HIDE DEF g, s
  <2>2. StackOk(s) /\ s # <<>>
    BY Running DEF s
  <2>. QED BY <1>3, <1>4, <2>1, <2>2, PushFrame
<1>6. stack' = [stack EXCEPT ![cur] = r] /\ ie' = FALSE /\ curspl' = SPL_HIGH
  BY Running DEF Enter, TrapInv, StacksInv
<1>7. Settled(g, curspl', ie')
  BY <1>1, <1>6 DEF Settled
<1>8. in_interrupt' \in BOOLEAN /\ (in_interrupt' <=> HasIrq(r))
  BY <1>1, <1>5, Running
<1>. QED BY <1>5, <1>6, <1>7, <1>8, Running, StepOf

\* One step keeps the invariant.
LEMMA TrapInvNext ==
  ASSUME TrapInv, NEW t \in Thread
  PROVE  /\ splx_end(t) => TrapInv'
         /\ splhigh_block(t) => TrapInv'
         /\ splx_block(t) => TrapInv'
         /\ interrupt(t) \/ syscall(t) \/ (\E b \in BOOLEAN : fault(t, b)) => TrapInv'
         /\ restore_spl(t) => TrapInv'
         /\ (\E ok \in BOOLEAN : vm_fault(t, ok)) => TrapInv'
         /\ vm_fault_bad(t) \/ fatal_kernel(t) \/ sys_reboot(t) => TrapInv'
         /\ badfault(t) => TrapInv'
         /\ trap_return(t) => TrapInv'
         /\ mips_syscall(t) => TrapInv'
         /\ md_usermode(t) \/ md_forkentry(t) => TrapInv'
         /\ (\E u \in Thread : thread_yield(t, u)) => TrapInv'
         /\ (\E u \in Thread : thread_exit(t, u) \/ kill_curthread(t, u)) => TrapInv'
         /\ (\E c \in Thread : thread_fork(t, c)) => TrapInv'
<1> DEFINE s == stack[cur]
           f == Last(s)
           b == Front(s)
<1>1. /\ cur \in Thread /\ StackOk(s) /\ s # <<>> /\ FrameOk(f) /\ f \in Frame
      /\ Settled(f, curspl, ie)
      /\ curspl \in {0, SPL_HIGH} /\ ie \in BOOLEAN /\ in_interrupt \in BOOLEAN
      /\ in_interrupt <=> HasIrq(s)
      /\ badas \subseteq hasas
  BY Running DEF FrameOk
<1>2. /\ StackOk(b)
      /\ b # <<>> => Link(Last(b), f)
      /\ f.kind \notin Base => b # <<>>
      /\ HasIrq(s) <=> HasIrq(b) \/ f.kind = "irq"
      /\ f.kind = "irq" => (f.old_in <=> HasIrq(b))
  BY <1>1, PopFrame
<1>3. SPL_HIGH # 0
  BY TrapAssumption
<1>4. ASSUME NEW a \in Ats,
             FrameOk([f EXCEPT !.at = a])
      PROVE  LET r == Append(b, [f EXCEPT !.at = a])
             IN  /\ StackOk(r) /\ r # <<>> /\ (HasIrq(r) <=> HasIrq(s))
                 /\ Last(r).kind = f.kind /\ Last(r).at = a /\ Last(r).lvl = f.lvl
  <2> DEFINE g == [f EXCEPT !.at = a]
  <2>1. /\ g.kind = f.kind /\ g.spl = f.spl /\ g.ie = f.ie /\ g.old_in = f.old_in
        /\ g.at = a /\ g.lvl = f.lvl
    BY <1>1 DEF Frame
  <2> HIDE DEF g, f, b, s
  <2>2. FrameOk(g)
    BY <1>4 DEF g
  <2>3. StackOk(Append(b, g)) /\ Append(b, g) # <<>> /\ Last(Append(b, g)) = g
        /\ (HasIrq(Append(b, g)) <=> HasIrq(s))
    BY <1>1, <2>1, <2>2, Replace DEF f, b
  <2>. QED BY <2>1, <2>3 DEF g
<1>5. ASSUME splx_end(t) PROVE TrapInv'
  <2>1. /\ t = cur /\ f.kind = "splx" /\ curspl' = 0 /\ ie' = ie
        /\ stack' = [stack EXCEPT ![cur] = b] /\ stopped = "no"
        /\ UNCHANGED <<cur, hasas, badas, in_interrupt, pcb_ininterrupt, stopped>>
    BY <1>5 DEF splx_end, Runs, Top, Below
  <2>2. b # <<>> /\ Settled(Last(b), 0, TRUE) /\ ie
    BY <1>1, <1>2, <2>1 DEF Link, Settled, Base
  <2>3. Settled(Last(b), curspl', ie')
    BY <2>1, <2>2 DEF Settled
  <2>4. in_interrupt' <=> HasIrq(b)
    BY <1>1, <1>2, <2>1
  <2>. QED BY <1>1, <1>2, <2>1, <2>2, <2>3, <2>4, StepOf
<1>6. ASSUME splhigh_block(t) PROVE TrapInv'
  <2> DEFINE h == [NoFrame EXCEPT !.kind = "high", !.at = "before",
                                  !.lvl = SPL_HIGH, !.spl = curspl]
             s1 == IF f.kind = "irq" THEN Append(b, [f EXCEPT !.at = "yielded"]) ELSE s
             r == Append(s1, h)
  <2>1. /\ t = cur /\ (InKernel(cur) \/ f.kind = "irq")
        /\ stack' = [stack EXCEPT ![cur] = r] /\ stopped = "no"
        /\ ie' = FALSE /\ curspl' = SPL_HIGH
        /\ UNCHANGED <<cur, hasas, badas, in_interrupt, pcb_ininterrupt, stopped>>
    BY <1>6 DEF splhigh_block, Runs, Top, Below
  <2>2. /\ FrameOk(h) /\ h.kind = "high" /\ h.at = "before" /\ h.lvl = SPL_HIGH
        /\ h.spl = curspl
    <3>1. NoFrame \in Frame
      BY NoFrameTyped
    <3>2. /\ h \in Frame /\ h.kind = "high" /\ h.at = "before" /\ h.lvl = SPL_HIGH
          /\ h.spl = curspl
      BY <1>1, <3>1 DEF Frame, Kinds, Ats
    <3>. QED BY <3>2 DEF FrameOk
  <2>3. curspl = 0 <=> ie
    BY <1>1, <1>3, <2>1 DEF InKernel, Settled, FrameOk, Top
  <2>4. /\ StackOk(s1) /\ s1 # <<>> /\ (HasIrq(s1) <=> HasIrq(s))
        /\ Settled(Last(s1), curspl, ie)
    <3>1. CASE f.kind = "irq"
      <4>1. FrameOk([f EXCEPT !.at = "yielded"]) /\ "yielded" \in Ats
        BY <1>1, <3>1 DEF FrameOk, Frame, Ats
      <4>2. s1 = Append(b, [f EXCEPT !.at = "yielded"])
        BY <3>1
      <4>3. /\ StackOk(s1) /\ s1 # <<>> /\ (HasIrq(s1) <=> HasIrq(s))
            /\ Last(s1).kind = "irq" /\ Last(s1).at = "yielded"
        BY <1>4, <3>1, <4>1, <4>2
      <4>4. curspl = SPL_HIGH /\ ~ie
        BY <1>1, <3>1 DEF Settled
      <4>. QED BY <4>3, <4>4 DEF Settled
    <3>2. CASE f.kind # "irq"
      BY <1>1, <3>2
    <3>. QED BY <3>1, <3>2
  <2> HIDE DEF h, s1
  <2>5. Link(Last(s1), h)
    BY <2>2, <2>3, <2>4 DEF Link, Base, Settled
  <2>6. /\ StackOk(r) /\ r # <<>> /\ Last(r) = h /\ (HasIrq(r) <=> HasIrq(s))
    BY <2>2, <2>4, <2>5, PushFrame
  <2>7. Settled(Last(r), curspl', ie')
    BY <1>3, <2>1, <2>2, <2>6 DEF Settled
  <2>8. in_interrupt' <=> HasIrq(r)
    BY <1>1, <2>1, <2>6
  <2>. QED BY <1>1, <2>1, <2>6, <2>7, <2>8, StepOf
<1>7. ASSUME splx_block(t) PROVE TrapInv'
  <2>1. /\ t = cur /\ f.kind = "high" /\ splx(cur, b, f.spl) /\ stopped = "no"
        /\ UNCHANGED <<cur, hasas, badas, in_interrupt, pcb_ininterrupt, stopped>>
    BY <1>7 DEF splx_block, Runs, Top, Below
  <2>2. b # <<>> /\ Settled(Last(b), f.spl, f.spl = 0) /\ (HasIrq(b) <=> HasIrq(s))
    BY <1>2, <2>1 DEF Link, Base
  <2>3. f.spl \in {0, SPL_HIGH}
    BY <1>1 DEF Frame
  <2>. QED BY <1>2, <2>1, <2>2, <2>3, SplxStep
<1>8. ASSUME interrupt(t) \/ syscall(t) \/ (\E c \in BOOLEAN : fault(t, c)) PROVE TrapInv'
  <2>1. CASE interrupt(t)
    <3>1. /\ t = cur /\ stopped = "no" /\ Enter(cur, "irq", "handler", FALSE)
          /\ in_interrupt' = (in_interrupt \/ "irq" = "irq")
          /\ UNCHANGED <<cur, hasas, badas, pcb_ininterrupt, stopped>>
      BY <2>1 DEF interrupt, Runs
    <3>. QED BY <3>1, EnterStep
  <2>2. CASE syscall(t)
    <3>1. /\ t = cur /\ stopped = "no" /\ Enter(cur, "sys", "entry", FALSE)
          /\ f.kind = "user" /\ UNCHANGED <<cur, hasas, badas, in_interrupt, pcb_ininterrupt, stopped>>
      BY <2>2 DEF syscall, Runs, Top
    <3>2. in_interrupt' = (in_interrupt \/ "sys" = "irq")
      BY <1>1, <3>1
    <3>. QED BY <3>1, <3>2, EnterStep
  <2>3. ASSUME NEW c \in BOOLEAN, fault(t, c) PROVE TrapInv'
    <3>1. /\ t = cur /\ stopped = "no" /\ Enter(cur, "fault", "entry", c)
          /\ UNCHANGED <<cur, hasas, badas, in_interrupt, pcb_ininterrupt, stopped>>
      BY <2>3 DEF fault, Runs
    <3>2. in_interrupt' = (in_interrupt \/ "fault" = "irq")
      BY <1>1, <3>1
    <3>. QED BY <3>1, <3>2, EnterStep
  <2>. QED BY <1>8, <2>1, <2>2, <2>3
<1>9. ASSUME restore_spl(t) PROVE TrapInv'
  <2> DEFINE g == [f EXCEPT !.at = "body", !.lvl = f.spl]
             r == Append(b, g)
  <2>1. /\ t = cur /\ f.at = "entry" /\ splx(cur, r, f.spl) /\ stopped = "no"
        /\ UNCHANGED <<cur, hasas, badas, in_interrupt, pcb_ininterrupt, stopped>>
    BY <1>9 DEF restore_spl, Runs, Top, Below
  <2>2. f.kind \in {"sys", "fault"} /\ f.spl \in {0, SPL_HIGH}
    BY <1>1, <2>1 DEF FrameOk, Frame, Kinds
  <2>3. /\ g \in Frame /\ g.kind = f.kind /\ g.spl = f.spl /\ g.ie = f.ie
        /\ g.old_in = f.old_in /\ g.at = "body" /\ g.lvl = f.spl
    BY <1>1 DEF Frame, Ats
  <2>4. FrameOk(g)
    BY <1>1, <2>2, <2>3 DEF FrameOk
  <2> HIDE DEF g
  <2>5. StackOk(r) /\ r # <<>> /\ Last(r) = g /\ (HasIrq(r) <=> HasIrq(s))
    BY <1>1, <2>3, <2>4, Replace
  <2>6. Settled(g, f.spl, f.spl = 0)
    BY <2>2, <2>3 DEF Settled
  <2>. QED BY <2>1, <2>2, <2>5, <2>6, SplxStep
<1>10. ASSUME NEW ok \in BOOLEAN, vm_fault(t, ok) PROVE TrapInv'
  <2> DEFINE a == IF ok THEN "done" ELSE "fatal"
             r == Append(b, [f EXCEPT !.at = a])
  <2>1. /\ t = cur /\ f.kind = "fault" /\ f.at = "body" /\ stopped = "no"
        /\ UNCHANGED <<cur, hasas, badas, in_interrupt, pcb_ininterrupt, stopped>>
        /\ IF cur \in hasas THEN splx(cur, r, curspl)
           ELSE stack' = [stack EXCEPT ![cur] = r] /\ ie' = FALSE /\ curspl' = SPL_HIGH
    BY <1>10 DEF vm_fault, Handling, Runs, Top, Below, At
  <2>2. FrameOk([f EXCEPT !.at = a]) /\ a \in Ats
    BY <1>1, <2>1 DEF FrameOk, Frame, Ats
  <2>3. /\ StackOk(r) /\ r # <<>> /\ (HasIrq(r) <=> HasIrq(s))
        /\ Last(r).kind = "fault" /\ Last(r).at = a
    BY <1>4, <2>1, <2>2
  <2>4. \A l, i : Settled(Last(r), l, i)
    BY <2>3 DEF Settled
  <2> HIDE DEF r
  <2>5. CASE cur \in hasas
    BY <1>1, <2>1, <2>3, <2>4, <2>5, SplxStep
  <2>6. CASE cur \notin hasas
    BY <1>1, <2>1, <2>3, <2>4, <2>6, StepOf
  <2>. QED BY <2>5, <2>6
<1>11. ASSUME vm_fault_bad(t) \/ fatal_kernel(t) \/ sys_reboot(t) PROVE TrapInv'
  <2>1. /\ stopped' \in {"halt", "fault"}
        /\ UNCHANGED <<cur, stack, hasas, badas, ie, curspl, in_interrupt, pcb_ininterrupt>>
    BY <1>11 DEF vm_fault_bad, fatal_kernel, sys_reboot
  <2>. QED BY <2>1 DEF TrapInv, TypeOK, StacksInv, RunInv, WaitInv, AssertionsHold,
                       SwitchedOut, Top, Frames
<1>12. ASSUME badfault(t) PROVE TrapInv'
  <2> DEFINE r == Append(b, [f EXCEPT !.at = "done"])
  <2>1. /\ t = cur /\ f.at = "fatal" /\ stopped = "no"
        /\ stack' = [stack EXCEPT ![cur] = r]
        /\ UNCHANGED <<cur, hasas, badas, ie, curspl, in_interrupt, pcb_ininterrupt, stopped>>
    BY <1>12 DEF badfault, Fatal, Runs, Top, Below, At
  <2>2. f.kind \in {"sys", "fault"} /\ FrameOk([f EXCEPT !.at = "done"]) /\ "done" \in Ats
    BY <1>1, <2>1 DEF FrameOk, Frame, Ats, Kinds
  <2>3. /\ StackOk(r) /\ r # <<>> /\ (HasIrq(r) <=> HasIrq(s))
        /\ Last(r).kind = f.kind /\ Last(r).at = "done"
    BY <1>4, <2>2
  <2> HIDE DEF r
  <2>4. Settled(Last(r), curspl', ie')
    BY <2>2, <2>3 DEF Settled
  <2>. QED BY <1>1, <2>1, <2>3, <2>4, StepOf
<1>13. ASSUME trap_return(t) PROVE TrapInv'
  <2>1. /\ t = cur /\ (f.at = "done" \/ f.kind = "irq")
        /\ stack' = [stack EXCEPT ![cur] = b] /\ stopped = "no"
        /\ curspl' = f.spl /\ ie' = f.ie
        /\ in_interrupt' = IF f.kind = "irq" THEN f.old_in ELSE in_interrupt
        /\ UNCHANGED <<cur, hasas, badas, pcb_ininterrupt, stopped>>
    BY <1>13 DEF trap_return, Runs, Top, Below, SplAfter
  <2>2. f.kind \in {"irq", "sys", "fault"}
    BY <1>1, <2>1 DEF FrameOk, Frame, Kinds
  <2>3. b # <<>> /\ Settled(Last(b), f.spl, f.ie)
    BY <1>2, <2>2 DEF Link, Base
  <2>4. f.spl \in {0, SPL_HIGH} /\ f.ie \in BOOLEAN /\ f.old_in \in BOOLEAN
    BY <1>1 DEF Frame
  <2>5. in_interrupt' \in BOOLEAN /\ (in_interrupt' <=> HasIrq(b))
    BY <1>1, <1>2, <2>1, <2>4
  <2> HIDE DEF f, b
  <2>6. Settled(Last(b), curspl', ie') /\ curspl' \in {0, SPL_HIGH} /\ ie' \in BOOLEAN
    BY <2>1, <2>3, <2>4
  <2>. QED BY <1>1, <1>2, <2>1, <2>3, <2>5, <2>6, StepOf
<1>14. ASSUME mips_syscall(t) PROVE TrapInv'
  <2> DEFINE r == Append(b, [f EXCEPT !.at = "done"])
             q == [r EXCEPT ![1].pc = @ + 1]
  <2>1. /\ t = cur /\ f.kind = "sys" /\ f.at = "body" /\ stopped = "no"
        /\ UNCHANGED <<cur, hasas, badas, ie, curspl, in_interrupt, pcb_ininterrupt>>
    BY <1>14 DEF mips_syscall, Handling, Runs, Top
  <2>2. curspl = 0
    BY <1>1, <2>1 DEF Settled, FrameOk
  <2>3. stack' = [stack EXCEPT ![cur] = q] /\ stopped' = stopped
    BY <1>14, <2>1, <2>2 DEF mips_syscall, At, Below, Top
  <2>4. FrameOk([f EXCEPT !.at = "done"]) /\ "done" \in Ats
    BY <1>1, <2>1 DEF FrameOk, Frame, Ats
  <2>5. /\ StackOk(r) /\ r # <<>> /\ (HasIrq(r) <=> HasIrq(s))
        /\ Last(r).kind = "sys" /\ Last(r).at = "done"
    BY <1>4, <2>1, <2>4
  <2> HIDE DEF r
  <2>6. StackOk(q) /\ q # <<>> /\ (HasIrq(q) <=> HasIrq(s))
        /\ Last(q).kind = "sys" /\ Last(q).at = "done"
    BY <2>5, BumpPC
  <2> HIDE DEF q
  <2>7. Settled(Last(q), curspl', ie')
    BY <2>6 DEF Settled
  <2>. QED BY <1>1, <2>1, <2>3, <2>6, <2>7, StepOf
<1>15. ASSUME md_usermode(t) \/ md_forkentry(t) PROVE TrapInv'
  <2>1. /\ t = cur /\ f.kind \in {"kernel", "sys", "forked"} /\ stopped = "no"
        /\ \E pc \in {Entry, 1} : mips_usermode(cur, pc)
        /\ hasas' = hasas \cup {cur} /\ badas' \subseteq hasas'
        /\ UNCHANGED <<cur, in_interrupt, pcb_ininterrupt, stopped>>
    BY <1>1, <1>15 DEF md_usermode, md_forkentry, Runs, InKernel, Top, ForkPC
  <2>2. PICK pc \in {Entry, 1} : mips_usermode(cur, pc)
    BY <2>1
  <2> DEFINE u == [NoFrame EXCEPT !.kind = "user", !.pc = pc]
  <2>3. FrameOk(u) /\ u.kind = "user" /\ u.at = "run" /\ u.lvl = 0
    <3>1. NoFrame \in Frame
      BY NoFrameTyped
    <3>2. pc \in Int
      BY TrapAssumption
    <3>3. u \in Frame /\ u.kind = "user" /\ u.at = "run" /\ u.lvl = 0
      BY <3>1, <3>2 DEF NoFrame, Frame, Kinds
    <3>. QED BY <3>3 DEF FrameOk
  <2> HIDE DEF u
  <2>4. StackOk(<<>>) /\ ~HasIrq(<<>>)
    BY DEF StackOk, HasIrq
  <2>5. /\ StackOk(Append(<<>>, u)) /\ Append(<<>>, u) # <<>> /\ Last(Append(<<>>, u)) = u
        /\ ~HasIrq(Append(<<>>, u))
    BY <2>3, <2>4, PushFrame DEF Base
  <2>6. stack' = [stack EXCEPT ![cur] = Append(<<>>, u)] /\ curspl' = 0 /\ ie' = TRUE
    BY <2>2 DEF mips_usermode, UserSpl, u
  <2>7. ~HasIrq(s)
    BY <1>1, <2>1, KernelNoIrq
  <2>8. Settled(u, curspl', ie')
    BY <1>3, <2>3, <2>6 DEF Settled
  <2>. QED BY <1>1, <2>1, <2>5, <2>6, <2>7, <2>8, StepOf
<1>16. ASSUME NEW u \in Thread, thread_yield(t, u) PROVE TrapInv'
  <2> DEFINE r == Append(b, [f EXCEPT !.at = "switched"])
  <2>1. /\ t = cur /\ f.kind = "high" /\ stopped = "no" /\ md_switch(cur, r, u)
        /\ ie' = (ie \/ Starts(u))
        /\ UNCHANGED <<hasas, badas, curspl, stopped>>
    BY <1>16 DEF thread_yield, Runs, Top, Below
  <2>2. curspl = SPL_HIGH /\ ~ie
    BY <1>1, <1>3, <2>1 DEF Settled, FrameOk
  <2>3. FrameOk([f EXCEPT !.at = "switched"]) /\ "switched" \in Ats
    BY <1>1, <2>1 DEF FrameOk, Frame, Ats
  <2>4. /\ StackOk(r) /\ r # <<>> /\ (HasIrq(r) <=> HasIrq(s))
        /\ Last(r).kind = "high" /\ Last(r).at = "switched"
    BY <1>4, <2>1, <2>3
  <2> HIDE DEF r
  <2>5. ie' = Starts(u)
    BY <1>1, <2>1, <2>2 DEF Starts
  <2>. QED BY <1>1, <2>1, <2>2, <2>4, <2>5, SwitchTo
<1>17. ASSUME NEW u \in Thread, thread_exit(t, u) \/ kill_curthread(t, u) PROVE TrapInv'
  <2>1. t = cur /\ stopped = "no" /\ exit_and_switch(cur, u)
    BY <1>17 DEF thread_exit, kill_curthread, Runs, Fatal
  <2>2. /\ md_switch(cur, <<>>, u) /\ ie' = Starts(u) /\ curspl' = SPL_HIGH
        /\ hasas' = hasas \ {cur} /\ badas' = badas \ {cur} /\ stopped' = stopped
    BY <2>1 DEF exit_and_switch, AsAfterExit
  <2>. QED BY <1>1, <2>1, <2>2, SwitchTo
<1>18. ASSUME NEW c \in Thread, thread_fork(t, c) PROVE TrapInv'
  <2> DEFINE g == IF Top(t).kind = "sys"
                  THEN [NoFrame EXCEPT !.kind = "forked", !.at = "new", !.pc = stack[t][1].pc]
                  ELSE [NoFrame EXCEPT !.at = "new"]
  <2>1. /\ t = cur /\ stopped = "no" /\ stack[c] = <<>> /\ c # cur
        /\ stack' = [stack EXCEPT ![c] = <<g>>]
        /\ pcb_ininterrupt' = [pcb_ininterrupt EXCEPT ![c] = FALSE]
        /\ UNCHANGED <<cur, hasas, badas, ie, curspl, in_interrupt, stopped>>
    BY <1>1, <1>18 DEF thread_fork, Runs
  <2>2. FrameOk(g) /\ g.kind \in {"kernel", "forked"} /\ g.at = "new"
    <3>1. NoFrame \in Frame
      BY NoFrameTyped
    <3>2. s[1] \in Frame /\ s[1].pc \in Int
      <4>1. s \in Seq(Frame)
        BY <1>1 DEF StackOk
      <4>2. s[1] \in Frame
        BY <1>1, <4>1
      <4>. QED BY <4>2 DEF Frame
    <3>3. g \in Frame /\ g.kind \in {"kernel", "forked"} /\ g.at = "new" /\ g.lvl = 0
      BY <2>1, <3>1, <3>2 DEF NoFrame, Frame, Kinds, Ats
    <3>. QED BY <3>3 DEF FrameOk
  <2> HIDE DEF g
  <2>3. StackOk(<<>>) /\ ~HasIrq(<<>>)
    BY DEF StackOk, HasIrq
  <2>4. /\ StackOk(Append(<<>>, g)) /\ Append(<<>>, g) # <<>> /\ Last(Append(<<>>, g)) = g
        /\ ~HasIrq(Append(<<>>, g))
    BY <2>2, <2>3, PushFrame DEF Base
  <2>5. Append(<<>>, g) = <<g>> /\ Len(<<g>>) = 1
    OBVIOUS
  <2>6. stack \in [Thread -> Seq(Frame)] /\ <<g>> \in Seq(Frame)
    BY <2>4, <2>5 DEF TrapInv, StacksInv, StackOk
  <2>7. stack'[c] = <<g>> /\ \A u \in Thread : u # c => stack'[u] = stack[u]
    BY <2>1, <2>6
  <2>8. stack' \in [Thread -> Seq(Frame)]
    BY <2>1, <2>6
  <2>9. StacksInv'
    BY <2>4, <2>5, <2>7, <2>8 DEF TrapInv, StacksInv
  <2>10. RunInv' /\ (in_interrupt' <=> HasIrq(stack'[cur']))
    BY <1>1, <2>1, <2>7 DEF RunInv, Top
  <2>11. WaitInv'
    <3> SUFFICES ASSUME NEW u \in Thread, u # cur, stack'[u] # <<>>
                 PROVE  /\ SwitchedOut(u)' /\ (Top(u)'.at = "new" => Len(stack'[u]) = 1)
                        /\ pcb_ininterrupt'[u] <=> HasIrq(stack'[u])
      BY <2>1 DEF WaitInv
    <3>1. pcb_ininterrupt'[u] = IF u = c THEN FALSE ELSE pcb_ininterrupt[u]
      BY <2>1 DEF TrapInv, TypeOK
    <3>2. CASE u = c
      BY <2>2, <2>4, <2>5, <2>7, <3>1, <3>2 DEF SwitchedOut, Top
    <3>3. CASE u # c
      BY <2>7, <3>1, <3>3 DEF SwitchedOut, Top, TrapInv, WaitInv
    <3>. QED BY <3>2, <3>3
  <2>12. TypeOK'
    <3>1. \A u \in Thread : \A e \in Frames(u)' : e.kind \in Kinds /\ e.spl \in {0, SPL_HIGH}
      BY <2>8, FramesTyped DEF Frames
    <3>2. hasas' \subseteq {u \in Thread : stack'[u] # <<>>}
      BY <2>1, <2>4, <2>5, <2>7 DEF TrapInv, TypeOK
    <3>3. pcb_ininterrupt' \in [Thread -> BOOLEAN]
      BY <2>1 DEF TrapInv, TypeOK
    <3>. QED BY <2>1, <3>1, <3>2, <3>3 DEF TrapInv, TypeOK
  <2>. QED BY <2>1, <2>9, <2>10, <2>11, <2>12 DEF TrapInv, AssertionsHold
<1>. QED BY <1>5, <1>6, <1>7, <1>8, <1>9, <1>10, <1>11, <1>12, <1>13, <1>14, <1>15,
            <1>16, <1>17, <1>18

\* A machine that has just booted satisfies the inductive invariant.
LEMMA TrapInvInit == Init => TrapInv
<1> SUFFICES ASSUME Init PROVE TrapInv
  OBVIOUS
<1> USE TrapAssumption
<1>1. /\ boot \in Thread /\ cur = boot /\ hasas = {} /\ badas = {}
      /\ ie = FALSE /\ curspl = SPL_HIGH /\ in_interrupt = FALSE /\ stopped = "no"
      /\ pcb_ininterrupt = [t \in Thread |-> FALSE]
  BY DEF Init
<1>2. FrameOk(NoFrame) /\ NoFrame.kind = "kernel" /\ NoFrame.at = "run" /\ NoFrame.lvl = 0
  BY DEF NoFrame, FrameOk, Frame, Kinds, Ats
<1>3. StackOk(<<>>) /\ ~HasIrq(<<>>)
  BY DEF StackOk, HasIrq
<1>4. /\ StackOk(Append(<<>>, NoFrame)) /\ Append(<<>>, NoFrame) # <<>>
      /\ Last(Append(<<>>, NoFrame)) = NoFrame /\ ~HasIrq(Append(<<>>, NoFrame))
  BY <1>2, <1>3, PushFrame DEF Base
<1> DEFINE low == Append(<<>>, NoFrame)
<1>5. /\ FrameOk(Booting) /\ Booting.kind = "high" /\ Booting.at = "before"
      /\ Booting.lvl = SPL_HIGH /\ Link(NoFrame, Booting)
  <2>1. /\ Booting.kind = "high" /\ Booting.at = "before"
        /\ Booting.lvl = SPL_HIGH /\ Booting.spl = 0
    BY DEF Booting, NoFrame
  <2>2. Booting \in Frame
    BY NoFrameTyped DEF Booting, Frame, Kinds, Ats
  <2>3. FrameOk(Booting)
    BY <2>1, <2>2 DEF FrameOk
  <2>4. Settled(NoFrame, 0, TRUE)
    BY <1>2 DEF Settled
  <2>5. Link(NoFrame, Booting)
    BY <2>1, <2>4 DEF Link, Base
  <2>. QED BY <2>1, <2>3, <2>5
<1>6. <<NoFrame, Booting>> = Append(low, Booting)
  <2> HIDE DEF NoFrame, Booting
  <2>. QED OBVIOUS
<1> HIDE DEF NoFrame, Booting, low
<1>7. /\ StackOk(Append(low, Booting)) /\ Append(low, Booting) # <<>>
      /\ Last(Append(low, Booting)) = Booting /\ ~HasIrq(Append(low, Booting))
  BY <1>4, <1>5, PushFrame DEF low
<1>8. \A t \in Thread : stack[t] = IF t = boot THEN Append(low, Booting) ELSE <<>>
  BY <1>6 DEF Init
<1>9. \A t \in Thread : StackOk(stack[t]) /\ stack[t] \in Seq(Frame)
  BY <1>3, <1>7, <1>8, ZenonT(30) DEF StackOk
<1>10. stack \in [Thread -> Seq(Frame)]
  BY <1>9 DEF Init
<1>11. RunInv /\ ~HasIrq(stack[cur])
  BY <1>1, <1>5, <1>7, <1>8 DEF RunInv, Settled, Top
<1>12. WaitInv
  BY <1>1, <1>8 DEF WaitInv
<1>13. TypeOK
  <2>1. \A t \in Thread : \A f \in Frames(t) : f.kind \in Kinds /\ f.spl \in {0, SPL_HIGH}
    BY <1>10, FramesTyped DEF Frames
  <2>. QED BY <1>1, <2>1 DEF TypeOK
<1>. QED BY <1>1, <1>9, <1>10, <1>11, <1>12, <1>13 DEF TrapInv, StacksInv, AssertionsHold

\* The inductive invariant: every stack is well formed, the running code finds
\* the level it asked for, and the others wait in mi_switch.
THEOREM TrapInvariant == Spec => []TrapInv
<1>1. Init => TrapInv
  BY TrapInvInit
<1>2. TrapInv /\ [Next]_vars => TrapInv'
  <2> SUFFICES ASSUME TrapInv, [Next]_vars PROVE TrapInv'
    OBVIOUS
  <2>1. CASE Next
    BY <2>1, TrapInvNext DEF Next
  <2>2. CASE UNCHANGED vars
    BY <2>2 DEF vars, TrapInv, TypeOK, StacksInv, RunInv, WaitInv, AssertionsHold,
                SwitchedOut, Top, Frames
  <2>. QED BY <2>1, <2>2
<1>. QED BY <1>1, <1>2, PTL DEF Spec

\* No trap leaves the types; address spaces belong to live threads.
THEOREM TrapTypeCorrect == Spec => []TypeOK
<1>1. TrapInv => TypeOK
  BY DEF TrapInv
<1>. QED BY <1>1, TrapInvariant, PTL

\* Code always finds curspl and the interrupt flag at the level it asked for,
\* for any number of threads and any nesting of traps and switches, although
\* splx sets curspl after the flag and md_switch moves neither.
THEOREM SplIsTransparent == Spec => []SplTransparent
<1>1. TrapInv => SplTransparent
  <2> SUFFICES ASSUME TrapInv, InKernel(cur) \/ Top(cur).kind \in {"user", "forked", "high"}
               PROVE  curspl = Top(cur).lvl /\ (ie <=> Top(cur).lvl = 0)
    BY DEF SplTransparent
  <2>1. FrameOk(Top(cur)) /\ Settled(Top(cur), curspl, ie)
    BY Running DEF Top
  <2>2. Top(cur).kind \notin {"splx", "irq"} /\ Top(cur).at \notin {"entry", "fatal", "done"}
    BY <2>1 DEF FrameOk, InKernel
  <2>. QED BY <2>1, <2>2 DEF Settled
<1>. QED BY <1>1, TrapInvariant, PTL

\* in_interrupt follows the running thread through md_switch and the pcbs.
THEOREM InterruptFlagTruthful == Spec => []InInterruptTruthful
<1>1. TrapInv => InInterruptTruthful
  <2> SUFFICES ASSUME TrapInv PROVE InInterruptTruthful
    OBVIOUS
  <2>1. stack[cur] \in Seq(Frame)
    BY Running DEF StackOk
  <2>2. DOMAIN stack[cur] = 1 .. Len(stack[cur])
    BY <2>1
  <2>3. HasIrq(stack[cur]) <=> \E f \in Frames(cur) : f.kind = "irq"
    BY <2>2 DEF HasIrq, Frames
  <2>. QED BY <2>3, Running DEF InInterruptTruthful
<1>. QED BY <1>1, TrapInvariant, PTL

\* The assertions on curspl in mips_trap and mips_syscall never fail.
THEOREM TrapAssertions == Spec => []AssertionsHold
<1>1. TrapInv => AssertionsHold
  BY DEF TrapInv
<1>. QED BY <1>1, TrapInvariant, PTL
=============================================================================
