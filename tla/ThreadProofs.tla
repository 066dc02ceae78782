---------------------------- MODULE ThreadProofs ----------------------------
(***************************************************************************)
(* Proofs about ThreadSystem, for any finite set of thread structures, any *)
(* sleep addresses, clock rate and initial run queue.                      *)
(***************************************************************************)
EXTENDS ThreadSystem, SequenceTheorems, FiniteSetTheorems, TLAPS

-----------------------------------------------------------------------------
(* Induction, and what thread_wakeup's loop selects. *)

\* Every non-empty set of natural numbers has a least one.
LEMMA LeastNat ==
  ASSUME NEW T \in SUBSET Nat, T # {}
  PROVE  \E n \in T : \A m \in T : n <= m
<1> DEFINE R == OpToRel(<, Nat)
<1>1. IsWellFoundedOn(R, Nat)
  BY NatLessThanWellFounded
<1>2. \A x, y \in Nat : x < y => <<x, y>> \in R
  BY DEF OpToRel
<1> HIDE DEF R
<1>3. PICK n \in T : \A m \in T : ~(<<m, n>> \in R)
  BY <1>1, WFMin
<1>4. \A m \in T : ~(m < n)
  BY <1>2, <1>3
<1>5. \A m \in T : n <= m
  BY <1>4
<1>. QED BY <1>5

\* Induction over the natural numbers, for a set instead of a predicate.
LEMMA SetInduction ==
  ASSUME NEW T \in SUBSET Nat, 0 \in T, \A n \in T : n + 1 \in T
  PROVE  T = Nat
<1> SUFFICES ASSUME Nat \ T # {} PROVE FALSE
  OBVIOUS
<1>1. PICK n \in Nat \ T : \A m \in Nat \ T : n <= m
  BY LeastNat
<1>2. n - 1 \in T
  BY <1>1
<1>. QED BY <1>1, <1>2

\* The function that Among computes: what is selected of the first i elements.
Selects(f, n, s, S) ==
  f = [i \in 0 .. n |-> IF i = 0 THEN <<>>
                        ELSE IF s[i] \in S THEN Append(f[i - 1], s[i]) ELSE f[i - 1]]

\* There is such a function for every length.
LEMMA SelectsExists ==
  ASSUME NEW s, NEW S, NEW n \in Nat
  PROVE  \E f : Selects(f, n, s, S)
<1> DEFINE T == {k \in Nat : \E f : Selects(f, k, s, S)}
<1>1. 0 \in T
  <2> DEFINE g == [i \in 0 .. 0 |-> <<>>]
  <2>1. Selects(g, 0, s, S)
    BY DEF Selects
  <2>. QED BY <2>1
<1>2. ASSUME NEW k \in T PROVE k + 1 \in T
  <2>1. PICK f : Selects(f, k, s, S)
    BY <1>2
  <2> DEFINE g == [i \in 0 .. k + 1 |->
                     IF i <= k THEN f[i]
                     ELSE IF s[i] \in S THEN Append(f[i - 1], s[i]) ELSE f[i - 1]]
  <2>2. \A i \in 0 .. k : g[i] = f[i]
    OBVIOUS
  <2>3. \A i \in 0 .. k + 1 :
          g[i] = IF i = 0 THEN <<>>
                 ELSE IF s[i] \in S THEN Append(g[i - 1], s[i]) ELSE g[i - 1]
    <3> SUFFICES ASSUME NEW i \in 0 .. k + 1
                 PROVE  g[i] = IF i = 0 THEN <<>>
                               ELSE IF s[i] \in S THEN Append(g[i - 1], s[i]) ELSE g[i - 1]
      OBVIOUS
    <3>1. CASE i = k + 1
      BY <3>1, <2>2
    <3>2. CASE i \in 0 .. k
      <4>1. g[i] = f[i] /\ (i # 0 => g[i - 1] = f[i - 1])
        BY <3>2, <2>2
      <4>2. f[i] = IF i = 0 THEN <<>>
                   ELSE IF s[i] \in S THEN Append(f[i - 1], s[i]) ELSE f[i - 1]
        BY <2>1, <3>2 DEF Selects
      <4>. HIDE DEF g
      <4>. QED BY <4>1, <4>2
    <3>. QED BY <3>1, <3>2
  <2>4. g = [i \in 0 .. k + 1 |-> g[i]]
    OBVIOUS
  <2> HIDE DEF g
  <2>5. Selects(g, k + 1, s, S)
    BY <2>3, <2>4 DEF Selects
  <2>. QED BY <2>5
<1>3. T = Nat
  <2> HIDE DEF T
  <2>1. T \in SUBSET Nat
    BY DEF T
  <2>. QED BY <1>1, <1>2, <2>1, SetInduction
<1>. QED BY <1>3

\* Among is the last value of such a function.
LEMMA AmongSelects ==
  ASSUME NEW s, NEW S, Len(s) \in Nat
  PROVE  \E f : Selects(f, Len(s), s, S) /\ Among(s, S) = f[Len(s)]
<1> DEFINE f == CHOOSE f : f = [i \in 0 .. Len(s) |->
                  IF i = 0 THEN <<>>
                  ELSE IF s[i] \in S THEN Append(f[i - 1], s[i]) ELSE f[i - 1]]
<1>1. Among(s, S) = f[Len(s)]
  BY DEF Among
<1>2. f = CHOOSE g : Selects(g, Len(s), s, S)
  BY DEF Selects
<1> HIDE DEF f
<1>3. Selects(f, Len(s), s, S)
  BY <1>2, SelectsExists
<1>. QED BY <1>1, <1>3

\* What Among selects: the elements that are in S, each as often as before.
LEMMA AmongFacts ==
  ASSUME NEW T, NEW s \in Seq(T), NEW S
  PROVE  /\ Among(s, S) \in Seq(T)
         /\ ToSet(Among(s, S)) = ToSet(s) \cap S
         /\ IsInjective(s) => IsInjective(Among(s, S))
<1>1. PICK f : Selects(f, Len(s), s, S) /\ Among(s, S) = f[Len(s)]
  BY AmongSelects
<1> DEFINE P(i) == /\ f[i] \in Seq(T)
                   /\ ToSet(f[i]) = {s[j] : j \in 1 .. i} \cap S
                   /\ IsInjective(s) => IsInjective(f[i])
           G == {i \in Nat : i <= Len(s) => P(i)}
<1>2. 0 \in G
  <2>1. f[0] = <<>>
    BY <1>1 DEF Selects
  <2>2. ToSet(f[0]) = {} /\ IsInjective(f[0])
    BY <2>1 DEF ToSet, IsInjective
  <2>3. {s[j] : j \in 1 .. 0} = {} /\ f[0] \in Seq(T)
    BY <2>1
  <2>. QED BY <2>2, <2>3
<1>3. ASSUME NEW n \in G PROVE n + 1 \in G
  <2> SUFFICES ASSUME n + 1 <= Len(s) PROVE P(n + 1)
    OBVIOUS
  <2>1. n \in Nat /\ P(n)
    OBVIOUS
  <2> HIDE DEF G
  <2>2. f[n + 1] = IF s[n + 1] \in S THEN Append(f[n], s[n + 1]) ELSE f[n]
    <3>1. n + 1 \in 0 .. Len(s) /\ n + 1 # 0 /\ (n + 1) - 1 = n
      BY <2>1
    <3>. QED BY <1>1, <3>1 DEF Selects
  <2>3. s[n + 1] \in T
    BY <2>1
  <2>4. {s[j] : j \in 1 .. n + 1} = {s[j] : j \in 1 .. n} \cup {s[n + 1]}
    BY <2>1
  <2>5. CASE s[n + 1] \notin S
    BY <2>1, <2>2, <2>4, <2>5
  <2>6. CASE s[n + 1] \in S
    <3>1. f[n + 1] = Append(f[n], s[n + 1])
      BY <2>2, <2>6
    <3>2. f[n + 1] \in Seq(T) /\ DOMAIN f[n + 1] = 1 .. Len(f[n]) + 1
      BY <3>1, <2>1, <2>3
    <3>3. \A i \in 1 .. Len(f[n]) + 1 :
            f[n + 1][i] = IF i = Len(f[n]) + 1 THEN s[n + 1] ELSE f[n][i]
      BY <3>1, <2>1, <2>3
    <3>4. ToSet(f[n + 1]) = ToSet(f[n]) \cup {s[n + 1]}
      <4>1. ToSet(f[n + 1]) = {f[n + 1][i] : i \in 1 .. Len(f[n]) + 1}
        BY <3>2 DEF ToSet
      <4>2. ToSet(f[n]) = {f[n][i] : i \in 1 .. Len(f[n])} /\ Len(f[n]) \in Nat
        BY <2>1 DEF ToSet
      <4> HIDE DEF P
      <4>. QED BY <4>1, <4>2, <3>3
    <3>5. IsInjective(s) => IsInjective(f[n + 1])
      <4> SUFFICES ASSUME IsInjective(s) PROVE IsInjective(f[n + 1])
        OBVIOUS
      <4>1. s[n + 1] \notin ToSet(f[n])
        BY <2>1 DEF IsInjective
      <4>2. \A i \in 1 .. Len(f[n]) : f[n][i] # s[n + 1]
        BY <4>1, <2>1 DEF ToSet
      <4>3. \A i, j \in 1 .. Len(f[n]) : f[n][i] = f[n][j] => i = j
        BY <2>1 DEF IsInjective
      <4>4. \A i, j \in 1 .. Len(f[n]) + 1 : f[n + 1][i] = f[n + 1][j] => i = j
        <5>1. Len(f[n]) \in Nat
          BY <2>1
        <5> HIDE DEF P
        <5> SUFFICES ASSUME NEW i \in 1 .. Len(f[n]) + 1, NEW j \in 1 .. Len(f[n]) + 1,
                            f[n + 1][i] = f[n + 1][j]
                     PROVE  i = j
          OBVIOUS
        <5>2. \A k \in 1 .. Len(f[n]) + 1 : k # Len(f[n]) + 1 => k \in 1 .. Len(f[n])
          BY <5>1
        <5>3. Len(f[n]) + 1 \in 1 .. Len(f[n]) + 1
          BY <5>1
        <5>4. f[n + 1][Len(f[n]) + 1] = s[n + 1]
          BY <3>3, <5>3
        <5>5. \A k \in 1 .. Len(f[n]) + 1 : k # Len(f[n]) + 1 => f[n + 1][k] = f[n][k]
          BY <3>3
        <5>6. CASE i = Len(f[n]) + 1 /\ j # Len(f[n]) + 1
          BY <4>2, <5>2, <5>4, <5>5, <5>6
        <5>7. CASE i # Len(f[n]) + 1 /\ j = Len(f[n]) + 1
          BY <4>2, <5>2, <5>4, <5>5, <5>7
        <5>8. CASE i # Len(f[n]) + 1 /\ j # Len(f[n]) + 1
          BY <4>3, <5>2, <5>5, <5>8
        <5>. QED BY <5>6, <5>7, <5>8
      <4>. QED BY <4>4, <3>2 DEF IsInjective
    <3>. QED BY <3>2, <3>4, <3>5, <2>1, <2>4, <2>6
  <2>. QED BY <2>5, <2>6
<1>4. G = Nat
  <2> HIDE DEF G
  <2>1. G \in SUBSET Nat
    BY DEF G
  <2>. QED BY <1>2, <1>3, <2>1, SetInduction
<1>5. P(Len(s))
  <2>1. Len(s) \in Nat /\ Len(s) <= Len(s)
    OBVIOUS
  <2>2. Len(s) \in G
    <3> HIDE DEF G
    <3>. QED BY <1>4, <2>1
  <2>. QED BY <2>1, <2>2
<1>6. {s[j] : j \in 1 .. Len(s)} = ToSet(s)
  BY DEF ToSet
<1>. QED BY <1>1, <1>5, <1>6

\* An injective sequence is as long as its set of elements is large.
LEMMA LenIsCardinality ==
  ASSUME NEW T, NEW s \in Seq(T), IsInjective(s)
  PROVE  IsFiniteSet(ToSet(s)) /\ Cardinality(ToSet(s)) = Len(s)
<1>1. IsFiniteSet(1 .. Len(s)) /\ Cardinality(1 .. Len(s)) = Len(s)
  <2>1. Len(s) \in Nat
    OBVIOUS
  <2>. QED BY <2>1, FS_Interval, SMTT(30)
<1>2. s \in [1 .. Len(s) -> ToSet(s)] /\ \A x \in ToSet(s) : \E i \in 1 .. Len(s) : s[i] = x
  BY DEF ToSet
<1>3. s \in Bijection(1 .. Len(s), ToSet(s))
  BY <1>2 DEF Bijection, Injection, Surjection
<1>. QED BY <1>1, <1>3, FS_Bijection DEF ExistsBijection

-----------------------------------------------------------------------------
(* The lists of threads.  *)

Present(t) == {t} \ {NULL}
Forking(ng) == {ng[t] : t \in Thread} \ {NULL}

\* Where the threads are: rq, sl, zs the lists, cur the running thread or NULL,
\* al the allocated structures, fr the fresh ones and ng the newguy fields.
Lists(rq, sl, zs, cur, al, fr, ng) ==
  /\ rq \in Seq(Thread) /\ sl \in Seq(Thread) /\ zs \in Seq(Thread)
  /\ cur \in Thread \cup {NULL} /\ ng \in [Thread -> Thread \cup {NULL}]
  /\ IsInjective(rq) /\ IsInjective(sl) /\ IsInjective(zs)
  /\ ToSet(rq) \cap ToSet(sl) = {} /\ ToSet(rq) \cap ToSet(zs) = {}
  /\ ToSet(sl) \cap ToSet(zs) = {}
  /\ cur \notin ToSet(rq) \cup ToSet(sl) \cup ToSet(zs)
  /\ Forking(ng) \cap (ToSet(rq) \cup ToSet(sl) \cup ToSet(zs) \cup {cur}) = {}
  /\ al = ToSet(rq) \cup ToSet(sl) \cup ToSet(zs) \cup Present(cur) \cup Forking(ng)
  /\ fr \subseteq ToSet(rq) \cup Forking(ng)
  /\ \A t \in Thread : ng[t] # NULL => t \in ToSet(rq) \cup {cur}
  /\ \A t, u \in Thread : ng[t] = ng[u] /\ ng[t] # NULL => t = u

\* The threads that numthreads counts.
Counted(rq, sl, cur) == ToSet(rq) \cup ToSet(sl) \cup Present(cur)

\* Appending to a list adds one element.
LEMMA AppendFacts ==
  ASSUME NEW s \in Seq(Thread), NEW t \in Thread
  PROVE  /\ Append(s, t) \in Seq(Thread) /\ Append(s, t) # <<>>
         /\ ToSet(Append(s, t)) = ToSet(s) \cup {t}
         /\ IsInjective(s) /\ t \notin ToSet(s) => IsInjective(Append(s, t))
<1> DEFINE a == Append(s, t)
<1>1. a \in Seq(Thread) /\ DOMAIN a = 1 .. Len(s) + 1 /\ DOMAIN s = 1 .. Len(s) /\ Len(s) \in Nat
  OBVIOUS
<1>2. \A i \in 1 .. Len(s) + 1 : a[i] = IF i = Len(s) + 1 THEN t ELSE s[i]
  OBVIOUS
<1> HIDE DEF a
<1>3. ToSet(a) = ToSet(s) \cup {t}
  BY <1>1, <1>2 DEF ToSet
<1>4. ASSUME IsInjective(s), t \notin ToSet(s) PROVE IsInjective(a)
  BY <1>1, <1>2, <1>4 DEF IsInjective, ToSet
<1>5. a # <<>>
  BY <1>1
<1>. QED BY <1>1, <1>3, <1>4, <1>5 DEF a

\* Taking the head off a list removes one element.
LEMMA HeadFacts ==
  ASSUME NEW s \in Seq(Thread), s # <<>>
  PROVE  /\ Head(s) \in Thread /\ Head(s) \in ToSet(s)
         /\ Tail(s) \in Seq(Thread) /\ ToSet(s) = ToSet(Tail(s)) \cup {Head(s)}
         /\ IsInjective(s) => IsInjective(Tail(s)) /\ Head(s) \notin ToSet(Tail(s))
<1> DEFINE r == Tail(s)
<1>1. /\ r \in Seq(Thread) /\ DOMAIN r = 1 .. Len(s) - 1 /\ DOMAIN s = 1 .. Len(s)
      /\ Len(s) \in Nat \ {0} /\ Head(s) = s[1] /\ s[1] \in Thread
  OBVIOUS
<1>2. \A i \in 1 .. Len(s) - 1 : r[i] = s[i + 1]
  OBVIOUS
<1> HIDE DEF r
<1>3. ToSet(s) = ToSet(r) \cup {s[1]}
  <2>1. ASSUME NEW x \in ToSet(s) PROVE x \in ToSet(r) \cup {s[1]}
    <3>1. PICK i \in 1 .. Len(s) : x = s[i]
      BY <1>1, <2>1 DEF ToSet
    <3>2. i # 1 => i - 1 \in 1 .. Len(s) - 1 /\ r[i - 1] = s[i]
      BY <1>1, <1>2
    <3>. QED BY <1>1, <3>1, <3>2 DEF ToSet
  <2>2. \A i \in 1 .. Len(s) - 1 : i + 1 \in 1 .. Len(s) /\ r[i] = s[i + 1]
    BY <1>1, <1>2
  <2>3. ToSet(r) \subseteq ToSet(s) /\ s[1] \in ToSet(s)
    BY <1>1, <2>2 DEF ToSet
  <2>. QED BY <2>1, <2>3
<1>4. ASSUME IsInjective(s) PROVE IsInjective(r) /\ s[1] \notin ToSet(r)
  <2>1. \A i, j \in 1 .. Len(s) : s[i] = s[j] => i = j
    BY <1>1, <1>4 DEF IsInjective
  <2>2. \A i, j \in 1 .. Len(s) - 1 : r[i] = r[j] => i = j
    BY <1>1, <1>2, <2>1
  <2>3. \A i \in 1 .. Len(s) - 1 : r[i] # s[1]
    BY <1>1, <1>2, <2>1
  <2>. QED BY <1>1, <2>2, <2>3 DEF IsInjective, ToSet
<1>. QED BY <1>1, <1>3, <1>4 DEF r

\* Concatenating two lists.
LEMMA ConcatFacts ==
  ASSUME NEW s \in Seq(Thread), NEW r \in Seq(Thread)
  PROVE  /\ s \o r \in Seq(Thread)
         /\ ToSet(s \o r) = ToSet(s) \cup ToSet(r)
         /\ IsInjective(s) /\ IsInjective(r) /\ ToSet(s) \cap ToSet(r) = {} =>
              IsInjective(s \o r)
<1> DEFINE a == s \o r
<1>1. /\ a \in Seq(Thread) /\ DOMAIN a = 1 .. Len(s) + Len(r)
      /\ DOMAIN s = 1 .. Len(s) /\ DOMAIN r = 1 .. Len(r)
      /\ Len(s) \in Nat /\ Len(r) \in Nat
  OBVIOUS
<1>2. \A i \in 1 .. Len(s) + Len(r) : a[i] = IF i <= Len(s) THEN s[i] ELSE r[i - Len(s)]
  OBVIOUS
<1> HIDE DEF a
<1>3. ToSet(a) = ToSet(s) \cup ToSet(r)
  <2>1. \A i \in 1 .. Len(s) : a[i] = s[i] /\ i \in 1 .. Len(s) + Len(r)
    BY <1>1, <1>2
  <2>2. \A i \in 1 .. Len(r) : a[i + Len(s)] = r[i] /\ i + Len(s) \in 1 .. Len(s) + Len(r)
    BY <1>1, <1>2, SMTT(30)
  <2>4. ToSet(a) \subseteq ToSet(s) \cup ToSet(r)
    <3> SUFFICES ASSUME NEW i \in 1 .. Len(s) + Len(r) PROVE a[i] \in ToSet(s) \cup ToSet(r)
      BY <1>1 DEF ToSet
    <3>1. CASE i <= Len(s)
      BY <1>1, <1>2, <3>1 DEF ToSet
    <3>2. CASE i > Len(s)
      <4>1. i - Len(s) \in 1 .. Len(r) /\ a[i] = r[i - Len(s)]
        BY <1>1, <1>2, <3>2
      <4>. QED BY <1>1, <4>1 DEF ToSet
    <3>. QED BY <1>1, <3>1, <3>2
  <2>5. ToSet(s) \subseteq ToSet(a)
    BY <1>1, <2>1 DEF ToSet
  <2>6. ToSet(r) \subseteq ToSet(a)
    BY <1>1, <2>2 DEF ToSet
  <2>. QED BY <2>4, <2>5, <2>6
<1>4. ASSUME IsInjective(s), IsInjective(r), ToSet(s) \cap ToSet(r) = {} PROVE IsInjective(a)
  <2> SUFFICES ASSUME NEW i \in 1 .. Len(s) + Len(r), NEW j \in 1 .. Len(s) + Len(r), a[i] = a[j]
               PROVE  i = j
    BY <1>1 DEF IsInjective
  <2>1. \A k \in 1 .. Len(s), l \in 1 .. Len(r) : s[k] # r[l]
    BY <1>1, <1>4 DEF ToSet
  <2>2. \A k, l \in 1 .. Len(s) : s[k] = s[l] => k = l
    BY <1>1, <1>4 DEF IsInjective
  <2>3. \A k, l \in 1 .. Len(r) : r[k] = r[l] => k = l
    BY <1>1, <1>4 DEF IsInjective
  <2>4. CASE i <= Len(s) /\ j <= Len(s)
    BY <1>1, <1>2, <2>2, <2>4
  <2>5. CASE i > Len(s) /\ j > Len(s)
    <3>1. r[i - Len(s)] = r[j - Len(s)] /\ i - Len(s) \in 1 .. Len(r) /\ j - Len(s) \in 1 .. Len(r)
      BY <1>1, <1>2, <2>5
    <3>. QED BY <1>1, <2>3, <3>1
  <2>6. CASE i <= Len(s) /\ j > Len(s)
    <3>1. i \in 1 .. Len(s) /\ j - Len(s) \in 1 .. Len(r) /\ s[i] = r[j - Len(s)]
      BY <1>1, <1>2, <2>6
    <3>. QED BY <2>1, <3>1
  <2>7. CASE i > Len(s) /\ j <= Len(s)
    <3>1. j \in 1 .. Len(s) /\ i - Len(s) \in 1 .. Len(r) /\ s[j] = r[i - Len(s)]
      BY <1>1, <1>2, <2>7
    <3>. QED BY <2>1, <3>1
  <2>. QED BY <1>1, <2>4, <2>5, <2>6, <2>7
<1>. QED BY <1>1, <1>3, <1>4 DEF a

\* mi_switch puts the running thread on the run queue, ...
LEMMA ListsReady ==
  ASSUME NEW rq, NEW sl, NEW zs, NEW c \in Thread, NEW al, NEW fr, NEW ng,
         Lists(rq, sl, zs, c, al, fr, ng)
  PROVE  /\ Lists(Append(rq, c), sl, zs, NULL, al, fr, ng)
         /\ Counted(Append(rq, c), sl, NULL) = Counted(rq, sl, c)
<1> USE ThreadAssumption
<1>1. /\ Append(rq, c) \in Seq(Thread) /\ IsInjective(Append(rq, c))
      /\ ToSet(Append(rq, c)) = ToSet(rq) \cup {c}
  BY AppendFacts DEF Lists
<1>2. /\ ToSet(rq) \subseteq Thread /\ ToSet(sl) \subseteq Thread /\ ToSet(zs) \subseteq Thread
  BY DEF Lists, ToSet
<1>3. Present(c) = {c} /\ Present(NULL) = {} /\ NULL \notin Forking(ng)
  BY DEF Present, Forking
<1>. QED BY <1>1, <1>2, <1>3 DEF Lists, Counted

\* ... on sleepers, ...
LEMMA ListsSleep ==
  ASSUME NEW rq, NEW sl, NEW zs, NEW c \in Thread, NEW al, NEW fr, NEW ng,
         Lists(rq, sl, zs, c, al, fr, ng), ng[c] = NULL
  PROVE  /\ Lists(rq, Append(sl, c), zs, NULL, al, fr, ng)
         /\ Counted(rq, Append(sl, c), NULL) = Counted(rq, sl, c)
<1> USE ThreadAssumption
<1>1. /\ Append(sl, c) \in Seq(Thread) /\ IsInjective(Append(sl, c))
      /\ ToSet(Append(sl, c)) = ToSet(sl) \cup {c}
  BY AppendFacts DEF Lists
<1>2. /\ ToSet(rq) \subseteq Thread /\ ToSet(sl) \subseteq Thread /\ ToSet(zs) \subseteq Thread
  BY DEF Lists, ToSet
<1>3. Present(c) = {c} /\ Present(NULL) = {} /\ NULL \notin Forking(ng)
  BY DEF Present, Forking
<1>. QED BY <1>1, <1>2, <1>3 DEF Lists, Counted

\* ... or on zombies.
LEMMA ListsExit ==
  ASSUME NEW rq, NEW sl, NEW zs, NEW c \in Thread, NEW al, NEW fr, NEW ng,
         Lists(rq, sl, zs, c, al, fr, ng), ng[c] = NULL
  PROVE  /\ Lists(rq, sl, Append(zs, c), NULL, al, fr, ng)
         /\ Counted(rq, sl, NULL) = Counted(rq, sl, c) \ {c} /\ c \in Counted(rq, sl, c)
<1> USE ThreadAssumption
<1>1. /\ Append(zs, c) \in Seq(Thread) /\ IsInjective(Append(zs, c))
      /\ ToSet(Append(zs, c)) = ToSet(zs) \cup {c}
  BY AppendFacts DEF Lists
<1>2. /\ ToSet(rq) \subseteq Thread /\ ToSet(sl) \subseteq Thread /\ ToSet(zs) \subseteq Thread
  BY DEF Lists, ToSet
<1>3. Present(c) = {c} /\ Present(NULL) = {} /\ NULL \notin Forking(ng)
  BY DEF Present, Forking
<1>. QED BY <1>1, <1>2, <1>3 DEF Lists, Counted

\* The scheduler takes the head of the run queue, and the zombies are freed or
\* not.
LEMMA ListsPick ==
  ASSUME NEW rq, NEW sl, NEW zs, NEW al, NEW fr, NEW ng,
         Lists(rq, sl, zs, NULL, al, fr, ng), rq # <<>>
  PROVE  /\ Lists(Tail(rq), sl, zs, Head(rq), al, fr \ {Head(rq)}, ng)
         /\ Lists(Tail(rq), sl, <<>>, Head(rq), al \ ToSet(zs), fr \ {Head(rq)}, ng)
         /\ Counted(Tail(rq), sl, Head(rq)) = Counted(rq, sl, NULL)
<1> USE ThreadAssumption
<1> DEFINE h == Head(rq)
           r == Tail(rq)
<1>1. /\ h \in Thread /\ r \in Seq(Thread) /\ IsInjective(r)
      /\ ToSet(rq) = ToSet(r) \cup {h} /\ h \notin ToSet(r)
  BY HeadFacts DEF Lists
<1> HIDE DEF h, r
<1>2. /\ ToSet(r) \subseteq Thread /\ ToSet(sl) \subseteq Thread /\ ToSet(zs) \subseteq Thread
      /\ ToSet(<<>>) = {} /\ <<>> \in Seq(Thread) /\ IsInjective(<<>>)
  BY <1>1 DEF Lists, ToSet, IsInjective
<1>3. Present(h) = {h} /\ Present(NULL) = {} /\ NULL \notin Forking(ng)
  BY <1>1 DEF Present, Forking
<1>4. Lists(r, sl, zs, h, al, fr \ {h}, ng)
  BY <1>1, <1>2, <1>3 DEF Lists
<1>5. Lists(r, sl, <<>>, h, al \ ToSet(zs), fr \ {h}, ng)
  BY <1>1, <1>2, <1>3 DEF Lists
<1>. QED BY <1>1, <1>3, <1>4, <1>5 DEF Counted, h, r

\* thread_wakeup moves the threads in A from sleepers to the run queue.
LEMMA ListsWake ==
  ASSUME NEW rq, NEW sl, NEW zs, NEW c, NEW al, NEW fr, NEW ng,
         Lists(rq, sl, zs, c, al, fr, ng), NEW A \in SUBSET Thread
  PROVE  /\ Lists(rq \o Among(sl, A), Among(sl, Thread \ A), zs, c, al, fr, ng)
         /\ Counted(rq \o Among(sl, A), Among(sl, Thread \ A), c) = Counted(rq, sl, c)
         /\ ToSet(rq \o Among(sl, A)) = ToSet(rq) \cup (ToSet(sl) \cap A)
         /\ ToSet(Among(sl, Thread \ A)) = ToSet(sl) \ A
<1> DEFINE w == Among(sl, A)
           q == rq \o w
           k == Among(sl, Thread \ A)
<1>0. ToSet(sl) \subseteq Thread
  BY DEF Lists, ToSet
<1>1. w \in Seq(Thread) /\ IsInjective(w) /\ ToSet(w) = ToSet(sl) \cap A
  BY AmongFacts DEF Lists
<1>2. k \in Seq(Thread) /\ IsInjective(k) /\ ToSet(k) = ToSet(sl) \cap (Thread \ A)
  BY AmongFacts DEF Lists
<1> HIDE DEF w, k
<1>3. q \in Seq(Thread) /\ IsInjective(q) /\ ToSet(q) = ToSet(rq) \cup ToSet(w)
  <2>1. ToSet(rq) \cap ToSet(w) = {}
    BY <1>1 DEF Lists
  <2>. QED BY <1>1, <2>1, ConcatFacts DEF Lists
<1> HIDE DEF q
<1>4. ToSet(q) \cup ToSet(k) = ToSet(rq) \cup ToSet(sl) /\ ToSet(q) \cap ToSet(k) = {}
  BY <1>0, <1>1, <1>2, <1>3 DEF Lists
<1>5. Lists(q, k, zs, c, al, fr, ng)
  BY <1>0, <1>1, <1>2, <1>3, <1>4 DEF Lists
<1>6. Counted(q, k, c) = Counted(rq, sl, c)
  BY <1>4 DEF Counted
<1>. QED BY <1>0, <1>1, <1>2, <1>3, <1>5, <1>6 DEF q, w, k

\* thread_fork: a new structure, ...
LEMMA ListsCreate ==
  ASSUME NEW rq, NEW sl, NEW zs, NEW c \in Thread, NEW al, NEW fr, NEW ng,
         Lists(rq, sl, zs, c, al, fr, ng), ng[c] = NULL, NEW t \in Thread, t \notin al
  PROVE  Lists(rq, sl, zs, c, al \cup {t}, fr \cup {t}, [ng EXCEPT ![c] = t])
<1> USE ThreadAssumption
<1> DEFINE g == [ng EXCEPT ![c] = t]
<1>1. g \in [Thread -> Thread \cup {NULL}] /\ \A u \in Thread : g[u] = IF u = c THEN t ELSE ng[u]
  BY DEF Lists
<1> HIDE DEF g
<1>2. Forking(g) = Forking(ng) \cup {t}
  BY <1>1 DEF Forking
<1>3. Present(c) = {c}
  BY DEF Present
<1>4. \A u \in Thread : ng[u] # NULL => ng[u] \in Forking(ng)
  BY DEF Forking
<1>5. Lists(rq, sl, zs, c, al \cup {t}, fr \cup {t}, g)
  BY <1>1, <1>2, <1>3, <1>4 DEF Lists
<1>. QED BY <1>5 DEF g

\* ... which becomes ready, or is freed when there is no memory.
LEMMA ListsFork ==
  ASSUME curthread \in Thread, newguy[curthread] # NULL,
         Lists(runqueue, sleepers, zombies, curthread, allocated, fresh, newguy),
         newguy' = [newguy EXCEPT ![curthread] = NULL],
         NEW t, t = newguy[curthread]
  PROVE  /\ t \in Thread /\ t \notin Counted(runqueue, sleepers, curthread)
         /\ Lists(Append(runqueue, t), sleepers, zombies, curthread, allocated, fresh, newguy')
         /\ Counted(Append(runqueue, t), sleepers, curthread)
              = Counted(runqueue, sleepers, curthread) \cup {t}
         /\ ToSet(Append(runqueue, t)) = ToSet(runqueue) \cup {t}
         /\ Lists(runqueue, sleepers, zombies, curthread, allocated \ {t}, fresh \ {t}, newguy')
         /\ Forking(newguy') = Forking(newguy) \ {t}
<1> USE ThreadAssumption
<1> DEFINE g == newguy'
           ng == newguy
           c == curthread
           q == Append(runqueue, t)
<1>1. /\ g \in [Thread -> Thread \cup {NULL}]
      /\ \A u \in Thread : g[u] = IF u = c THEN NULL ELSE ng[u]
      /\ t \in Thread /\ t = ng[c] /\ t # NULL /\ c \in Thread
  BY DEF Lists
<1>2. Lists(runqueue, sleepers, zombies, c, allocated, fresh, ng)
  OBVIOUS
<1> HIDE DEF g, ng, c
<1>3. t \in Forking(ng) /\ \A u \in Thread : ng[u] # NULL => ng[u] \in Forking(ng)
  BY <1>1 DEF Forking
<1>4. Forking(g) = Forking(ng) \ {t}
  <2>1. \A u \in Thread : u # c /\ ng[u] # NULL => ng[u] # t
    BY <1>1, <1>2 DEF Lists
  <2>. QED BY <1>1, <2>1 DEF Forking
<1>5. Present(c) = {c}
  BY <1>1 DEF Present
<1>6. q \in Seq(Thread) /\ ToSet(q) = ToSet(runqueue) \cup {t} /\ IsInjective(q)
  <2>1. t \notin ToSet(runqueue)
    BY <1>2, <1>3 DEF Lists
  <2>. QED BY <1>1, <1>2, <2>1, AppendFacts DEF Lists
<1> HIDE DEF q
<1>7. t \notin Counted(runqueue, sleepers, c) /\ Counted(q, sleepers, c) = Counted(runqueue, sleepers, c) \cup {t}
  BY <1>2, <1>3, <1>5, <1>6 DEF Lists, Counted
<1>8. /\ \A u \in Thread : g[u] # NULL => u \in ToSet(runqueue) \cup {c}
      /\ \A u, v \in Thread : g[u] = g[v] /\ g[u] # NULL => u = v
      /\ g \in [Thread -> Thread \cup {NULL}]
  BY <1>1, <1>2 DEF Lists
<1>9. /\ Forking(ng) \cap (ToSet(runqueue) \cup ToSet(sleepers) \cup ToSet(zombies) \cup {c}) = {}
      /\ allocated = ToSet(runqueue) \cup ToSet(sleepers) \cup ToSet(zombies) \cup Present(c) \cup Forking(ng)
      /\ fresh \subseteq ToSet(runqueue) \cup Forking(ng)
  BY <1>2 DEF Lists
<1>10. Lists(q, sleepers, zombies, c, allocated, fresh, g)
  <2>1. /\ ToSet(q) \cap ToSet(sleepers) = {} /\ ToSet(q) \cap ToSet(zombies) = {}
        /\ c \notin ToSet(q) /\ Forking(g) \cap (ToSet(q) \cup ToSet(sleepers) \cup ToSet(zombies) \cup {c}) = {}
        /\ allocated = ToSet(q) \cup ToSet(sleepers) \cup ToSet(zombies) \cup Present(c) \cup Forking(g)
        /\ fresh \subseteq ToSet(q) \cup Forking(g)
    BY <1>2, <1>3, <1>4, <1>6, <1>9 DEF Lists
  <2>. QED BY <1>2, <1>6, <1>8, <2>1 DEF Lists
<1>11. Lists(runqueue, sleepers, zombies, c, allocated \ {t}, fresh \ {t}, g)
  <2>1. /\ Forking(g) \cap (ToSet(runqueue) \cup ToSet(sleepers) \cup ToSet(zombies) \cup {c}) = {}
        /\ allocated \ {t} = ToSet(runqueue) \cup ToSet(sleepers) \cup ToSet(zombies) \cup Present(c) \cup Forking(g)
        /\ fresh \ {t} \subseteq ToSet(runqueue) \cup Forking(g)
    BY <1>3, <1>4, <1>5, <1>9
  <2>. QED BY <1>2, <1>8, <2>1 DEF Lists
<1>. QED BY <1>1, <1>4, <1>6, <1>7, <1>10, <1>11 DEF g, ng, c, q

-----------------------------------------------------------------------------
(* The inductive invariant. *)

\* What the processor will find when it switches from the stack on, with
\* in_interrupt = ii, to a thread of the lists: only a thread on the run queue
\* is inside mips_interrupt, which it entered from thread context, and the pcb
\* of any other says that it is not in an interrupt.
Context(rq, sl, ng, on, ii, pcb, oi) ==
  /\ oi[on] = NULL => ii = 0
  /\ \A t \in Thread : oi[t] # NULL => t \in ToSet(rq) /\ oi[t] = 0
  /\ \A t \in ToSet(rq) \cup ToSet(sl) \cup Forking(ng) : t # on /\ oi[t] = NULL => pcb[t] = 0

\* A sleeper has an address, and the running thread has none.
Addresses(sl, cur, slp) ==
  /\ \A t \in ToSet(sl) : slp[t] \in Addr
  /\ cur # NULL => slp[cur] = NULL

\* Room for every thread that is counted.
Room == numthreads <= runqueueMax /\ (numthreads > 1 => numthreads <= sleepersMax)

UpInv ==
  /\ Lists(runqueue, sleepers, zombies, curthread, allocated, fresh, newguy)
  /\ numthreads = Cardinality(Counted(runqueue, sleepers, curthread))
  /\ boot \in Counted(runqueue, sleepers, curthread)
  /\ in_interrupt = 0
  /\ Context(runqueue, sleepers, newguy, onstack, in_interrupt, pcb_ininterrupt, old_in)
  /\ Addresses(sleepers, curthread, t_sleepaddr)

ThreadInv ==
  /\ TypeOK /\ StackSafe /\ Room
  /\ up => UpInv
  /\ ~up => runqueue = <<>> /\ sleepers = <<>>

\* The types of what a context switch changes.
SwitchTypes ==
  /\ curthread \in Thread \cup {NULL} /\ onstack \in Thread
  /\ t_sleepaddr \in [Thread -> Addr \cup {NULL}]
  /\ in_interrupt \in {0, 1} /\ pcb_ininterrupt \in [Thread -> {0, 1}]
  /\ old_in \in [Thread -> {0, 1, NULL}]

\* After mi_switch has stashed cur, whatever list it went to, the switch keeps
\* the invariant.
LEMMA MiSwitchStep ==
  ASSUME NEW cur \in Thread, NEW rq, NEW zs, NEW slp \in [Thread -> Addr \cup {NULL}],
         NEW ii \in {0, 1}, NEW oi \in [Thread -> {0, 1, NULL}],
         TypeOK, cur = onstack, onstack \in allocated,
         Lists(rq, sleepers', zs, NULL, allocated, fresh, newguy),
         Context(rq, sleepers', newguy, cur, ii, pcb_ininterrupt, oi),
         Addresses(sleepers', NULL, slp),
         rq = <<>> => oi = old_in /\ in_interrupt = 0,
         MiSwitch(cur, rq, zs, slp, ii, oi), newguy' = newguy
  PROVE  /\ Lists(runqueue', sleepers', zombies', curthread', allocated', fresh', newguy')
         /\ Counted(runqueue', sleepers', curthread') = Counted(rq, sleepers', NULL)
         /\ in_interrupt' = 0
         /\ Context(runqueue', sleepers', newguy', onstack', in_interrupt', pcb_ininterrupt', old_in')
         /\ Addresses(sleepers', curthread', t_sleepaddr')
         /\ StackSafe' /\ SwitchTypes'
<1> USE ThreadAssumption
<1>1. CASE rq = <<>>
  <2>1. /\ curthread' = NULL /\ runqueue' = rq /\ zombies' = zs /\ t_sleepaddr' = slp
        /\ UNCHANGED <<onstack, in_interrupt, pcb_ininterrupt, old_in, allocated, fresh>>
    BY <1>1 DEF MiSwitch
  <2>2. Context(rq, sleepers', newguy, onstack, 0, pcb_ininterrupt, old_in)
    BY <1>1 DEF Context
  <2>3. StackSafe' /\ SwitchTypes'
    BY <2>1 DEF StackSafe, SwitchTypes, TypeOK
  <2>. QED BY <1>1, <2>1, <2>2, <2>3
<1>2. CASE rq # <<>>
  <2> DEFINE n == Head(rq)
             r == Tail(rq)
             res == IF cur = n THEN ii ELSE pcb_ininterrupt[n]
  <2>1. /\ SwitchTo(cur, n, zs, ii, oi) /\ runqueue' = r
        /\ t_sleepaddr' = [slp EXCEPT ![n] = NULL]
    BY <1>2 DEF MiSwitch
  <2>2. /\ n \in Thread /\ n \in ToSet(rq) /\ ToSet(rq) = ToSet(r) \cup {n}
        /\ n \notin ToSet(r)
    BY <1>2, HeadFacts DEF Lists
  <2>3. n \notin ToSet(sleepers') /\ n \notin ToSet(zs) /\ n \in allocated
    BY <2>2 DEF Lists
  <2>4. /\ Lists(r, sleepers', zs, n, allocated, fresh \ {n}, newguy)
        /\ Lists(r, sleepers', <<>>, n, allocated \ ToSet(zs), fresh \ {n}, newguy)
        /\ Counted(r, sleepers', n) = Counted(rq, sleepers', NULL)
    BY <1>2, ListsPick
  <2> HIDE DEF n, r
  <2>5. /\ curthread' = n /\ onstack' = n /\ fresh' = fresh \ {n}
        /\ old_in' = [oi EXCEPT ![n] = NULL]
        /\ pcb_ininterrupt' = IF cur = n THEN pcb_ininterrupt
                              ELSE [pcb_ininterrupt EXCEPT ![cur] = ii]
        /\ in_interrupt' = IF oi[n] = NULL THEN res ELSE oi[n]
        /\ \/ zombies' = zs /\ allocated' = allocated
           \/ zombies' = <<>> /\ allocated' = allocated \ ToSet(zs)
    BY <2>1 DEF SwitchTo, Exorcise
  <2>6. Lists(runqueue', sleepers', zombies', curthread', allocated', fresh', newguy')
    BY <2>1, <2>4, <2>5
  <2>7. in_interrupt' = 0
    BY <2>2, <2>5 DEF Context
  <2>8. Context(r, sleepers', newguy, n, 0, pcb_ininterrupt', old_in')
    <3>1. old_in' \in [Thread -> {0, 1, NULL}] /\ \A t \in Thread : old_in'[t] = IF t = n THEN NULL ELSE oi[t]
      BY <2>2, <2>5
    <3>2. \A t \in Thread : pcb_ininterrupt'[t] = IF t = cur /\ cur # n THEN ii ELSE pcb_ininterrupt[t]
      BY <2>5 DEF TypeOK
    <3>3. ToSet(r) \cup ToSet(sleepers') \cup Forking(newguy) \subseteq Thread
      BY <2>4 DEF Lists, ToSet, Forking
    <3>4. \A t \in Thread : old_in'[t] # NULL => t \in ToSet(r) /\ old_in'[t] = 0
      BY <2>2, <3>1 DEF Context
    <3>5. \A t \in ToSet(r) \cup ToSet(sleepers') \cup Forking(newguy) :
            t # n /\ old_in'[t] = NULL => pcb_ininterrupt'[t] = 0
      BY <2>2, <3>1, <3>2, <3>3 DEF Context
    <3>. QED BY <3>4, <3>5 DEF Context
  <2>9. Addresses(sleepers', n, t_sleepaddr')
    <3>1. ToSet(sleepers') \subseteq Thread
      BY <2>4 DEF Lists, ToSet
    <3>. QED BY <2>1, <2>2, <2>3, <3>1 DEF Addresses
  <2>10. StackSafe'
    BY <2>2, <2>3, <2>5 DEF StackSafe
  <2>11. SwitchTypes'
    <3>1. old_in' \in [Thread -> {0, 1, NULL}] /\ pcb_ininterrupt' \in [Thread -> {0, 1}]
      BY <2>2, <2>5 DEF TypeOK
    <3>2. t_sleepaddr' \in [Thread -> Addr \cup {NULL}]
      BY <2>1, <2>2
    <3>. QED BY <2>2, <2>5, <2>7, <3>1, <3>2 DEF SwitchTypes
  <2>. QED BY <2>1, <2>4, <2>5, <2>6, <2>7, <2>8, <2>9, <2>10, <2>11
<1>. QED BY <1>1, <1>2

\* The counted threads are some of the finitely many.
LEMMA CountedCard ==
  ASSUME NEW rq, NEW sl, NEW zs, NEW c, NEW al, NEW fr, NEW ng,
         Lists(rq, sl, zs, c, al, fr, ng)
  PROVE  /\ Counted(rq, sl, c) \subseteq Thread /\ IsFiniteSet(Counted(rq, sl, c))
         /\ Cardinality(Counted(rq, sl, c)) \in Nat
         /\ Cardinality(Thread) \in Nat
         /\ Cardinality(Counted(rq, sl, c)) <= Cardinality(Thread)
         /\ boot \in Counted(rq, sl, c) => Cardinality(Counted(rq, sl, c)) >= 1
<1> DEFINE C == Counted(rq, sl, c)
<1>1. C \subseteq Thread
  BY DEF Lists, Counted, ToSet, Present
<1> HIDE DEF C
<1>2. /\ IsFiniteSet(C) /\ Cardinality(C) \in Nat /\ Cardinality(C) <= Cardinality(Thread)
      /\ Cardinality(Thread) \in Nat
  BY <1>1, FS_Subset, FS_CardinalityType, ThreadAssumption
<1>3. boot \in C => Cardinality(C) >= 1
  BY <1>2, FS_EmptySet
<1>. QED BY <1>1, <1>2, <1>3 DEF C

\* The invariant from its parts, after a step of a system that stays up.
LEMMA Assemble ==
  ASSUME TypeOK, up' = up, up,
         Lists(runqueue', sleepers', zombies', curthread', allocated', fresh', newguy'),
         numthreads' = Cardinality(Counted(runqueue', sleepers', curthread')),
         boot \in Counted(runqueue', sleepers', curthread'),
         in_interrupt' = 0,
         Context(runqueue', sleepers', newguy', onstack', in_interrupt', pcb_ininterrupt', old_in'),
         Addresses(sleepers', curthread', t_sleepaddr'),
         StackSafe', SwitchTypes', Room',
         {sleepersMax', zombiesMax', runqueueMax'} \subseteq 0..(Cardinality(Thread) + RunqueueInit),
         lbolt_counter' \in 0 .. HZ - 1
  PROVE  ThreadInv'
<1>1. numthreads' \in 1 .. Cardinality(Thread)
  <2>1. /\ Cardinality(Counted(runqueue', sleepers', curthread')) \in Nat
        /\ Cardinality(Counted(runqueue', sleepers', curthread')) <= Cardinality(Thread)
        /\ Cardinality(Counted(runqueue', sleepers', curthread')) >= 1
        /\ Cardinality(Thread) \in Nat
    BY CountedCard
  <2>. QED BY <2>1
<1>2. /\ runqueue' \in Seq(Thread) /\ sleepers' \in Seq(Thread) /\ zombies' \in Seq(Thread)
      /\ allocated' \subseteq Thread /\ fresh' \subseteq allocated'
      /\ newguy' \in [Thread -> Thread \cup {NULL}]
  BY DEF Lists, ToSet, Present, Forking
<1>3. TypeOK'
  BY <1>1, <1>2 DEF TypeOK, SwitchTypes
<1>4. UpInv'
  BY DEF UpInv
<1>. QED BY <1>3, <1>4 DEF ThreadInv

\* A wakeup keeps the invariant's parts.
LEMMA WakeFacts ==
  ASSUME TypeOK, UpInv, NEW a
  PROVE  /\ Lists(runqueue \o Woken(a), StillAsleep(a), zombies, curthread, allocated, fresh, newguy)
         /\ Counted(runqueue \o Woken(a), StillAsleep(a), curthread)
              = Counted(runqueue, sleepers, curthread)
         /\ Context(runqueue \o Woken(a), StillAsleep(a), newguy, onstack, in_interrupt,
                    pcb_ininterrupt, old_in)
         /\ Addresses(StillAsleep(a), curthread, t_sleepaddr)
         /\ ToSet(runqueue \o Woken(a)) = ToSet(runqueue) \cup {t \in ToSet(sleepers) : t_sleepaddr[t] = a}
         /\ ToSet(StillAsleep(a)) = {t \in ToSet(sleepers) : t_sleepaddr[t] # a}
<1> DEFINE A == {t \in Thread : t_sleepaddr[t] = a}
<1>1. Woken(a) = Among(sleepers, A) /\ {t \in Thread : t_sleepaddr[t] # a} = Thread \ A
  BY DEF Woken
<1>2. StillAsleep(a) = Among(sleepers, Thread \ A)
  BY <1>1 DEF StillAsleep
<1>3. ToSet(sleepers) \subseteq Thread
  BY DEF UpInv, Lists, ToSet
<1>4. A \in SUBSET Thread
  OBVIOUS
<1>5. /\ Lists(runqueue \o Woken(a), StillAsleep(a), zombies, curthread, allocated, fresh, newguy)
      /\ Counted(runqueue \o Woken(a), StillAsleep(a), curthread)
           = Counted(runqueue, sleepers, curthread)
      /\ ToSet(runqueue \o Woken(a)) = ToSet(runqueue) \cup (ToSet(sleepers) \cap A)
      /\ ToSet(StillAsleep(a)) = ToSet(sleepers) \ A
  <2> DEFINE w == Among(sleepers, A)
             k == Among(sleepers, Thread \ A)
  <2> HIDE DEF A
  <2>1. /\ Lists(runqueue \o w, k, zombies, curthread, allocated, fresh, newguy)
        /\ Counted(runqueue \o w, k, curthread) = Counted(runqueue, sleepers, curthread)
        /\ ToSet(runqueue \o w) = ToSet(runqueue) \cup (ToSet(sleepers) \cap A)
        /\ ToSet(k) = ToSet(sleepers) \ A
    <3>1. Lists(runqueue, sleepers, zombies, curthread, allocated, fresh, newguy)
      BY DEF UpInv
    <3>. QED BY <1>4, <3>1, ListsWake
  <2>2. Woken(a) = w /\ StillAsleep(a) = k
    BY <1>1, <1>2
  <2> HIDE DEF w, k
  <2>. QED BY <2>1, <2>2
<1>6. /\ ToSet(runqueue \o Woken(a)) = ToSet(runqueue) \cup {t \in ToSet(sleepers) : t_sleepaddr[t] = a}
      /\ ToSet(StillAsleep(a)) = {t \in ToSet(sleepers) : t_sleepaddr[t] # a}
  BY <1>3, <1>5
<1>7. Context(runqueue \o Woken(a), StillAsleep(a), newguy, onstack, in_interrupt,
              pcb_ininterrupt, old_in)
  BY <1>6 DEF UpInv, Context
<1>8. Addresses(StillAsleep(a), curthread, t_sleepaddr)
  BY <1>6 DEF UpInv, Addresses
<1>. QED BY <1>5, <1>6, <1>7, <1>8

\* So does a tick of the clock, before it yields.
LEMMA TickFacts ==
  ASSUME TypeOK, UpInv, CountTick
  PROVE  /\ Lists(Ticked(runqueue), sleepers', zombies, curthread, allocated, fresh, newguy)
         /\ Counted(Ticked(runqueue), sleepers', curthread) = Counted(runqueue, sleepers, curthread)
         /\ Context(Ticked(runqueue), sleepers', newguy, onstack, in_interrupt,
                    pcb_ininterrupt, old_in)
         /\ Addresses(sleepers', curthread, t_sleepaddr)
         /\ lbolt_counter' \in 0 .. HZ - 1
<1>1. CASE LboltDue
  <2>1. Ticked(runqueue) = runqueue \o Woken(lbolt) /\ sleepers' = StillAsleep(lbolt)
        /\ lbolt_counter' = 0
    BY <1>1 DEF Ticked, CountTick
  <2>2. 0 \in 0 .. HZ - 1
    BY ThreadAssumption
  <2>. QED BY <2>1, <2>2, WakeFacts
<1>2. CASE ~LboltDue
  <2>1. Ticked(runqueue) = runqueue /\ sleepers' = sleepers /\ lbolt_counter' = lbolt_counter + 1
    BY <1>2 DEF Ticked, CountTick
  <2>2. lbolt_counter + 1 \in 0 .. HZ - 1
    BY <1>2, ThreadAssumption DEF LboltDue, TypeOK
  <2>. QED BY <2>1, <2>2 DEF UpInv
<1>. QED BY <1>1, <1>2

-----------------------------------------------------------------------------
(* Every action keeps the invariant. *)

\* Counting one thread less.
LEMMA CountLess ==
  ASSUME NEW S, IsFiniteSet(S), NEW t \in S
  PROVE  Cardinality(S \ {t}) = Cardinality(S) - 1
BY FS_RemoveElement

\* A new structure, not yet counted.
LEMMA CreateStep ==
  ASSUME ThreadInv, NEW t \in Thread, thread_create(t)
  PROVE  ThreadInv'
<1>1. up /\ up' = up /\ UpInv /\ TypeOK /\ StackSafe /\ Room /\ curthread \in Thread /\ newguy[curthread] = NULL
  BY DEF ThreadInv, thread_create, CanCall, Running, TypeOK
<1>2. /\ t \notin allocated /\ allocated' = allocated \cup {t}
      /\ t_sleepaddr' = [t_sleepaddr EXCEPT ![t] = NULL]
      /\ fresh' = fresh \cup {t} /\ pcb_ininterrupt' = [pcb_ininterrupt EXCEPT ![t] = 0]
      /\ newguy' = [newguy EXCEPT ![curthread] = t]
      /\ UNCHANGED <<curthread, onstack, in_interrupt, old_in, queues, capacity, numthreads, lbolt_counter, up>>
  BY DEF thread_create, md_initpcb
<1>3. UNCHANGED <<runqueue, sleepers, zombies, sleepersMax, zombiesMax, runqueueMax>>
  BY <1>2 DEF queues, capacity
<1>4. Lists(runqueue', sleepers', zombies', curthread', allocated', fresh', newguy')
  BY <1>1, <1>2, <1>3, ListsCreate DEF UpInv
<1>5. Forking(newguy') \subseteq Forking(newguy) \cup {t}
  BY <1>1, <1>2 DEF Forking, TypeOK
<1>6. Context(runqueue', sleepers', newguy', onstack', in_interrupt', pcb_ininterrupt', old_in')
  <2>1. pcb_ininterrupt' \in [Thread -> {0, 1}]
        /\ \A u \in Thread : pcb_ininterrupt'[u] = IF u = t THEN 0 ELSE pcb_ininterrupt[u]
    BY <1>1, <1>2 DEF TypeOK
  <2>2. ToSet(runqueue) \cup ToSet(sleepers) \cup Forking(newguy) \subseteq Thread
    BY <1>1 DEF UpInv, Lists, ToSet, Forking
  <2>. QED BY <1>1, <1>2, <1>3, <1>5, <2>1, <2>2 DEF Context, UpInv
<1>7. Addresses(sleepers', curthread', t_sleepaddr')
  <2>1. t \notin ToSet(sleepers) /\ ToSet(sleepers) \subseteq Thread
    BY <1>1, <1>2 DEF UpInv, Lists, ToSet
  <2>. QED BY <1>1, <1>2, <1>3, <2>1 DEF Addresses, UpInv, TypeOK
<1>8. SwitchTypes'
  BY <1>1, <1>2 DEF SwitchTypes, TypeOK
<1>9. StackSafe' /\ Room'
  BY <1>1, <1>2, <1>3 DEF StackSafe, Room
<1>10. {sleepersMax', zombiesMax', runqueueMax'} \subseteq 0..(Cardinality(Thread) + RunqueueInit)
  BY <1>1, <1>3 DEF TypeOK
<1>11. lbolt_counter' \in 0 .. HZ - 1
  BY <1>1, <1>2 DEF TypeOK
<1>12. /\ numthreads' = Cardinality(Counted(runqueue', sleepers', curthread'))
       /\ boot \in Counted(runqueue', sleepers', curthread') /\ in_interrupt' = 0
  BY <1>1, <1>2, <1>3 DEF UpInv
<1>. QED BY <1>1, <1>4, <1>6, <1>7, <1>8, <1>9, <1>10, <1>11, <1>12, Assemble

\* thread_fork makes it ready and counts it, with room for one more.
LEMMA ForkStep ==
  ASSUME ThreadInv, thread_fork
  PROVE  ThreadInv'
<1> DEFINE t == newguy[curthread]
<1>1. up /\ up' = up /\ UpInv /\ TypeOK /\ StackSafe /\ Room /\ curthread \in Thread /\ t # NULL
  BY ThreadAssumption DEF ThreadInv, thread_fork, Running, TypeOK
<1>2. /\ sleepersMax' = AtLeast(sleepersMax, numthreads + 1)
      /\ zombiesMax' = AtLeast(zombiesMax, numthreads + 1)
      /\ runqueueMax' = AtLeast(runqueueMax, numthreads + 1)
      /\ runqueue' = Append(runqueue, t) /\ numthreads' = numthreads + 1
      /\ newguy' = [newguy EXCEPT ![curthread] = NULL]
      /\ UNCHANGED <<curthread, onstack, in_interrupt, pcb_ininterrupt, old_in, sleepers, zombies,
                     t_sleepaddr, allocated, fresh, lbolt_counter>>
  BY DEF thread_fork, cpu
<1>3. /\ t \in Thread /\ t \notin Counted(runqueue, sleepers, curthread)
      /\ Lists(Append(runqueue, t), sleepers, zombies, curthread, allocated, fresh, newguy')
      /\ Counted(Append(runqueue, t), sleepers, curthread) = Counted(runqueue, sleepers, curthread) \cup {t}
      /\ ToSet(Append(runqueue, t)) = ToSet(runqueue) \cup {t}
      /\ Forking(newguy') = Forking(newguy) \ {t}
  <2>1. Lists(runqueue, sleepers, zombies, curthread, allocated, fresh, newguy)
    BY <1>1 DEF UpInv
  <2>2. t = newguy[curthread] /\ newguy[curthread] # NULL
    BY <1>1
  <2> HIDE DEF t
  <2>. QED BY <1>1, <1>2, <2>1, <2>2, ListsFork
<1> HIDE DEF t
<1>4. Lists(runqueue', sleepers', zombies', curthread', allocated', fresh', newguy')
  BY <1>2, <1>3
<1>5. numthreads' = Cardinality(Counted(runqueue', sleepers', curthread'))
  <2>1. IsFiniteSet(Counted(runqueue, sleepers, curthread))
    BY <1>1, CountedCard DEF UpInv
  <2>2. Cardinality(Counted(runqueue, sleepers, curthread) \cup {t})
          = Cardinality(Counted(runqueue, sleepers, curthread)) + 1
    BY <1>3, <2>1, FS_AddElement
  <2>. QED BY <1>1, <1>2, <1>3, <2>2 DEF UpInv
<1>6. boot \in Counted(runqueue', sleepers', curthread') /\ in_interrupt' = 0
  BY <1>1, <1>2, <1>3 DEF UpInv
<1>7. t \in Forking(newguy)
  BY <1>1 DEF t, Forking
<1>8. Context(runqueue', sleepers', newguy', onstack', in_interrupt', pcb_ininterrupt', old_in')
  <2>1. /\ ToSet(runqueue') = ToSet(runqueue) \cup {t}
        /\ Forking(newguy') \subseteq Forking(newguy)
    BY <1>2, <1>3
  <2>. QED BY <1>1, <1>2, <2>1, <1>7 DEF Context, UpInv
<1>9. Addresses(sleepers', curthread', t_sleepaddr') /\ StackSafe' /\ SwitchTypes'
  BY <1>1, <1>2 DEF UpInv, Addresses, StackSafe, SwitchTypes, TypeOK
<1>10. /\ Room' /\ lbolt_counter' \in 0 .. HZ - 1
       /\ {sleepersMax', zombiesMax', runqueueMax'} \subseteq 0..(Cardinality(Thread) + RunqueueInit)
  <2>1. numthreads' \in Nat /\ numthreads' <= Cardinality(Thread) /\ Cardinality(Thread) \in Nat
    BY <1>4, <1>5, CountedCard
  <2>2. numthreads \in Nat
    BY <1>1 DEF TypeOK
  <2> DEFINE top == Cardinality(Thread) + RunqueueInit
  <2>3. /\ sleepersMax \in 0 .. top /\ zombiesMax \in 0 .. top /\ runqueueMax \in 0 .. top
        /\ lbolt_counter \in 0 .. HZ - 1
    BY <1>1 DEF TypeOK
  <2>4. /\ sleepersMax' = AtLeast(sleepersMax, numthreads') /\ zombiesMax' = AtLeast(zombiesMax, numthreads')
        /\ runqueueMax' = AtLeast(runqueueMax, numthreads') /\ lbolt_counter' = lbolt_counter
    BY <1>2
  <2>5. top \in Nat /\ numthreads' <= top
    BY <2>1, ThreadAssumption
  <2>6. \A cap \in 0 .. top : AtLeast(cap, numthreads') \in 0 .. top /\ numthreads' <= AtLeast(cap, numthreads')
    BY <2>1, <2>5 DEF AtLeast
  <2> HIDE DEF top
  <2>7. Room'
    BY <2>3, <2>4, <2>6 DEF Room
  <2>8. {sleepersMax', zombiesMax', runqueueMax'} \subseteq 0 .. top
    BY <2>3, <2>4, <2>6
  <2>. QED BY <2>3, <2>4, <2>7, <2>8 DEF top
<1>. QED BY <1>1, <1>4, <1>5, <1>6, <1>8, <1>9, <1>10, Assemble

\* Without memory for the lists some slots stay, and the new thread is not
\* going to start.
LEMMA ForkFailStep ==
  ASSUME ThreadInv, NEW done \in 0 .. 2, thread_fork_fail(done)
  PROVE  ThreadInv'
<1> DEFINE t == newguy[curthread]
<1>1. up /\ up' = up /\ UpInv /\ TypeOK /\ StackSafe /\ Room /\ curthread \in Thread /\ t # NULL
  BY ThreadAssumption DEF ThreadInv, thread_fork_fail, Running, TypeOK
<1>2. /\ sleepersMax' = IF done >= 1 THEN AtLeast(sleepersMax, numthreads + 1) ELSE sleepersMax
      /\ zombiesMax' = IF done >= 2 THEN AtLeast(zombiesMax, numthreads + 1) ELSE zombiesMax
      /\ fresh' \subseteq fresh
      /\ UNCHANGED <<curthread, onstack, in_interrupt, pcb_ininterrupt, old_in, runqueue, sleepers,
                     zombies, runqueueMax, numthreads, t_sleepaddr, allocated, newguy, lbolt_counter>>
  BY DEF thread_fork_fail, cpu, queues
<1>3. t \in Forking(newguy) /\ t \in Thread
  BY <1>1, ThreadAssumption DEF Forking, TypeOK
<1>4. t \notin Counted(runqueue, sleepers, curthread)
  BY <1>1, <1>3 DEF UpInv, Lists, Counted, Present
<1> HIDE DEF t
<1>5. Lists(runqueue', sleepers', zombies', curthread', allocated', fresh', newguy')
  <2>1. Lists(runqueue, sleepers, zombies, curthread, allocated, fresh', newguy)
    BY <1>1, <1>2 DEF UpInv, Lists
  <2>. QED BY <1>2, <2>1
<1>6. /\ numthreads' = Cardinality(Counted(runqueue', sleepers', curthread'))
      /\ boot \in Counted(runqueue', sleepers', curthread') /\ in_interrupt' = 0
  BY <1>1, <1>2 DEF UpInv
<1>7. Context(runqueue', sleepers', newguy', onstack', in_interrupt', pcb_ininterrupt', old_in')
  BY <1>1, <1>2 DEF UpInv
<1>8. Addresses(sleepers', curthread', t_sleepaddr') /\ StackSafe' /\ SwitchTypes'
  BY <1>1, <1>2 DEF UpInv, Addresses, StackSafe, SwitchTypes, TypeOK
<1>9. /\ Room' /\ lbolt_counter' \in 0 .. HZ - 1
      /\ {sleepersMax', zombiesMax', runqueueMax'} \subseteq 0..(Cardinality(Thread) + RunqueueInit)
  <2>1. numthreads + 1 <= Cardinality(Thread) /\ Cardinality(Thread) \in Nat
    <3> DEFINE C == Counted(runqueue, sleepers, curthread)
    <3>1. IsFiniteSet(C) /\ C \subseteq Thread
      BY <1>1, CountedCard DEF UpInv
    <3>2. Cardinality(C \cup {t}) = Cardinality(C) + 1 /\ C \cup {t} \subseteq Thread
      BY <1>3, <1>4, <3>1, FS_AddElement
    <3>3. Cardinality(C \cup {t}) <= Cardinality(Thread) /\ Cardinality(Thread) \in Nat
      BY <3>2, ThreadAssumption, FS_Subset, FS_CardinalityType
    <3>. QED BY <1>1, <3>2, <3>3 DEF UpInv
  <2>2. numthreads \in Nat
    BY <1>1 DEF TypeOK
  <2>. QED BY <1>1, <1>2, <2>1, <2>2, ThreadAssumption DEF AtLeast, Room, TypeOK
<1>. QED BY <1>1, <1>5, <1>6, <1>7, <1>8, <1>9, Assemble

\* The new structure is freed again.
LEMMA ForkFreeStep ==
  ASSUME ThreadInv, thread_fork_free
  PROVE  ThreadInv'
<1> DEFINE t == newguy[curthread]
<1>1. /\ up /\ up' = up /\ UpInv /\ TypeOK /\ StackSafe /\ Room /\ curthread \in Thread
      /\ t # NULL /\ t \notin fresh
  BY ThreadAssumption DEF ThreadInv, thread_fork_free, Running, TypeOK
<1>2. /\ allocated' = allocated \ {t}
      /\ newguy' = [newguy EXCEPT ![curthread] = NULL]
      /\ UNCHANGED <<curthread, onstack, in_interrupt, pcb_ininterrupt, old_in, runqueue, sleepers,
                     zombies, sleepersMax, zombiesMax, runqueueMax, numthreads, t_sleepaddr, fresh,
                     lbolt_counter>>
  BY DEF thread_fork_free, cpu, queues, capacity
<1>3. /\ t \notin Counted(runqueue, sleepers, curthread)
      /\ Lists(runqueue, sleepers, zombies, curthread, allocated \ {t}, fresh \ {t}, newguy')
      /\ Forking(newguy') = Forking(newguy) \ {t} /\ t \in Thread
  <2>1. Lists(runqueue, sleepers, zombies, curthread, allocated, fresh, newguy)
    BY <1>1 DEF UpInv
  <2>2. t = newguy[curthread] /\ newguy[curthread] # NULL
    BY <1>1
  <2> HIDE DEF t
  <2>. QED BY <1>1, <1>2, <2>1, <2>2, ListsFork
<1> HIDE DEF t
<1>4. Lists(runqueue', sleepers', zombies', curthread', allocated', fresh', newguy')
  <2>1. fresh \ {t} = fresh
    BY <1>1
  <2>. QED BY <1>2, <1>3, <2>1
<1>5. /\ numthreads' = Cardinality(Counted(runqueue', sleepers', curthread'))
      /\ boot \in Counted(runqueue', sleepers', curthread') /\ in_interrupt' = 0
  BY <1>1, <1>2 DEF UpInv
<1>6. Context(runqueue', sleepers', newguy', onstack', in_interrupt', pcb_ininterrupt', old_in')
  BY <1>1, <1>2, <1>3 DEF Context, UpInv
<1>7. Addresses(sleepers', curthread', t_sleepaddr') /\ SwitchTypes'
  BY <1>1, <1>2 DEF UpInv, Addresses, SwitchTypes, TypeOK
<1>8. StackSafe'
  BY <1>1, <1>2, <1>3, ThreadAssumption DEF StackSafe, Counted, Present
<1>9. /\ Room' /\ lbolt_counter' \in 0 .. HZ - 1
      /\ {sleepersMax', zombiesMax', runqueueMax'} \subseteq 0..(Cardinality(Thread) + RunqueueInit)
  BY <1>1, <1>2 DEF Room, TypeOK
<1>. QED BY <1>1, <1>4, <1>5, <1>6, <1>7, <1>8, <1>9, Assemble

\* What the steps that end in mi_switch have in common: the invariant follows
\* from the state after the stash, if as many threads are counted.
LEMMA SwitchStep ==
  ASSUME ThreadInv, up, up' = up, newguy' = newguy, UNCHANGED capacity,
         lbolt_counter' \in 0 .. HZ - 1,
         NEW rq, NEW zs, NEW slp \in [Thread -> Addr \cup {NULL}],
         NEW ii \in {0, 1}, NEW oi \in [Thread -> {0, 1, NULL}],
         Lists(rq, sleepers', zs, NULL, allocated, fresh, newguy),
         Context(rq, sleepers', newguy, onstack, ii, pcb_ininterrupt, oi),
         Addresses(sleepers', NULL, slp),
         rq = <<>> => oi = old_in,
         MiSwitch(onstack, rq, zs, slp, ii, oi),
         numthreads' <= numthreads,
         numthreads' = Cardinality(Counted(rq, sleepers', NULL)),
         boot \in Counted(rq, sleepers', NULL)
  PROVE  ThreadInv'
<1>1. TypeOK /\ StackSafe /\ Room /\ UpInv
  BY DEF ThreadInv
<1>2. onstack \in Thread /\ onstack \in allocated /\ in_interrupt = 0
  BY <1>1 DEF TypeOK, StackSafe, UpInv
<1>3. /\ Lists(runqueue', sleepers', zombies', curthread', allocated', fresh', newguy')
      /\ Counted(runqueue', sleepers', curthread') = Counted(rq, sleepers', NULL)
      /\ in_interrupt' = 0
      /\ Context(runqueue', sleepers', newguy', onstack', in_interrupt', pcb_ininterrupt', old_in')
      /\ Addresses(sleepers', curthread', t_sleepaddr')
      /\ StackSafe' /\ SwitchTypes'
  BY <1>1, <1>2, MiSwitchStep
<1>4. UNCHANGED <<sleepersMax, zombiesMax, runqueueMax>>
  BY DEF capacity
<1>5. numthreads' \in Nat
  BY CountedCard
<1>6. Room' /\ {sleepersMax', zombiesMax', runqueueMax'} \subseteq 0..(Cardinality(Thread) + RunqueueInit)
  <2>1. Cardinality(Thread) + RunqueueInit \in Nat /\ Cardinality(Thread) \in Nat
    BY CountedCard, ThreadAssumption
  <2>. QED BY <1>1, <1>4, <1>5, <2>1 DEF Room, TypeOK
<1>. QED BY <1>1, <1>3, <1>4, <1>6, Assemble

\* thread_yield: the caller goes to the tail of the run queue.
LEMMA YieldStep ==
  ASSUME ThreadInv, thread_yield
  PROVE  ThreadInv'
<1>1. /\ up /\ up' = up /\ UpInv /\ TypeOK /\ StackSafe /\ curthread \in Thread
      /\ onstack = curthread
  BY DEF ThreadInv, thread_yield, CanCall, Running, TypeOK, StackSafe
<1>2. /\ MiSwitch(onstack, Append(runqueue, curthread), zombies, t_sleepaddr, in_interrupt, old_in)
      /\ UNCHANGED <<sleepers, capacity, numthreads, newguy, lbolt_counter>>
  BY <1>1 DEF thread_yield
<1> DEFINE rq == Append(runqueue, curthread)
<1>3. /\ Lists(rq, sleepers, zombies, NULL, allocated, fresh, newguy)
      /\ Counted(rq, sleepers, NULL) = Counted(runqueue, sleepers, curthread)
  BY <1>1, ListsReady DEF UpInv
<1>4. ToSet(rq) = ToSet(runqueue) \cup {curthread} /\ rq # <<>>
  BY <1>1, AppendFacts DEF TypeOK
<1> HIDE DEF rq
<1>5. Context(rq, sleepers, newguy, onstack, in_interrupt, pcb_ininterrupt, old_in)
  BY <1>1, <1>4 DEF UpInv, Context
<1>6. Addresses(sleepers, NULL, t_sleepaddr)
  BY <1>1 DEF UpInv, Addresses
<1>7. numthreads' = Cardinality(Counted(rq, sleepers, NULL)) /\ boot \in Counted(rq, sleepers, NULL)
  BY <1>1, <1>2, <1>3 DEF UpInv
<1>8. /\ t_sleepaddr \in [Thread -> Addr \cup {NULL}] /\ in_interrupt \in {0, 1}
      /\ old_in \in [Thread -> {0, 1, NULL}] /\ lbolt_counter' \in 0 .. HZ - 1 /\ numthreads' <= numthreads
  BY <1>1, <1>2 DEF TypeOK
<1>9. MiSwitch(onstack, rq, zombies, t_sleepaddr, in_interrupt, old_in)
  BY <1>2 DEF rq
<1>10. sleepers' = sleepers /\ newguy' = newguy /\ UNCHANGED capacity
  BY <1>2
<1>. QED BY <1>1, <1>3, <1>4, <1>5, <1>6, <1>7, <1>8, <1>9, <1>10, SwitchStep

\* thread_sleep: the caller goes to sleepers.
LEMMA SleepStep ==
  ASSUME ThreadInv, NEW a \in Addr, thread_sleep(a)
  PROVE  ThreadInv'
<1>1. /\ up /\ up' = up /\ UpInv /\ TypeOK /\ StackSafe /\ curthread \in Thread
      /\ onstack = curthread /\ newguy[curthread] = NULL
  BY DEF ThreadInv, thread_sleep, CanCall, Running, TypeOK, StackSafe
<1> DEFINE slp == [t_sleepaddr EXCEPT ![curthread] = a]
<1>2. /\ MiSwitch(onstack, runqueue, zombies, slp, in_interrupt, old_in)
      /\ sleepers' = Append(sleepers, curthread)
      /\ UNCHANGED <<capacity, numthreads, newguy, lbolt_counter>>
  BY <1>1 DEF thread_sleep
<1>3. /\ Lists(runqueue, sleepers', zombies, NULL, allocated, fresh, newguy)
      /\ Counted(runqueue, sleepers', NULL) = Counted(runqueue, sleepers, curthread)
  BY <1>1, <1>2, ListsSleep DEF UpInv
<1>4. ToSet(sleepers') = ToSet(sleepers) \cup {curthread}
  BY <1>1, <1>2, AppendFacts DEF TypeOK
<1>5. Context(runqueue, sleepers', newguy, onstack, in_interrupt, pcb_ininterrupt, old_in)
  BY <1>1, <1>4 DEF UpInv, Context
<1>6. slp \in [Thread -> Addr \cup {NULL}] /\ Addresses(sleepers', NULL, slp)
  <2>1. ToSet(sleepers) \subseteq Thread
    BY <1>1 DEF UpInv, Lists, ToSet
  <2>2. \A t \in Thread : slp[t] = IF t = curthread THEN a ELSE t_sleepaddr[t]
    BY <1>1 DEF TypeOK
  <2>3. slp \in [Thread -> Addr \cup {NULL}]
    BY <1>1 DEF TypeOK
  <2> HIDE DEF slp
  <2>. QED BY <1>1, <1>4, <2>1, <2>2, <2>3 DEF UpInv, Addresses
<1>7. numthreads' = Cardinality(Counted(runqueue, sleepers', NULL)) /\ boot \in Counted(runqueue, sleepers', NULL)
  BY <1>1, <1>2, <1>3 DEF UpInv
<1>8. /\ in_interrupt \in {0, 1} /\ old_in \in [Thread -> {0, 1, NULL}]
      /\ lbolt_counter' \in 0 .. HZ - 1 /\ numthreads' <= numthreads
  BY <1>1, <1>2 DEF TypeOK
<1>9. newguy' = newguy /\ UNCHANGED capacity
  BY <1>2
<1> HIDE DEF slp
<1>. QED BY <1>1, <1>2, <1>3, <1>5, <1>6, <1>7, <1>8, <1>9, SwitchStep

\* thread_exit: the caller, which is not the first thread, goes to zombies.
LEMMA ExitStep ==
  ASSUME ThreadInv, thread_exit
  PROVE  ThreadInv'
<1>1. /\ up /\ up' = up /\ UpInv /\ TypeOK /\ StackSafe /\ curthread \in Thread
      /\ onstack = curthread /\ newguy[curthread] = NULL /\ curthread # boot
  BY DEF ThreadInv, thread_exit, CanCall, Running, TypeOK, StackSafe
<1> DEFINE zs == Append(zombies, curthread)
<1>2. /\ MiSwitch(onstack, runqueue, zs, t_sleepaddr, in_interrupt, old_in)
      /\ numthreads' = numthreads - 1
      /\ UNCHANGED <<sleepers, capacity, newguy, lbolt_counter>>
  BY <1>1 DEF thread_exit
<1>3. /\ Lists(runqueue, sleepers, zs, NULL, allocated, fresh, newguy)
      /\ Counted(runqueue, sleepers, NULL) = Counted(runqueue, sleepers, curthread) \ {curthread}
      /\ curthread \in Counted(runqueue, sleepers, curthread)
  BY <1>1, ListsExit DEF UpInv
<1> HIDE DEF zs
<1>4. Context(runqueue, sleepers, newguy, onstack, in_interrupt, pcb_ininterrupt, old_in)
  BY <1>1 DEF UpInv
<1>5. Addresses(sleepers, NULL, t_sleepaddr)
  BY <1>1 DEF UpInv, Addresses
<1>6. numthreads' = Cardinality(Counted(runqueue, sleepers, NULL)) /\ boot \in Counted(runqueue, sleepers, NULL)
  <2>1. IsFiniteSet(Counted(runqueue, sleepers, curthread))
    BY <1>1, CountedCard DEF UpInv
  <2>2. Cardinality(Counted(runqueue, sleepers, NULL)) = Cardinality(Counted(runqueue, sleepers, curthread)) - 1
    BY <1>3, <2>1, CountLess
  <2>. QED BY <1>1, <1>2, <1>3, <2>2 DEF UpInv
<1>7. /\ t_sleepaddr \in [Thread -> Addr \cup {NULL}] /\ in_interrupt \in {0, 1}
      /\ old_in \in [Thread -> {0, 1, NULL}] /\ lbolt_counter' \in 0 .. HZ - 1
      /\ numthreads' <= numthreads
  BY <1>1, <1>2 DEF TypeOK
<1>8. sleepers' = sleepers /\ newguy' = newguy /\ UNCHANGED capacity
  BY <1>2
<1>9. /\ Lists(runqueue, sleepers', zs, NULL, allocated, fresh, newguy)
      /\ Context(runqueue, sleepers', newguy, onstack, in_interrupt, pcb_ininterrupt, old_in)
      /\ Addresses(sleepers', NULL, t_sleepaddr)
      /\ numthreads' = Cardinality(Counted(runqueue, sleepers', NULL))
      /\ boot \in Counted(runqueue, sleepers', NULL)
  BY <1>3, <1>4, <1>5, <1>6, <1>8
<1>10. MiSwitch(onstack, runqueue, zs, t_sleepaddr, in_interrupt, old_in)
  BY <1>2
<1>11. up /\ up' = up
  BY <1>1
<1>. QED BY <1>7, <1>8, <1>9, <1>10, <1>11, SwitchStep

\* hardclock ticks and yields from inside the interrupt.
LEMMA HardclockStep ==
  ASSUME ThreadInv, hardclock
  PROVE  ThreadInv'
<1>1. /\ up /\ up' = up /\ UpInv /\ TypeOK /\ StackSafe /\ curthread \in Thread
      /\ onstack = curthread /\ CountTick
  BY DEF ThreadInv, hardclock, Running, TypeOK, StackSafe
<1> DEFINE q == Ticked(runqueue)
           rq == Append(q, curthread)
           oi == [old_in EXCEPT ![curthread] = in_interrupt]
<1>2. /\ MiSwitch(onstack, rq, zombies, t_sleepaddr, 1, oi)
      /\ UNCHANGED <<capacity, numthreads, newguy>>
  BY <1>1 DEF hardclock
<1>3. /\ Lists(q, sleepers', zombies, curthread, allocated, fresh, newguy)
      /\ Counted(q, sleepers', curthread) = Counted(runqueue, sleepers, curthread)
      /\ Context(q, sleepers', newguy, onstack, in_interrupt, pcb_ininterrupt, old_in)
      /\ Addresses(sleepers', curthread, t_sleepaddr)
      /\ lbolt_counter' \in 0 .. HZ - 1
  BY <1>1, TickFacts
<1> HIDE DEF q
<1>4. /\ Lists(rq, sleepers', zombies, NULL, allocated, fresh, newguy)
      /\ Counted(rq, sleepers', NULL) = Counted(runqueue, sleepers, curthread)
  BY <1>1, <1>3, ListsReady
<1>5. ToSet(rq) = ToSet(q) \cup {curthread} /\ rq # <<>>
  BY <1>1, <1>3, AppendFacts DEF Lists
<1>6. oi \in [Thread -> {0, 1, NULL}] /\ \A t \in Thread : oi[t] = IF t = curthread THEN 0 ELSE old_in[t]
  BY <1>1 DEF TypeOK, UpInv
<1> HIDE DEF rq, oi
<1>7. Context(rq, sleepers', newguy, onstack, 1, pcb_ininterrupt, oi)
  <2>1. ToSet(rq) \cup ToSet(sleepers') \cup Forking(newguy) \subseteq Thread
    BY <1>4 DEF Lists, ToSet, Forking
  <2>2. oi[onstack] # NULL
    BY <1>1, <1>6, ThreadAssumption
  <2>3. \A t \in Thread : oi[t] # NULL => t \in ToSet(rq) /\ oi[t] = 0
    BY <1>3, <1>5, <1>6 DEF Context
  <2>4. \A t \in ToSet(rq) \cup ToSet(sleepers') \cup Forking(newguy) :
          t # onstack /\ oi[t] = NULL => pcb_ininterrupt[t] = 0
    BY <1>1, <1>3, <1>5, <1>6, <2>1 DEF Context
  <2>. QED BY <2>2, <2>3, <2>4 DEF Context
<1>8. Addresses(sleepers', NULL, t_sleepaddr)
  BY <1>3 DEF Addresses
<1>9. numthreads' = Cardinality(Counted(rq, sleepers', NULL)) /\ boot \in Counted(rq, sleepers', NULL)
  BY <1>1, <1>2, <1>4 DEF UpInv
<1>10. /\ t_sleepaddr \in [Thread -> Addr \cup {NULL}] /\ numthreads' <= numthreads
  BY <1>1, <1>2 DEF TypeOK
<1>11. newguy' = newguy /\ UNCHANGED capacity
  BY <1>2
<1>. QED BY <1>1, <1>2, <1>3, <1>4, <1>5, <1>6, <1>7, <1>8, <1>9, <1>10, <1>11, SwitchStep

\* scheduler() leaves the idle loop.
LEMMA SchedulerStep ==
  ASSUME ThreadInv, scheduler
  PROVE  ThreadInv'
<1>1. /\ up /\ up' = up /\ UpInv /\ TypeOK /\ curthread = NULL /\ runqueue # <<>>
      /\ MiSwitch(onstack, runqueue, zombies, t_sleepaddr, in_interrupt, old_in)
      /\ sleepers' = sleepers /\ newguy' = newguy
      /\ UNCHANGED <<capacity, numthreads, lbolt_counter>>
  BY DEF ThreadInv, scheduler, Idle
<1>2. /\ Lists(runqueue, sleepers', zombies, NULL, allocated, fresh, newguy)
      /\ Context(runqueue, sleepers', newguy, onstack, in_interrupt, pcb_ininterrupt, old_in)
      /\ Addresses(sleepers', NULL, t_sleepaddr)
      /\ numthreads' = Cardinality(Counted(runqueue, sleepers', NULL))
      /\ boot \in Counted(runqueue, sleepers', NULL)
  BY <1>1 DEF UpInv
<1>3. /\ t_sleepaddr \in [Thread -> Addr \cup {NULL}] /\ in_interrupt \in {0, 1}
      /\ old_in \in [Thread -> {0, 1, NULL}] /\ lbolt_counter' \in 0 .. HZ - 1
      /\ numthreads' <= numthreads
  BY <1>1 DEF TypeOK
<1>. QED BY <1>1, <1>2, <1>3, SwitchStep

\* thread_wakeup, and the clock in the idle loop.
LEMMA WakeStep ==
  ASSUME ThreadInv, (\E a \in Addr : thread_wakeup(a)) \/ hardclock_idle
  PROVE  ThreadInv'
<1>1. /\ up /\ up' = up /\ UpInv /\ TypeOK /\ StackSafe /\ Room
      /\ UNCHANGED <<cpu, zombies, capacity, numthreads, t_sleepaddr, allocated, fresh, newguy>>
  BY DEF ThreadInv, thread_wakeup, hardclock_idle, Idle
<1>2. /\ Lists(runqueue', sleepers', zombies, curthread, allocated, fresh, newguy)
      /\ Counted(runqueue', sleepers', curthread) = Counted(runqueue, sleepers, curthread)
      /\ Context(runqueue', sleepers', newguy, onstack, in_interrupt, pcb_ininterrupt, old_in)
      /\ Addresses(sleepers', curthread, t_sleepaddr)
      /\ lbolt_counter' \in 0 .. HZ - 1
  <2>1. CASE \E a \in Addr : thread_wakeup(a)
    <3>1. PICK a \in Addr : thread_wakeup(a)
      BY <2>1
    <3>2. runqueue' = runqueue \o Woken(a) /\ sleepers' = StillAsleep(a) /\ lbolt_counter' = lbolt_counter
      BY <3>1 DEF thread_wakeup
    <3>3. lbolt_counter' \in 0 .. HZ - 1
      BY <1>1, <3>2 DEF TypeOK
    <3>. QED BY <1>1, <3>2, <3>3, WakeFacts
  <2>2. CASE hardclock_idle
    <3>1. CountTick /\ runqueue' = Ticked(runqueue)
      BY <2>2 DEF hardclock_idle
    <3>. QED BY <1>1, <3>1, TickFacts
  <2>. QED BY <2>1, <2>2
<1>3. UNCHANGED <<curthread, onstack, in_interrupt, pcb_ininterrupt, old_in, zombies, sleepersMax,
                  zombiesMax, runqueueMax, numthreads, t_sleepaddr, allocated, fresh, newguy>>
  BY <1>1 DEF cpu, capacity
<1>4. /\ numthreads' = Cardinality(Counted(runqueue', sleepers', curthread'))
      /\ boot \in Counted(runqueue', sleepers', curthread') /\ in_interrupt' = 0
  BY <1>1, <1>2, <1>3 DEF UpInv
<1>5. /\ SwitchTypes' /\ StackSafe' /\ Room'
      /\ {sleepersMax', zombiesMax', runqueueMax'} \subseteq 0..(Cardinality(Thread) + RunqueueInit)
  BY <1>1, <1>3 DEF SwitchTypes, StackSafe, Room, TypeOK
<1>6. /\ Lists(runqueue', sleepers', zombies', curthread', allocated', fresh', newguy')
      /\ Context(runqueue', sleepers', newguy', onstack', in_interrupt', pcb_ininterrupt', old_in')
      /\ Addresses(sleepers', curthread', t_sleepaddr')
  BY <1>2, <1>3
<1>. QED BY <1>1, <1>2, <1>4, <1>5, <1>6, Assemble

\* The end of the system.
LEMMA DownStep ==
  ASSUME ThreadInv, thread_panic \/ shutdown \/ cpu_halt
  PROVE  ThreadInv'
<1>1. CASE thread_panic \/ shutdown
  <2>1. /\ runqueue' = <<>> /\ sleepers' = <<>> /\ up' = FALSE
        /\ zombies' \in {zombies, <<>>}
        /\ UNCHANGED <<cpu, capacity, numthreads, t_sleepaddr, allocated, fresh, newguy, lbolt_counter>>
    BY <1>1 DEF thread_panic, shutdown, thread_killall, scheduler_killall, thread_shutdown
  <2>2. <<>> \in Seq(Thread)
    OBVIOUS
  <2>. QED BY <2>1, <2>2 DEF ThreadInv, TypeOK, StackSafe, Room, cpu, capacity
<1>2. CASE cpu_halt
  BY <1>2 DEF cpu_halt, vars, cpu, queues, capacity, ThreadInv, TypeOK, StackSafe, Room
<1>. QED BY <1>1, <1>2

\* The thread system at boot satisfies the invariant.
LEMMA ThreadInvInit == Init => ThreadInv
<1> SUFFICES ASSUME Init PROVE ThreadInv
  OBVIOUS
<1> USE ThreadAssumption DEF Init, scheduler_bootstrap
<1>1. Cardinality(Thread) \in Nat \ {0}
  BY FS_CardinalityType, FS_EmptySet
<1>2. <<>> \in Seq(Thread) /\ ToSet(<<>>) = {} /\ IsInjective(<<>>)
  BY DEF ToSet, IsInjective
<1>3. Present(boot) = {boot} /\ Forking(newguy) = {}
  BY DEF Present, Forking
<1>4. Lists(runqueue, sleepers, zombies, curthread, allocated, fresh, newguy)
  BY <1>2, <1>3 DEF Lists
<1>5. Counted(runqueue, sleepers, curthread) = {boot} /\ Cardinality({boot}) = 1
  BY <1>2, <1>3, FS_Singleton DEF Counted
<1>6. UpInv
  BY <1>2, <1>3, <1>4, <1>5 DEF UpInv, Context, Addresses
<1>7. TypeOK
  BY <1>1, <1>2 DEF TypeOK
<1>8. StackSafe /\ Room
  BY DEF StackSafe, Room
<1>. QED BY <1>6, <1>7, <1>8 DEF ThreadInv

\* One step of the thread system.
LEMMA ThreadInvNext == ThreadInv /\ [Next]_vars => ThreadInv'
<1> SUFFICES ASSUME ThreadInv, [Next]_vars PROVE ThreadInv'
  OBVIOUS
<1>1. CASE UNCHANGED vars
  <2>1. UNCHANGED <<curthread, onstack, runqueue, sleepers, zombies, numthreads, t_sleepaddr, allocated,
                    fresh, newguy, in_interrupt, pcb_ininterrupt, old_in, lbolt_counter, sleepersMax,
                    zombiesMax, runqueueMax, up>>
    BY <1>1 DEF vars, cpu, queues, capacity
  <2>2. TypeOK' /\ StackSafe' /\ Room'
    BY <2>1 DEF ThreadInv, TypeOK, StackSafe, Room
  <2>3. up => UpInv'
    BY <2>1 DEF ThreadInv, UpInv
  <2>. QED BY <2>1, <2>2, <2>3 DEF ThreadInv
<1>. QED BY <1>1, CreateStep, ForkStep, ForkFailStep, ForkFreeStep, YieldStep, SleepStep, WakeStep, ExitStep,
            HardclockStep, SchedulerStep, DownStep DEF Next

\* The inductive invariant holds in every state of the thread system.
THEOREM ThreadInvariant == Spec => []ThreadInv
BY ThreadInvInit, ThreadInvNext, PTL DEF Spec

\* Every variable of the thread system keeps its type; in particular numthreads
\* is never 0 and never more than there are structures.
THEOREM ThreadTypeCorrect == Spec => []TypeOK
<1>1. ThreadInv => TypeOK
  BY DEF ThreadInv
<1>. QED BY <1>1, ThreadInvariant, PTL

\* The stack in use is never freed.
THEOREM StackIsSafe == Spec => []StackSafe
<1>1. ThreadInv => StackSafe
  BY DEF ThreadInv
<1>. QED BY <1>1, ThreadInvariant, PTL

\* A thread that executes its own code is in no interrupt handler.
THEOREM ContextIsClean == Spec => []CleanContext
<1>1. ThreadInv => CleanContext
  <2> SUFFICES ASSUME ThreadInv, Running PROVE in_interrupt = 0 /\ old_in[curthread] = NULL
                                              /\ t_sleepaddr[curthread] = NULL
    BY DEF CleanContext
  <2>1. UpInv /\ curthread # NULL /\ curthread \in Thread
    BY DEF ThreadInv, Running, TypeOK
  <2>2. curthread \notin ToSet(runqueue)
    BY <2>1 DEF UpInv, Lists
  <2>. QED BY <2>1, <2>2 DEF UpInv, Context, Addresses
<1>. QED BY <1>1, ThreadInvariant, PTL

-----------------------------------------------------------------------------
(* Counting. *)

\* A thread is on an injective list once or not at all.
LEMMA OnceOnList ==
  ASSUME NEW s \in Seq(Thread), IsInjective(s), NEW t
  PROVE  Cardinality({i \in DOMAIN s : s[i] = t}) = IF t \in ToSet(s) THEN 1 ELSE 0
<1>1. CASE t \in ToSet(s)
  <2>1. PICK i \in DOMAIN s : s[i] = t
    BY <1>1 DEF ToSet
  <2>2. {j \in DOMAIN s : s[j] = t} = {i}
    BY <2>1 DEF IsInjective
  <2>. QED BY <1>1, <2>2, FS_Singleton
<1>2. CASE t \notin ToSet(s)
  <2>1. {j \in DOMAIN s : s[j] = t} = {}
    BY <1>2 DEF ToSet
  <2>. QED BY <1>2, <2>1, FS_EmptySet
<1>. QED BY <1>1, <1>2

\* Every structure is in one place, and numthreads is the number of those that
\* are neither zombies nor being forked.
THEOREM ThreadsAreConserved == Spec => []ThreadsConserved
<1>1. ASSUME ThreadInv, up PROVE /\ \A t \in Thread : Places(t) = IF t \in allocated THEN 1 ELSE 0
                                 /\ numthreads = Cardinality(allocated \ (ToSet(zombies) \cup BeingForked))
  <2>1. UpInv /\ TypeOK
    BY <1>1 DEF ThreadInv
  <2>2. Lists(runqueue, sleepers, zombies, curthread, allocated, fresh, newguy)
    BY <2>1 DEF UpInv
  <2>3. BeingForked = Forking(newguy)
    BY DEF BeingForked, Forking
  <2>4. allocated \ (ToSet(zombies) \cup BeingForked) = Counted(runqueue, sleepers, curthread)
    BY <2>2, <2>3 DEF Lists, Counted, Present
  <2>5. ASSUME NEW t \in Thread PROVE Places(t) = IF t \in allocated THEN 1 ELSE 0
    <3>1. Cardinality({i \in DOMAIN runqueue : runqueue[i] = t}) = IF t \in ToSet(runqueue) THEN 1 ELSE 0
      BY <2>2, OnceOnList DEF Lists
    <3>2. Cardinality({i \in DOMAIN sleepers : sleepers[i] = t}) = IF t \in ToSet(sleepers) THEN 1 ELSE 0
      BY <2>2, OnceOnList DEF Lists
    <3>3. Cardinality({i \in DOMAIN zombies : zombies[i] = t}) = IF t \in ToSet(zombies) THEN 1 ELSE 0
      BY <2>2, OnceOnList DEF Lists
    <3>4. Cardinality({t} \cap {curthread}) = IF t = curthread THEN 1 ELSE 0
      <4>1. t = curthread => {t} \cap {curthread} = {t}
        OBVIOUS
      <4>2. t # curthread => {t} \cap {curthread} = {}
        OBVIOUS
      <4>. QED BY <4>1, <4>2, FS_Singleton, FS_EmptySet
    <3>5. Cardinality({u \in Thread : newguy[u] = t}) = IF t \in Forking(newguy) THEN 1 ELSE 0
      <4>1. CASE t \in Forking(newguy)
        <5>1. PICK u \in Thread : newguy[u] = t
          BY <4>1 DEF Forking
        <5>2. {v \in Thread : newguy[v] = t} = {u}
          BY <2>2, <5>1, ThreadAssumption DEF Lists
        <5>. QED BY <4>1, <5>2, FS_Singleton
      <4>2. CASE t \notin Forking(newguy)
        <5>1. {v \in Thread : newguy[v] = t} = {}
          BY <4>2, ThreadAssumption DEF Forking
        <5>. QED BY <4>2, <5>1, FS_EmptySet
      <4>. QED BY <4>1, <4>2
    <3>6. t \in allocated <=> \/ t \in ToSet(runqueue) \/ t \in ToSet(sleepers) \/ t \in ToSet(zombies)
                              \/ t = curthread \/ t \in Forking(newguy)
      BY <2>2, ThreadAssumption DEF Lists, Present
    <3>7. /\ ~(t \in ToSet(runqueue) /\ t \in ToSet(sleepers)) /\ ~(t \in ToSet(runqueue) /\ t \in ToSet(zombies))
          /\ ~(t \in ToSet(sleepers) /\ t \in ToSet(zombies))
          /\ t = curthread => t \notin ToSet(runqueue) \cup ToSet(sleepers) \cup ToSet(zombies)
          /\ t \in Forking(newguy) =>
               t \notin ToSet(runqueue) \cup ToSet(sleepers) \cup ToSet(zombies) \cup {curthread}
      BY <2>2 DEF Lists
    <3>. QED BY <3>1, <3>2, <3>3, <3>4, <3>5, <3>6, <3>7 DEF Places
  <2>. QED BY <2>1, <2>4, <2>5 DEF UpInv
<1>2. ThreadInv => ThreadsConserved
  BY <1>1 DEF ThreadsConserved
<1>. QED BY <1>2, ThreadInvariant, PTL

\* The lists never have to grow outside thread_fork.
THEOREM PreallocationIsEnough == Spec => []PreallocationSuffices
<1>1. ASSUME ThreadInv, ~up PROVE PreallocationSuffices
  BY <1>1 DEF ThreadInv, TypeOK, PreallocationSuffices
<1>2. ASSUME ThreadInv, up PROVE PreallocationSuffices
  <2> DEFINE R == ToSet(runqueue)
             S == ToSet(sleepers)
             P == {curthread} \ {NULL}
  <2>1. UpInv /\ TypeOK /\ Room
    BY <1>2 DEF ThreadInv
  <2>2. /\ runqueue \in Seq(Thread) /\ sleepers \in Seq(Thread)
        /\ IsInjective(runqueue) /\ IsInjective(sleepers) /\ R \cap S = {} /\ (R \cup S) \cap P = {}
    BY <2>1 DEF UpInv, Lists
  <2>3. IsFiniteSet(R) /\ Cardinality(R) = Len(runqueue) /\ IsFiniteSet(S) /\ Cardinality(S) = Len(sleepers)
    BY <2>2, LenIsCardinality
  <2>4. IsFiniteSet(P)
    <3>1. IsFiniteSet({curthread}) /\ P \subseteq {curthread}
      BY FS_Singleton
    <3> HIDE DEF P
    <3>. QED BY <3>1, FS_Subset
  <2>5. numthreads = Cardinality((R \cup S) \cup P)
    BY <2>1 DEF UpInv, Counted, Present
  <2> HIDE DEF R, S, P
  <2>6. IsFiniteSet(R \cup S) /\ Cardinality(R \cup S) = Cardinality(R) + Cardinality(S)
    <3>1. Cardinality(R \cap S) = 0
      BY <2>2, FS_EmptySet
    <3>2. Cardinality(R) \in Nat /\ Cardinality(S) \in Nat
      BY <2>3, FS_CardinalityType
    <3>3. /\ IsFiniteSet(R \cup S)
          /\ Cardinality(R \cup S) = Cardinality(R) + Cardinality(S) - Cardinality(R \cap S)
      BY <2>3, FS_Union
    <3>. QED BY <3>1, <3>2, <3>3
  <2>7. Cardinality((R \cup S) \cup P) = Cardinality(R \cup S) + Cardinality(P)
    <3>1. Cardinality((R \cup S) \cap P) = 0
      BY <2>2, FS_EmptySet
    <3>2. Cardinality(R \cup S) \in Nat /\ Cardinality(P) \in Nat
      BY <2>4, <2>6, FS_CardinalityType
    <3>3. Cardinality((R \cup S) \cup P)
            = Cardinality(R \cup S) + Cardinality(P) - Cardinality((R \cup S) \cap P)
      <4> DEFINE Q == R \cup S
      <4>1. IsFiniteSet(Q)
        BY <2>6
      <4> HIDE DEF Q
      <4>2. Cardinality(Q \cup P) = Cardinality(Q) + Cardinality(P) - Cardinality(Q \cap P)
        BY <2>4, <4>1, FS_Union
      <4>. QED BY <4>2 DEF Q
    <3>. QED BY <3>1, <3>2, <3>3
  <2>8. Cardinality(P) \in Nat /\ Len(runqueue) \in Nat /\ Len(sleepers) \in Nat
    BY <2>2, <2>4, FS_CardinalityType
  <2>9. numthreads = Len(runqueue) + Len(sleepers) + Cardinality({curthread} \ {NULL})
    BY <2>3, <2>5, <2>6, <2>7 DEF P
  <2>10. runqueueMax \in Nat /\ sleepersMax \in Nat
    <3>1. Cardinality(Thread) + RunqueueInit \in Nat
      BY FS_CardinalityType, ThreadAssumption
    <3>. QED BY <2>1, <3>1 DEF TypeOK
  <2>. QED BY <2>1, <2>8, <2>9, <2>10 DEF PreallocationSuffices, Room, P
<1>3. ThreadInv => PreallocationSuffices
  BY <1>1, <1>2
<1>. QED BY <1>3, ThreadInvariant, PTL

-----------------------------------------------------------------------------
(* The order of the run queue. *)

\* A prefix, element by element.
LEMMA PrefixFacts ==
  ASSUME NEW s \in Seq(Thread), NEW r \in Seq(Thread), Len(s) <= Len(r),
         \A i \in 1 .. Len(s) : s[i] = r[i]
  PROVE  IsPrefix(s, r)
<1>1. SubSeq(s, 1, Len(s)) = [i \in 1 .. Len(s) |-> s[i]]
  OBVIOUS
<1>2. SubSeq(r, 1, Len(s)) = [i \in 1 .. Len(s) |-> r[i]]
  OBVIOUS
<1>. QED BY <1>1, <1>2 DEF IsPrefix

\* A list is a prefix of what it becomes by appending one thread or many.
LEMMA PrefixAppend ==
  ASSUME NEW s \in Seq(Thread), NEW r \in Seq(Thread), NEW t \in Thread
  PROVE  /\ IsPrefix(s, s)
         /\ IsPrefix(s, s \o r)
         /\ IsPrefix(s, Append(s, t)) /\ IsPrefix(s, Append(s \o r, t))
<1>1. IsPrefix(s, s)
  BY PrefixFacts
<1>2. IsPrefix(s, s \o r)
  <2>1. s \o r \in Seq(Thread) /\ Len(s) <= Len(s \o r) /\ \A i \in 1 .. Len(s) : s[i] = (s \o r)[i]
    OBVIOUS
  <2>. QED BY <2>1, PrefixFacts
<1>3. IsPrefix(s, Append(s, t))
  <2>1. /\ Append(s, t) \in Seq(Thread) /\ Len(s) <= Len(Append(s, t))
        /\ \A i \in 1 .. Len(s) : s[i] = Append(s, t)[i]
    OBVIOUS
  <2>. QED BY <2>1, PrefixFacts
<1>4. IsPrefix(s, Append(s \o r, t))
  <2> DEFINE q == s \o r
  <2>1. /\ q \in Seq(Thread) /\ Len(s) \in Nat /\ Len(q) \in Nat /\ Len(s) <= Len(q)
        /\ \A i \in 1 .. Len(s) : s[i] = q[i]
    OBVIOUS
  <2> HIDE DEF q
  <2>2. /\ Append(q, t) \in Seq(Thread) /\ Len(s) <= Len(Append(q, t))
        /\ \A i \in 1 .. Len(s) : s[i] = Append(q, t)[i]
    BY <2>1
  <2>3. IsPrefix(s, Append(q, t))
    BY <2>2, PrefixFacts
  <2>. QED BY <2>3 DEF q
<1>. QED BY <1>1, <1>2, <1>3, <1>4

\* Appending commutes with taking the head off.
LEMMA TailAppend ==
  ASSUME NEW s \in Seq(Thread), s # <<>>, NEW r \in Seq(Thread), IsPrefix(s, r)
  PROVE  r # <<>> /\ Head(r) = Head(s) /\ IsPrefix(Tail(s), Tail(r))
<1>1. /\ Len(s) \in Nat \ {0} /\ Len(r) \in Nat /\ Len(s) <= Len(r)
      /\ SubSeq(s, 1, Len(s)) = SubSeq(r, 1, Len(s))
  BY DEF IsPrefix
<1>2. \A i \in 1 .. Len(s) : s[i] = r[i]
  <2>1. SubSeq(s, 1, Len(s)) = [i \in 1 .. Len(s) |-> s[i]]
    OBVIOUS
  <2>2. SubSeq(r, 1, Len(s)) = [i \in 1 .. Len(s) |-> r[i]]
    BY <1>1
  <2>. QED BY <1>1, <2>1, <2>2
<1>3. r # <<>> /\ Head(r) = Head(s)
  BY <1>1, <1>2
<1>4. /\ Tail(s) \in Seq(Thread) /\ Tail(r) \in Seq(Thread) /\ Len(Tail(s)) <= Len(Tail(r))
      /\ \A i \in 1 .. Len(Tail(s)) : Tail(s)[i] = Tail(r)[i]
  BY <1>1, <1>2, <1>3
<1>. QED BY <1>3, <1>4, PrefixFacts

\* What NoOvertaking says of one step.
OrderKept ==
  \/ IsPrefix(runqueue, runqueue')
  \/ /\ runqueue # <<>>
     /\ curthread' = Head(runqueue)
     /\ IsPrefix(Tail(runqueue), runqueue')

\* mi_switch keeps the order when the stash has only appended.
LEMMA SwitchOrder ==
  ASSUME runqueue \in Seq(Thread), NEW rq \in Seq(Thread), IsPrefix(runqueue, rq),
         NEW cur, NEW zs, NEW slp, NEW ii, NEW oi, MiSwitch(cur, rq, zs, slp, ii, oi)
  PROVE  OrderKept
<1>1. CASE rq = <<>>
  BY <1>1 DEF MiSwitch, OrderKept
<1>2. CASE rq # <<>>
  <2>1. runqueue' = Tail(rq) /\ curthread' = Head(rq)
    BY <1>2 DEF MiSwitch, SwitchTo
  <2>2. CASE runqueue = <<>>
    <3>1. /\ Tail(rq) \in Seq(Thread) /\ Len(runqueue) <= Len(Tail(rq))
          /\ \A i \in 1 .. Len(runqueue) : runqueue[i] = Tail(rq)[i]
      BY <1>2, <2>2
    <3>2. IsPrefix(runqueue, Tail(rq))
      BY <3>1, PrefixFacts
    <3>. QED BY <2>1, <3>2 DEF OrderKept
  <2>3. CASE runqueue # <<>>
    BY <2>1, <2>3, TailAppend DEF OrderKept
  <2>. QED BY <2>2, <2>3
<1>. QED BY <1>1, <1>2

\* A tick appends to the run queue, if it touches it at all.
LEMMA TickOrder ==
  ASSUME TypeOK
  PROVE  /\ Ticked(runqueue) \in Seq(Thread) /\ IsPrefix(runqueue, Ticked(runqueue))
         /\ \A t \in Thread : /\ Append(Ticked(runqueue), t) \in Seq(Thread)
                              /\ IsPrefix(runqueue, Append(Ticked(runqueue), t))
<1>1. runqueue \in Seq(Thread) /\ boot \in Thread
  BY ThreadAssumption DEF TypeOK
<1>2. Woken(lbolt) \in Seq(Thread)
  BY AmongFacts DEF TypeOK, Woken
<1>3. CASE LboltDue
  <2>1. Ticked(runqueue) = runqueue \o Woken(lbolt)
    BY <1>3 DEF Ticked
  <2>. QED BY <1>1, <1>2, <2>1, PrefixAppend
<1>4. CASE ~LboltDue
  <2>1. Ticked(runqueue) = runqueue
    BY <1>4 DEF Ticked
  <2>. QED BY <1>1, <2>1, PrefixAppend
<1>. QED BY <1>3, <1>4

\* Round robin: no step reorders the run queue, whatever is woken, forked or
\* preempted in it.
THEOREM RoundRobin == Spec => NoOvertaking
<1>1. ASSUME ThreadInv, [Next]_vars, up' PROVE OrderKept
  <2>1. TypeOK /\ runqueue \in Seq(Thread) /\ boot \in Thread
    BY <1>1, ThreadAssumption DEF ThreadInv, TypeOK
  <2>2. ASSUME UNCHANGED runqueue PROVE OrderKept
    BY <2>1, <2>2, PrefixAppend DEF OrderKept
  <2>3. ASSUME NEW t \in Thread, runqueue' = Append(runqueue, t) PROVE OrderKept
    BY <2>1, <2>3, PrefixAppend DEF OrderKept
  <2>4. ASSUME NEW a, thread_wakeup(a) PROVE OrderKept
    <3>1. Woken(a) \in Seq(Thread)
      BY <2>1, AmongFacts DEF TypeOK, Woken
    <3>. QED BY <2>1, <2>4, <3>1, PrefixAppend DEF OrderKept, thread_wakeup
  <2>5. ASSUME thread_yield PROVE OrderKept
    <3>1. curthread \in Thread
      BY <2>1, <2>5 DEF thread_yield, CanCall, Running, TypeOK
    <3>2. Append(runqueue, curthread) \in Seq(Thread) /\ IsPrefix(runqueue, Append(runqueue, curthread))
      BY <2>1, <3>1, PrefixAppend
    <3>. QED BY <2>1, <2>5, <3>2, SwitchOrder DEF thread_yield
  <2>6. ASSUME hardclock PROVE OrderKept
    <3>1. curthread \in Thread
      BY <2>1, <2>6 DEF hardclock, Running, TypeOK
    <3>2. /\ Append(Ticked(runqueue), curthread) \in Seq(Thread)
          /\ IsPrefix(runqueue, Append(Ticked(runqueue), curthread))
      BY <2>1, <3>1, TickOrder
    <3>3. MiSwitch(curthread, Append(Ticked(runqueue), curthread), zombies, t_sleepaddr, 1,
                   [old_in EXCEPT ![curthread] = in_interrupt])
      BY <2>6 DEF hardclock
    <3>. QED BY <2>1, <3>2, <3>3, SwitchOrder
  <2>7. IsPrefix(runqueue, runqueue)
    BY <2>1, PrefixAppend
  <2>8. ASSUME NEW a \in Addr, thread_sleep(a) PROVE OrderKept
    <3>1. MiSwitch(curthread, runqueue, zombies, [t_sleepaddr EXCEPT ![curthread] = a], in_interrupt, old_in)
      BY <2>8 DEF thread_sleep
    <3>. QED BY <2>1, <2>7, <3>1, SwitchOrder
  <2>9. ASSUME thread_exit PROVE OrderKept
    <3>1. MiSwitch(curthread, runqueue, Append(zombies, curthread), t_sleepaddr, in_interrupt, old_in)
      BY <2>9 DEF thread_exit
    <3>. QED BY <2>1, <2>7, <3>1, SwitchOrder
  <2>10. ASSUME scheduler PROVE OrderKept
    <3>1. MiSwitch(onstack, runqueue, zombies, t_sleepaddr, in_interrupt, old_in)
      BY <2>10 DEF scheduler
    <3>. QED BY <2>1, <2>7, <3>1, SwitchOrder
  <2>11. ASSUME hardclock_idle PROVE OrderKept
    BY <2>1, <2>11, TickOrder DEF hardclock_idle, OrderKept
  <2>12. ASSUME thread_fork PROVE OrderKept
    <3>1. newguy[curthread] \in Thread /\ runqueue' = Append(runqueue, newguy[curthread])
      BY <2>1, <2>12 DEF thread_fork, Running, TypeOK
    <3>. QED BY <2>3, <3>1
  <2>13. ASSUME (\E t \in Thread : thread_create(t)) \/ (\E d \in 0 .. 2 : thread_fork_fail(d))
                \/ thread_fork_free \/ cpu_halt \/ UNCHANGED vars
         PROVE  OrderKept
    <3>1. UNCHANGED runqueue
      BY <2>13 DEF thread_create, thread_fork_fail, thread_fork_free, cpu_halt, vars, queues
    <3>. QED BY <2>2, <3>1
  <2>14. ~(thread_panic \/ shutdown)
    BY <1>1 DEF thread_panic, shutdown
  <2>. QED BY <1>1, <2>4, <2>5, <2>6, <2>8, <2>9, <2>10, <2>11, <2>12, <2>13, <2>14 DEF Next
<1>2. ThreadInv /\ [Next]_vars =>
        [up' => \/ IsPrefix(runqueue, runqueue')
                \/ /\ runqueue # <<>>
                   /\ curthread' = Head(runqueue)
                   /\ IsPrefix(Tail(runqueue), runqueue')]_vars
  BY <1>1 DEF OrderKept
<1>. QED BY <1>2, ThreadInvariant, PTL DEF Spec, NoOvertaking

-----------------------------------------------------------------------------
(* The thread system implements ThreadSpec. *)

\* The refinement mapping, for any lists rq and sl, running thread cur and
\* sleep addresses slp.
Status(rq, sl, cur) ==
  [t \in Thread |-> IF t = cur \/ t \in ToSet(rq) THEN "runnable"
                    ELSE IF t \in ToSet(sl) THEN "asleep" ELSE "none"]
Waddr(sl, slp) == [t \in Thread |-> IF t \in ToSet(sl) THEN slp[t] ELSE NULL]
St == Status(runqueue, sleepers, curthread)
Wa == Waddr(sleepers, t_sleepaddr)

\* Each action of ThreadSpec, in terms of the mapping.
LEMMA PromiseActions ==
  /\ St = [t \in Thread |-> IF t = boot THEN "runnable" ELSE "none"]
     /\ Wa = [t \in Thread |-> NULL] => Promise!SpecInit
  /\ \A t \in Thread : St[t] = "none" /\ St' = [St EXCEPT ![t] = "runnable"] /\ Wa' = Wa
       => Promise!Fork(t)
  /\ \A t \in Thread : St[t] = "runnable" /\ St' = [St EXCEPT ![t] = "none"] /\ Wa' = Wa
       => Promise!Exit(t)
  /\ \A t \in Thread, a \in Addr :
       St[t] = "runnable" /\ St' = [St EXCEPT ![t] = "asleep"] /\ Wa' = [Wa EXCEPT ![t] = a]
       => Promise!Sleep(t, a)
  /\ \A a \in Addr :
       /\ St' = [t \in Thread |-> IF St[t] = "asleep" /\ Wa[t] = a THEN "runnable" ELSE St[t]]
       /\ Wa' = [t \in Thread |-> IF St[t] = "asleep" /\ Wa[t] = a THEN NULL ELSE Wa[t]]
       => Promise!Wakeup(a)
  /\ St' = St /\ Wa' = Wa => UNCHANGED Promise!specVars
<1>1. \A t \in Thread : St[t] = "none" /\ St' = [St EXCEPT ![t] = "runnable"] /\ Wa' = Wa
       => Promise!Fork(t)
  BY DEF Promise!Fork, St, Wa, Status, Waddr
<1>2. \A t \in Thread : St[t] = "runnable" /\ St' = [St EXCEPT ![t] = "none"] /\ Wa' = Wa
       => Promise!Exit(t)
  BY DEF Promise!Exit, St, Wa, Status, Waddr
<1>3. \A t \in Thread, a \in Addr :
       St[t] = "runnable" /\ St' = [St EXCEPT ![t] = "asleep"] /\ Wa' = [Wa EXCEPT ![t] = a]
       => Promise!Sleep(t, a)
  BY DEF Promise!Sleep, St, Wa, Status, Waddr
<1>4. \A a \in Addr :
       /\ St' = [t \in Thread |-> IF St[t] = "asleep" /\ Wa[t] = a THEN "runnable" ELSE St[t]]
       /\ Wa' = [t \in Thread |-> IF St[t] = "asleep" /\ Wa[t] = a THEN NULL ELSE Wa[t]]
       => Promise!Wakeup(a)
  BY DEF Promise!Wakeup, Promise!AsleepOn, St, Wa, Status, Waddr
<1>5. St' = St /\ Wa' = Wa => UNCHANGED Promise!specVars
  BY DEF Promise!specVars, St, Wa, Status, Waddr
<1>6. St = [t \in Thread |-> IF t = boot THEN "runnable" ELSE "none"]
        /\ Wa = [t \in Thread |-> NULL] => Promise!SpecInit
  BY DEF Promise!SpecInit, St, Wa, Status, Waddr
<1>. QED BY <1>1, <1>2, <1>3, <1>4, <1>5, <1>6

\* The mapping after a switch is the one before it, without a running thread.
LEMMA SwitchStatus ==
  ASSUME NEW cur, NEW rq, NEW zs, NEW slp \in [Thread -> Addr \cup {NULL}], NEW ii, NEW oi,
         Lists(rq, sleepers', zs, NULL, allocated, fresh, newguy),
         MiSwitch(cur, rq, zs, slp, ii, oi)
  PROVE  St' = Status(rq, sleepers', NULL) /\ Wa' = Waddr(sleepers', slp)
<1>1. CASE rq = <<>>
  <2>1. curthread' = NULL /\ runqueue' = rq /\ t_sleepaddr' = slp
    BY <1>1 DEF MiSwitch
  <2>. QED BY <2>1 DEF St, Wa
<1>2. CASE rq # <<>>
  <2> DEFINE n == Head(rq)
             r == Tail(rq)
  <2>1. curthread' = n /\ runqueue' = r /\ t_sleepaddr' = [slp EXCEPT ![n] = NULL]
    BY <1>2 DEF MiSwitch, SwitchTo
  <2>2. n \in Thread /\ ToSet(rq) = ToSet(r) \cup {n} /\ n \notin ToSet(sleepers')
    BY <1>2, HeadFacts DEF Lists
  <2> HIDE DEF n, r
  <2>3. St' = Status(r, sleepers', n)
    BY <2>1 DEF St
  <2>4. Status(r, sleepers', n) = Status(rq, sleepers', NULL)
    BY <2>2, ThreadAssumption DEF Status
  <2>5. Wa' = Waddr(sleepers', t_sleepaddr')
    BY DEF Wa
  <2>6. Waddr(sleepers', t_sleepaddr') = Waddr(sleepers', slp)
    BY <2>1, <2>2 DEF Waddr
  <2>. QED BY <2>3, <2>4, <2>5, <2>6
<1>. QED BY <1>1, <1>2

\* What a wakeup does to the mapping.
LEMMA WakeStatus ==
  ASSUME TypeOK, UpInv, NEW a \in Addr
  PROVE  /\ Status(runqueue \o Woken(a), StillAsleep(a), curthread)
              = [t \in Thread |-> IF St[t] = "asleep" /\ Wa[t] = a THEN "runnable" ELSE St[t]]
         /\ Waddr(StillAsleep(a), t_sleepaddr)
              = [t \in Thread |-> IF St[t] = "asleep" /\ Wa[t] = a THEN NULL ELSE Wa[t]]
<1> DEFINE q == ToSet(runqueue \o Woken(a))
           k == ToSet(StillAsleep(a))
<1>1. /\ q = ToSet(runqueue) \cup {t \in ToSet(sleepers) : t_sleepaddr[t] = a}
      /\ k = {t \in ToSet(sleepers) : t_sleepaddr[t] # a}
  BY WakeFacts
<1>2. /\ Status(runqueue \o Woken(a), StillAsleep(a), curthread)
           = [t \in Thread |-> IF t = curthread \/ t \in q THEN "runnable"
                               ELSE IF t \in k THEN "asleep" ELSE "none"]
      /\ Waddr(StillAsleep(a), t_sleepaddr) = [t \in Thread |-> IF t \in k THEN t_sleepaddr[t] ELSE NULL]
  BY DEF Status, Waddr
<1> HIDE DEF q, k
<1>3. /\ ToSet(runqueue) \cap ToSet(sleepers) = {} /\ curthread \notin ToSet(sleepers)
  BY DEF UpInv, Lists
<1>4. \A t \in Thread : (St[t] = "asleep" /\ Wa[t] = a) <=> (t \in ToSet(sleepers) /\ t_sleepaddr[t] = a)
  BY <1>3 DEF St, Wa, Status, Waddr
<1>5. \A t \in Thread :
        (IF t = curthread \/ t \in q THEN "runnable" ELSE IF t \in k THEN "asleep" ELSE "none")
          = IF St[t] = "asleep" /\ Wa[t] = a THEN "runnable" ELSE St[t]
  <2> SUFFICES ASSUME NEW t \in Thread
               PROVE (IF t = curthread \/ t \in q THEN "runnable" ELSE IF t \in k THEN "asleep" ELSE "none")
                      = IF t \in ToSet(sleepers) /\ t_sleepaddr[t] = a THEN "runnable" ELSE St[t]
    BY <1>4
  <2>. QED BY <1>1 DEF St, Status
<1>6. \A t \in Thread :
        (IF t \in k THEN t_sleepaddr[t] ELSE NULL) = IF St[t] = "asleep" /\ Wa[t] = a THEN NULL ELSE Wa[t]
  <2> SUFFICES ASSUME NEW t \in Thread
               PROVE (IF t \in k THEN t_sleepaddr[t] ELSE NULL)
                       = IF t \in ToSet(sleepers) /\ t_sleepaddr[t] = a THEN NULL ELSE Wa[t]
    BY <1>4
  <2>. QED BY <1>1 DEF Wa, Waddr
<1>7. Status(runqueue \o Woken(a), StillAsleep(a), curthread)
        = [t \in Thread |-> IF St[t] = "asleep" /\ Wa[t] = a THEN "runnable" ELSE St[t]]
  BY <1>2, <1>5
<1>8. Waddr(StillAsleep(a), t_sleepaddr)
        = [t \in Thread |-> IF St[t] = "asleep" /\ Wa[t] = a THEN NULL ELSE Wa[t]]
  BY <1>2, <1>6
<1>. QED BY <1>7, <1>8

\* The running thread stays runnable when it goes to the tail of the run queue.
LEMMA ReadyStatus ==
  ASSUME NEW q \in Seq(Thread), NEW sl, curthread \in Thread
  PROVE  Status(Append(q, curthread), sl, NULL) = Status(q, sl, curthread)
<1>1. ToSet(Append(q, curthread)) = ToSet(q) \cup {curthread}
  BY AppendFacts
<1>. QED BY <1>1, ThreadAssumption DEF Status

\* A wakeup, a tick included, is Wakeup or nothing.
LEMMA WakePromise ==
  ASSUME ThreadInv, up,
         NEW rq, St' = Status(rq, sleepers', curthread), Wa' = Waddr(sleepers', t_sleepaddr),
         \/ \E a \in Addr : rq = runqueue \o Woken(a) /\ sleepers' = StillAsleep(a)
         \/ rq = Ticked(runqueue) /\ CountTick
  PROVE  Promise!SpecNext \/ UNCHANGED Promise!specVars
<1>1. TypeOK /\ UpInv
  BY DEF ThreadInv
<1>2. CASE \E a \in Addr : rq = runqueue \o Woken(a) /\ sleepers' = StillAsleep(a)
  <2>1. PICK a \in Addr : rq = runqueue \o Woken(a) /\ sleepers' = StillAsleep(a)
    BY <1>2
  <2>2. /\ St' = [t \in Thread |-> IF St[t] = "asleep" /\ Wa[t] = a THEN "runnable" ELSE St[t]]
        /\ Wa' = [t \in Thread |-> IF St[t] = "asleep" /\ Wa[t] = a THEN NULL ELSE Wa[t]]
    BY <1>1, <2>1, WakeStatus
  <2>3. Promise!Wakeup(a)
    BY <2>2, PromiseActions
  <2>. QED BY <2>3 DEF Promise!SpecNext
<1>3. CASE LboltDue /\ rq = Ticked(runqueue) /\ CountTick
  <2>1. lbolt \in Addr /\ rq = runqueue \o Woken(lbolt) /\ sleepers' = StillAsleep(lbolt)
    BY <1>3, ThreadAssumption DEF Ticked, CountTick
  <2>. QED BY <1>2, <2>1
<1>4. CASE ~LboltDue /\ rq = Ticked(runqueue) /\ CountTick
  <2>1. rq = runqueue /\ sleepers' = sleepers
    BY <1>4 DEF Ticked, CountTick
  <2>2. St' = St /\ Wa' = Wa
    BY <2>1 DEF St, Wa
  <2>. QED BY <2>2, PromiseActions
<1>. QED BY <1>2, <1>3, <1>4

\* Each step of the thread system, in the promise's terms.
LEMMA PromiseStep ==
  ASSUME ThreadInv, Next
  PROVE  Promise!SpecNext \/ UNCHANGED Promise!specVars
<1>1. TypeOK
  BY DEF ThreadInv
<1>2. ASSUME UNCHANGED <<runqueue, sleepers, curthread>>, Wa' = Wa
      PROVE  UNCHANGED Promise!specVars
  <2>1. St' = St
    BY <1>2 DEF St
  <2>. QED BY <1>2, <2>1, PromiseActions
<1>3. ASSUME NEW t \in Thread, thread_create(t) PROVE UNCHANGED Promise!specVars
  <2>1. UNCHANGED <<runqueue, sleepers, curthread>> /\ UpInv
    BY <1>3 DEF ThreadInv, thread_create, queues, CanCall, Running
  <2>2. t \notin ToSet(sleepers) /\ t_sleepaddr' = [t_sleepaddr EXCEPT ![t] = NULL]
    BY <1>3, <2>1 DEF thread_create, UpInv, Lists
  <2>3. Wa' = Wa
    BY <1>1, <2>1, <2>2 DEF Wa, Waddr, TypeOK
  <2>. QED BY <1>2, <2>1, <2>3
<1>4. ASSUME thread_fork PROVE Promise!SpecNext
  <2> DEFINE t == newguy[curthread]
  <2>1. up /\ curthread \in Thread /\ t # NULL /\ UpInv
    BY <1>1, <1>4, ThreadAssumption DEF ThreadInv, thread_fork, Running, TypeOK
  <2>2. /\ runqueue' = Append(runqueue, t) /\ newguy' = [newguy EXCEPT ![curthread] = NULL]
        /\ UNCHANGED <<curthread, sleepers, t_sleepaddr>>
    BY <1>4 DEF thread_fork, cpu
  <2>3. t \in Forking(newguy) /\ t \in Thread
    BY <1>1, <2>1, ThreadAssumption DEF Forking, TypeOK
  <2>4. t \notin ToSet(runqueue) /\ t \notin ToSet(sleepers) /\ t # curthread
    BY <2>1, <2>3 DEF UpInv, Lists
  <2> HIDE DEF t
  <2>5. ToSet(runqueue') = ToSet(runqueue) \cup {t}
    BY <1>1, <2>2, <2>3, AppendFacts DEF TypeOK
  <2>6. St[t] = "none" /\ St' = [St EXCEPT ![t] = "runnable"]
    BY <2>2, <2>3, <2>4, <2>5 DEF St, Status
  <2>7. Wa' = Wa
    BY <2>2 DEF Wa
  <2>8. PICK u \in Thread : u = t
    BY <2>3
  <2>9. Promise!Fork(u)
    BY <2>6, <2>7, <2>8, PromiseActions
  <2>. QED BY <2>9 DEF Promise!SpecNext
<1>5. ASSUME (\E d \in 0 .. 2 : thread_fork_fail(d)) \/ thread_fork_free
      PROVE  UNCHANGED Promise!specVars
  <2>1. UNCHANGED <<runqueue, sleepers, curthread, t_sleepaddr>>
    BY <1>5 DEF thread_fork_fail, thread_fork_free, queues, cpu
  <2>. QED BY <1>2, <2>1 DEF Wa
<1>6. ASSUME thread_yield PROVE UNCHANGED Promise!specVars
  <2> DEFINE rq == Append(runqueue, curthread)
  <2>1. /\ curthread \in Thread /\ UpInv /\ UNCHANGED sleepers
        /\ MiSwitch(curthread, rq, zombies, t_sleepaddr, in_interrupt, old_in)
    BY <1>1, <1>6 DEF ThreadInv, thread_yield, CanCall, Running, TypeOK
  <2>2. Lists(rq, sleepers', zombies, NULL, allocated, fresh, newguy)
    BY <2>1, ListsReady DEF UpInv
  <2>3. St' = Status(rq, sleepers', NULL) /\ Wa' = Waddr(sleepers', t_sleepaddr)
    <3> HIDE DEF rq
    <3>. QED BY <1>1, <2>1, <2>2, SwitchStatus DEF TypeOK
  <2>4. St' = St /\ Wa' = Wa
    BY <1>1, <2>1, <2>3, ReadyStatus DEF St, Wa, TypeOK
  <2>. QED BY <2>4, PromiseActions
<1>7. ASSUME NEW a \in Addr, thread_sleep(a) PROVE Promise!SpecNext
  <2> DEFINE slp == [t_sleepaddr EXCEPT ![curthread] = a]
  <2>1. /\ curthread \in Thread /\ UpInv /\ newguy[curthread] = NULL
        /\ sleepers' = Append(sleepers, curthread)
        /\ MiSwitch(curthread, runqueue, zombies, slp, in_interrupt, old_in)
    BY <1>1, <1>7 DEF ThreadInv, thread_sleep, CanCall, Running, TypeOK
  <2>2. Lists(runqueue, sleepers', zombies, NULL, allocated, fresh, newguy)
    BY <2>1, ListsSleep DEF UpInv
  <2>3. slp \in [Thread -> Addr \cup {NULL}] /\ \A t \in Thread : slp[t] = IF t = curthread THEN a ELSE t_sleepaddr[t]
    BY <1>1, <2>1 DEF TypeOK
  <2> HIDE DEF slp
  <2>4. St' = Status(runqueue, sleepers', NULL) /\ Wa' = Waddr(sleepers', slp)
    BY <2>1, <2>2, <2>3, SwitchStatus
  <2>5. ToSet(sleepers') = ToSet(sleepers) \cup {curthread}
    BY <1>1, <2>1, AppendFacts DEF TypeOK
  <2>6. curthread \notin ToSet(runqueue)
    BY <2>1 DEF UpInv, Lists
  <2>7. St[curthread] = "runnable" /\ St' = [St EXCEPT ![curthread] = "asleep"]
    <3>1. St[curthread] = "runnable"
      BY <2>1 DEF St, Status
    <3>2. Status(runqueue, sleepers', NULL) = [St EXCEPT ![curthread] = "asleep"]
      BY <2>1, <2>5, <2>6, ThreadAssumption DEF St, Status
    <3>. QED BY <2>4, <3>1, <3>2
  <2>8. Wa' = [Wa EXCEPT ![curthread] = a]
    BY <2>1, <2>3, <2>4, <2>5 DEF Wa, Waddr
  <2>9. Promise!Sleep(curthread, a)
    BY <2>1, <2>7, <2>8, PromiseActions
  <2>. QED BY <2>1, <2>9 DEF Promise!SpecNext
<1>8. ASSUME thread_exit PROVE Promise!SpecNext
  <2> DEFINE zs == Append(zombies, curthread)
  <2>1. /\ curthread \in Thread /\ UpInv /\ newguy[curthread] = NULL /\ sleepers' = sleepers
        /\ MiSwitch(curthread, runqueue, zs, t_sleepaddr, in_interrupt, old_in)
    BY <1>1, <1>8 DEF ThreadInv, thread_exit, CanCall, Running, TypeOK
  <2>2. Lists(runqueue, sleepers', zs, NULL, allocated, fresh, newguy)
    BY <2>1, ListsExit DEF UpInv
  <2> HIDE DEF zs
  <2>3. St' = Status(runqueue, sleepers', NULL) /\ Wa' = Waddr(sleepers', t_sleepaddr)
    BY <1>1, <2>1, <2>2, SwitchStatus DEF TypeOK
  <2>4. curthread \notin ToSet(runqueue) /\ curthread \notin ToSet(sleepers)
    BY <2>1 DEF UpInv, Lists
  <2>5. St[curthread] = "runnable" /\ St' = [St EXCEPT ![curthread] = "none"]
    <3>1. St[curthread] = "runnable"
      BY <2>1 DEF St, Status
    <3>2. Status(runqueue, sleepers, NULL) = [St EXCEPT ![curthread] = "none"]
      BY <2>1, <2>4, ThreadAssumption DEF St, Status
    <3>. QED BY <2>1, <2>3, <3>1, <3>2
  <2>6. Wa' = Wa
    BY <2>1, <2>3 DEF Wa
  <2>7. PICK u \in Thread : u = curthread
    BY <2>1
  <2>8. Promise!Exit(u)
    BY <2>5, <2>6, <2>7, PromiseActions
  <2>. QED BY <2>8 DEF Promise!SpecNext
<1>9. ASSUME scheduler PROVE UNCHANGED Promise!specVars
  <2>1. /\ curthread = NULL /\ UpInv /\ sleepers' = sleepers
        /\ MiSwitch(onstack, runqueue, zombies, t_sleepaddr, in_interrupt, old_in)
    BY <1>9 DEF ThreadInv, scheduler, Idle
  <2>2. Lists(runqueue, sleepers', zombies, NULL, allocated, fresh, newguy)
    BY <2>1 DEF UpInv
  <2>3. St' = Status(runqueue, sleepers', NULL) /\ Wa' = Waddr(sleepers', t_sleepaddr)
    BY <1>1, <2>1, <2>2, SwitchStatus DEF TypeOK
  <2>4. St' = St /\ Wa' = Wa
    BY <2>1, <2>3 DEF St, Wa
  <2>. QED BY <2>4, PromiseActions
<1>10. ASSUME NEW a \in Addr, thread_wakeup(a) PROVE Promise!SpecNext \/ UNCHANGED Promise!specVars
  <2>1. /\ up /\ runqueue' = runqueue \o Woken(a) /\ sleepers' = StillAsleep(a)
        /\ UNCHANGED <<curthread, t_sleepaddr>>
    BY <1>10 DEF thread_wakeup, cpu
  <2>2. St' = Status(runqueue', sleepers', curthread) /\ Wa' = Waddr(sleepers', t_sleepaddr)
    BY <2>1 DEF St, Wa
  <2>. QED BY <2>1, <2>2, WakePromise
<1>11. ASSUME hardclock_idle PROVE Promise!SpecNext \/ UNCHANGED Promise!specVars
  <2>1. up /\ runqueue' = Ticked(runqueue) /\ CountTick /\ UNCHANGED <<curthread, t_sleepaddr>>
    BY <1>11 DEF hardclock_idle, Idle, cpu
  <2>2. St' = Status(runqueue', sleepers', curthread) /\ Wa' = Waddr(sleepers', t_sleepaddr)
    BY <2>1 DEF St, Wa
  <2>. QED BY <2>1, <2>2, WakePromise
<1>12. ASSUME hardclock PROVE Promise!SpecNext \/ UNCHANGED Promise!specVars
  <2> DEFINE q == Ticked(runqueue)
             rq == Append(q, curthread)
             oi == [old_in EXCEPT ![curthread] = in_interrupt]
  <2>1. /\ curthread \in Thread /\ up /\ UpInv /\ CountTick
        /\ MiSwitch(curthread, rq, zombies, t_sleepaddr, 1, oi)
    BY <1>1, <1>12 DEF ThreadInv, hardclock, Running, TypeOK
  <2>2. Lists(q, sleepers', zombies, curthread, allocated, fresh, newguy)
    BY <1>1, <2>1, TickFacts
  <2> HIDE DEF q, oi
  <2>3. Lists(rq, sleepers', zombies, NULL, allocated, fresh, newguy)
    BY <2>1, <2>2, ListsReady
  <2>4. Status(rq, sleepers', NULL) = Status(q, sleepers', curthread)
    BY <2>1, <2>2, ReadyStatus DEF Lists
  <2> HIDE DEF rq
  <2>5. St' = Status(q, sleepers', curthread) /\ Wa' = Waddr(sleepers', t_sleepaddr)
    BY <1>1, <2>1, <2>3, <2>4, SwitchStatus DEF TypeOK
  <2>. QED BY <2>1, <2>5, WakePromise DEF q
<1>13. ASSUME thread_panic \/ shutdown PROVE Promise!SpecNext
  <2> DEFINE left == {curthread} \ {NULL}
  <2>1. runqueue' = <<>> /\ sleepers' = <<>> /\ curthread' = curthread
    BY <1>13 DEF thread_panic, shutdown, thread_killall, scheduler_killall, thread_shutdown, cpu
  <2>2. ToSet(<<>>) = {}
    BY DEF ToSet
  <2>3. left \in SUBSET {t \in Thread : St[t] = "runnable"} /\ \A t, u \in left : t = u
    BY <1>1 DEF TypeOK, St, Status
  <2>4. St' = [t \in Thread |-> IF t \in left THEN "runnable" ELSE "none"]
    BY <2>1, <2>2, ThreadAssumption DEF St, Status
  <2>5. Wa' = [t \in Thread |-> NULL]
    BY <2>1, <2>2 DEF Wa, Waddr
  <2>6. Promise!Down
    <3> HIDE DEF left
    <3>. QED BY <2>3, <2>4, <2>5 DEF Promise!Down, St, Wa, Status, Waddr
  <2>. QED BY <2>6 DEF Promise!SpecNext
<1>14. ASSUME cpu_halt PROVE UNCHANGED Promise!specVars
  <2>1. UNCHANGED <<runqueue, sleepers, curthread, t_sleepaddr>>
    BY <1>14 DEF cpu_halt, vars, cpu, queues
  <2>. QED BY <1>2, <2>1 DEF Wa
<1>. QED BY <1>3, <1>4, <1>5, <1>6, <1>7, <1>8, <1>9, <1>10, <1>11, <1>12, <1>13, <1>14 DEF Next

\* The thread system implements ThreadSpec: with the run queue, the switch and
\* the processor out of sight, threads only fork, sleep, wake and exit as
\* thread.h says.
THEOREM ThreadsKeepPromise == Spec => KeepsPromise
<1>1. Init => Promise!SpecInit
  <2> SUFFICES ASSUME Init PROVE Promise!SpecInit
    OBVIOUS
  <2>1. ToSet(<<>>) = {}
    BY DEF ToSet
  <2>2. runqueue = <<>> /\ sleepers = <<>> /\ curthread = boot
    BY DEF Init, scheduler_bootstrap
  <2>3. /\ St = [t \in Thread |-> IF t = boot THEN "runnable" ELSE "none"]
        /\ Wa = [t \in Thread |-> NULL]
    BY <2>1, <2>2 DEF St, Wa, Status, Waddr
  <2>. QED BY <2>3, PromiseActions
<1>2. ThreadInv /\ [Next]_vars => [Promise!SpecNext]_(Promise!specVars)
  <2>1. ASSUME UNCHANGED vars PROVE UNCHANGED Promise!specVars
    BY <2>1, PromiseActions DEF vars, cpu, queues, St, Wa
  <2>. QED BY <2>1, PromiseStep
<1>. QED BY <1>1, <1>2, ThreadInvariant, PTL DEF Spec, KeepsPromise, Promise!ThreadPromise
=============================================================================
