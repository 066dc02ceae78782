---------------------------- MODULE DumbVMProofs ----------------------------
(***************************************************************************)
(* Proofs about DumbVM, for any memory size, page size, word, programs and *)
(* threads: types, the ownership of physical pages, the TLB, the panics of *)
(* vm_fault, and that it implements PrivateMemory.                         *)
(***************************************************************************)
EXTENDS DumbVM, NaturalsInduction, WellFoundedInduction, TLAPS

-----------------------------------------------------------------------------
(***************************************************************************)
(* Arithmetic of pages and words.                                          *)
(***************************************************************************)

\* Multiplication by a positive number keeps the order, and strictly.
LEMMA TimesOrder ==
  ASSUME NEW p \in Nat \ {0}, NEW k \in Int, NEW m \in Int
  PROVE  /\ k < m => k * p + p <= m * p
         /\ k <= m => k * p <= m * p
         /\ k * p < m * p => k < m
         /\ k * p = m * p => k = m
         /\ k * p \in Int
<1>1. ASSUME NEW a \in Int, NEW b \in Int, a < b PROVE a * p + p <= b * p
  <2>1. b = a + 1 + (b - a - 1) /\ b - a - 1 >= 0
    BY <1>1
  <2>2. b * p = a * p + p + (b - a - 1) * p
    BY <2>1
  <2>3. (b - a - 1) * p >= 0
    BY <2>1
  <2> QED BY <2>2, <2>3
<1>2. k < m => k * p + p <= m * p
  BY <1>1
<1>3. m < k => m * p + p <= k * p
  BY <1>1
<1> QED BY <1>2, <1>3

\* A multiple of p leaves no remainder, and what leaves none is a multiple.
LEMMA Multiples ==
  ASSUME NEW p \in Nat \ {0}, NEW a \in Int
  PROVE  /\ a % p \in 0 .. p - 1 /\ a \div p \in Int
         /\ a % p = 0 => a = (a \div p) * p
         /\ \A k \in Int : a = k * p => a % p = 0 /\ a \div p = k
<1>1. a % p \in 0 .. p - 1 /\ a \div p \in Int /\ a = (a \div p) * p + (a % p)
  BY Z3
<1>2. ASSUME NEW k \in Int, a = k * p PROVE a % p = 0 /\ a \div p = k
  <2> DEFINE q == a \div p
  <2>1. q \in Int /\ q * p \in Int /\ k * p \in Int
    BY <1>1
  <2>2. k * p = q * p + (a % p)
    BY <1>1, <1>2
  <2> HIDE DEF q
  <2>3. ~(q < k)
    BY <2>1, <2>2, <1>1, TimesOrder
  <2>4. ~(k < q)
    BY <2>1, <2>2, <1>1, TimesOrder
  <2>5. q = k
    BY <2>1, <2>3, <2>4
  <2>6. a % p = 0
    BY <2>1, <2>2, <2>5, <1>1
  <2> QED BY <2>5, <2>6 DEF q
<1> QED BY <1>1, <1>2

\* Sums and differences of multiples are multiples.
LEMMA SumOfMultiples ==
  ASSUME NEW p \in Nat \ {0}, NEW a \in Int, NEW b \in Int, a % p = 0, b % p = 0
  PROVE  (a + b) % p = 0 /\ (a - b) % p = 0
<1>1. PICK k \in Int : a = k * p
  BY Multiples
<1>2. PICK m \in Int : b = m * p
  BY Multiples
<1>3. a + b = (k + m) * p /\ a - b = (k - m) * p
  BY <1>1, <1>2
<1>4. a + b \in Int /\ a - b \in Int /\ k + m \in Int /\ k - m \in Int
  OBVIOUS
<1>5. ASSUME NEW c \in Int, NEW d \in Int, c = d * p PROVE c % p = 0
  BY <1>5, Multiples
<1> QED BY <1>3, <1>4, <1>5

\* Taking a number modulo the word: the result, and when nothing is lost.
LEMMA ModWord ==
  ASSUME NEW w \in Nat \ {0}, NEW a \in Nat
  PROVE  /\ a % w \in 0 .. w - 1
         /\ a % w <= a
         /\ a < w => a % w = a
<1>1. a % w \in 0 .. w - 1 /\ a \div w \in Int /\ a = (a \div w) * w + (a % w)
  BY Z3
<1> DEFINE q == a \div w  r == a % w
<1>2. q \in Int /\ r \in 0 .. w - 1 /\ a = q * w + r
  BY <1>1
<1> HIDE DEF q, r
<1>3. ~(q < 0)
  <2> SUFFICES ASSUME q < 0 PROVE FALSE
    OBVIOUS
  <2>1. q * w + w <= 0 * w
    BY <1>2, TimesOrder
  <2> QED BY <2>1, <1>2
<1>4. q * w >= 0
  BY <1>2, <1>3
<1>5. r <= a
  BY <1>2, <1>4
<1>6. ASSUME a < w PROVE r = a
  <2>1. ~(0 < q)
    <3> SUFFICES ASSUME 0 < q PROVE FALSE
      OBVIOUS
    <3>1. 0 * w + w <= q * w
      BY <1>2, TimesOrder
    <3> QED BY <3>1, <1>2, <1>6
  <2>2. q = 0
    BY <2>1, <1>3, <1>2
  <2> QED BY <2>2, <1>2
<1> QED BY <1>2, <1>5, <1>6 DEF r

\* What is left of a multiple modulo a multiple is a multiple.
LEMMA ModOfMultiple ==
  ASSUME NEW p \in Nat \ {0}, NEW w \in Nat \ {0}, NEW a \in Int,
         a % p = 0, w % p = 0
  PROVE  (a % w) % p = 0
<1>1. a % w \in Int /\ a \div w \in Int /\ a = (a \div w) * w + (a % w)
  BY Z3
<1> DEFINE q == a \div w  r == a % w
<1>2. q \in Int /\ r \in Int /\ a = q * w + r
  BY <1>1
<1> HIDE DEF q, r
<1>3. PICK k \in Int : a = k * p
  BY Multiples
<1>4. PICK m \in Int : w = m * p
  <2>1. ASSUME NEW c \in Int, c % p = 0 PROVE \E m \in Int : c = m * p
    BY <2>1, Multiples
  <2> QED BY <2>1
<1>5. q * w = (q * m) * p /\ q * m \in Int
  BY <1>2, <1>4
<1>6. r = (k - q * m) * p /\ k - q * m \in Int
  <2>1. ASSUME NEW x \in Int, q * w = x * p PROVE r = (k - x) * p /\ k - x \in Int
    BY <2>1, <1>2, <1>3
  <2> QED BY <2>1, <1>5
<1>7. r % p = 0
  BY <1>2, <1>6, Multiples
<1> QED BY <1>7 DEF r

-----------------------------------------------------------------------------
(***************************************************************************)
(* The constants and the operators of the model.                           *)
(***************************************************************************)

\* The facts about the constants that the proofs use.
LEMMA Constants ==
  /\ PAGE_SIZE \in Nat \ {0} /\ WORD \in Nat \ {0} /\ PAGE_SIZE < WORD
  /\ WORD % PAGE_SIZE = 0
  /\ KSEG0 \in Nat /\ KSEG0 <= WORD /\ KSEG0 % PAGE_SIZE = 0
  /\ STACKPAGES \in Nat \ {0} /\ STACKPAGES * PAGE_SIZE \in Nat
  /\ STACKPAGES * PAGE_SIZE < KSEG0
  /\ ramsize \in Nat /\ ramsize < WORD /\ ramsize % PAGE_SIZE = 0
  /\ firstfree - KSEG0 \in Nat /\ PAGE_SIZE <= firstfree - KSEG0
  /\ firstfree - KSEG0 <= ramsize /\ (firstfree - KSEG0) % PAGE_SIZE = 0
<1>1. /\ PAGE_SIZE \in Nat \ {0} /\ WORD \in Nat \ {0}
      /\ KSEG0 \in Nat \ {0} /\ KSEG0 <= WORD
      /\ STACKPAGES \in Nat \ {0} /\ STACKPAGES * PAGE_SIZE < KSEG0
      /\ ramsize \in Nat /\ ramsize < WORD
      /\ firstfree - KSEG0 \in Nat /\ PAGE_SIZE <= firstfree - KSEG0
      /\ firstfree - KSEG0 <= ramsize
  BY VMAssumption
<1>2. STACKPAGES * PAGE_SIZE \in Nat
  BY <1>1
<1>3. PAGE_SIZE <= STACKPAGES * PAGE_SIZE
  <2>1. 1 * PAGE_SIZE <= STACKPAGES * PAGE_SIZE
    BY <1>1, TimesOrder
  <2> QED BY <2>1, <1>1
<1>4. PAGE_SIZE < WORD
  BY <1>1, <1>2, <1>3
<1> QED BY <1>1, <1>2, <1>4, VMAssumption

\* The arithmetic above for the page size and the word.
LEMMA PageArithmetic ==
  /\ \A a, b \in Int : a % PAGE_SIZE = 0 /\ b % PAGE_SIZE = 0 =>
       (a + b) % PAGE_SIZE = 0 /\ (a - b) % PAGE_SIZE = 0
  /\ \A a, k \in Int : a = k * PAGE_SIZE => a % PAGE_SIZE = 0
  /\ \A a \in Int : a % PAGE_SIZE = 0 =>
       /\ a \div PAGE_SIZE \in Int /\ a = (a \div PAGE_SIZE) * PAGE_SIZE
       /\ (a % WORD) % PAGE_SIZE = 0
  /\ \A a \in Nat : a % WORD \in 0 .. WORD - 1 /\ a % WORD <= a /\ (a < WORD => a % WORD = a)
<1>1. ASSUME NEW a \in Int, NEW b \in Int, a % PAGE_SIZE = 0, b % PAGE_SIZE = 0
      PROVE  (a + b) % PAGE_SIZE = 0 /\ (a - b) % PAGE_SIZE = 0
  BY <1>1, Constants, SumOfMultiples
<1>2. ASSUME NEW a \in Int, NEW k \in Int, a = k * PAGE_SIZE PROVE a % PAGE_SIZE = 0
  BY <1>2, Constants, Multiples
<1>3. ASSUME NEW a \in Int, a % PAGE_SIZE = 0
      PROVE  /\ a \div PAGE_SIZE \in Int /\ a = (a \div PAGE_SIZE) * PAGE_SIZE
             /\ (a % WORD) % PAGE_SIZE = 0
  <2>1. a \div PAGE_SIZE \in Int /\ a = (a \div PAGE_SIZE) * PAGE_SIZE
    BY <1>3, Constants, Multiples
  <2>2. (a % WORD) % PAGE_SIZE = 0
    BY <1>3, Constants, ModOfMultiple
  <2> QED BY <2>1, <2>2
<1>4. ASSUME NEW a \in Nat
      PROVE  a % WORD \in 0 .. WORD - 1 /\ a % WORD <= a /\ (a < WORD => a % WORD = a)
  BY Constants, ModWord
<1> QED BY <1>1, <1>2, <1>3, <1>4

\* Pages are the multiples of the page size below the word.
LEMMA Pages ==
  /\ Page \subseteq Nat /\ 0 \in Page
  /\ \A a \in Int : a \in Page <=> 0 <= a /\ a < WORD /\ a % PAGE_SIZE = 0
  /\ firstfree - KSEG0 \in Page /\ ramsize \in Page
  /\ \A a \in Page : a % PAGE_SIZE = 0 /\ a < WORD
<1>1. 0 % PAGE_SIZE = 0
  <2>1. 0 = 0 * PAGE_SIZE
    BY Constants
  <2> QED BY <2>1, Constants, Multiples
<1>2. \A a \in Int : a \in Page <=> 0 <= a /\ a < WORD /\ a % PAGE_SIZE = 0
  BY Constants DEF Page
<1>3. Page \subseteq Nat /\ \A a \in Page : a % PAGE_SIZE = 0 /\ a < WORD
  BY Constants DEF Page
<1> QED BY <1>1, <1>2, <1>3, Constants

\* PAGE_FRAME rounds down to a page.
LEMMA FrameOfAddress ==
  ASSUME NEW a \in Nat, a < WORD
  PROVE  PAGE_FRAME(a) \in Page /\ PAGE_FRAME(a) <= a
<1> DEFINE q == a \div PAGE_SIZE  r == a % PAGE_SIZE
<1>1. q \in Int /\ r \in 0 .. PAGE_SIZE - 1 /\ a = q * PAGE_SIZE + r
  BY Constants, Z3
<1>2. r <= a
  BY ModWord, Constants
<1>3. PAGE_FRAME(a) = a - r
  BY DEF PAGE_FRAME
<1> HIDE DEF q, r
<1>4. a - r = q * PAGE_SIZE /\ a - r \in Int /\ 0 <= a - r /\ a - r <= a
  BY <1>1, <1>2, Constants
<1>5. \A c, d \in Int : c = d * PAGE_SIZE => c % PAGE_SIZE = 0
  BY Multiples, Constants
<1>6. (a - r) % PAGE_SIZE = 0
  BY <1>1, <1>4, <1>5
<1> QED BY <1>3, <1>4, <1>6, Pages, Constants

\* The number of pages of a segment, and its bytes fit in the word.
LEMMA SegmentPages ==
  ASSUME NEW s \in Segment
  PROVE  LET n == RegionSize(s.vaddr, s.sz) \div PAGE_SIZE
         IN n \in Nat /\ n * PAGE_SIZE < WORD
<1> DEFINE b == (s.sz + (s.vaddr % PAGE_SIZE)) % WORD
           c == (b + PAGE_SIZE - 1) % WORD
           z == PAGE_FRAME(c)
<1>1. s.sz \in Nat /\ s.vaddr \in Nat
  BY Constants DEF Segment
<1>m. \A x \in Nat : x % WORD \in Nat /\ x % WORD < WORD /\ x % PAGE_SIZE \in Nat
  <2> SUFFICES ASSUME NEW x \in Nat
               PROVE  x % WORD \in Nat /\ x % WORD < WORD /\ x % PAGE_SIZE \in Nat
    OBVIOUS
  <2>1. x % WORD \in 0 .. WORD - 1
    BY Constants, ModWord
  <2>2. x % PAGE_SIZE \in 0 .. PAGE_SIZE - 1
    BY Constants, ModWord
  <2> QED BY <2>1, <2>2, Constants
<1>2. s.vaddr % PAGE_SIZE \in Nat
  BY <1>1, <1>m
<1>3. b \in Nat
  <2>1. s.sz + (s.vaddr % PAGE_SIZE) \in Nat
    BY <1>1, <1>2
  <2> QED BY <2>1, <1>m
<1> HIDE DEF b
<1>4. c \in Nat /\ c < WORD
  <2>1. b + PAGE_SIZE - 1 \in Nat
    BY <1>3, Constants
  <2> QED BY <2>1, <1>m
<1> HIDE DEF c
<1>5. z \in Page
  BY <1>4, FrameOfAddress
<1>6. RegionSize(s.vaddr, s.sz) = z
  BY DEF RegionSize, z, c, b
<1> HIDE DEF z
<1>7. z \in Int /\ 0 <= z /\ z < WORD /\ z % PAGE_SIZE = 0
  BY <1>5, Pages, Constants
<1>8. z \div PAGE_SIZE \in Int /\ z = (z \div PAGE_SIZE) * PAGE_SIZE
  BY <1>7, Constants, Multiples
<1>9. z \div PAGE_SIZE >= 0
  BY <1>7, Constants
<1> QED BY <1>6, <1>7, <1>8, <1>9

\* A request that fits in the word is granted without loss.
LEMMA StealBytes ==
  ASSUME NEW n \in Nat, n * PAGE_SIZE < WORD
  PROVE  StealSize(n) = n * PAGE_SIZE /\ n * PAGE_SIZE \in Nat
<1>1. n * PAGE_SIZE \in Nat
  BY Constants
<1> QED BY <1>1, ModWord, Constants DEF StealSize

\* firstpaddr stays a page; without a wrap it grows by the request.
LEMMA NextFreePage ==
  ASSUME NEW f \in Page, NEW n \in Nat, n * PAGE_SIZE < WORD
  PROVE  /\ (f + StealSize(n)) % WORD \in Page
         /\ f + StealSize(n) < WORD => (f + StealSize(n)) % WORD = f + n * PAGE_SIZE
         /\ f + StealSize(n) \in Nat
<1> DEFINE z == n * PAGE_SIZE
<1>1. StealSize(n) = z /\ z \in Nat
  BY StealBytes
<1>2. z % PAGE_SIZE = 0
  <2>1. \A c, d \in Int : c = d * PAGE_SIZE => c % PAGE_SIZE = 0
    BY Multiples, Constants
  <2> QED BY <1>1, <2>1
<1> HIDE DEF z
<1>3. f \in Nat /\ f % PAGE_SIZE = 0
  BY Pages
<1>4. (f + z) % PAGE_SIZE = 0 /\ f + z \in Nat
  BY <1>1, <1>2, <1>3, SumOfMultiples, Constants
<1>5. ((f + z) % WORD) % PAGE_SIZE = 0
  BY <1>4, ModOfMultiple, Constants
<1>6. (f + z) % WORD \in 0 .. WORD - 1
  BY <1>4, ModWord, Constants
<1>7. f + z < WORD => (f + z) % WORD = f + z
  BY <1>4, ModWord, Constants
<1>8. (f + z) % WORD \in Page
  BY <1>5, <1>6, Pages, Constants
<1> QED BY <1>1, <1>4, <1>7, <1>8 DEF z

\* The pages of a request for the kernel.
LEMMA KernelPages ==
  ASSUME NEW f \in Page, NEW n \in Nat, n * PAGE_SIZE < WORD, NEW k \in 0 .. n - 1
  PROVE  LET g == (f + k * PAGE_SIZE) % WORD
         IN /\ g \in Page
            /\ f + n * PAGE_SIZE < WORD => g \in Nat /\ f <= g /\ g < f + n * PAGE_SIZE
<1>1. f \in Nat /\ n * PAGE_SIZE \in Nat /\ PAGE_SIZE \in Nat \ {0} /\ WORD \in Nat
  BY Pages, StealBytes, Constants
<1>2. k \in Nat /\ k < n
  OBVIOUS
<1>3. k * PAGE_SIZE + PAGE_SIZE <= n * PAGE_SIZE
  BY <1>1, <1>2, TimesOrder
<1>4. k * PAGE_SIZE \in Nat
  BY <1>1, <1>2
<1>5. k * PAGE_SIZE < WORD /\ k * PAGE_SIZE < n * PAGE_SIZE
  BY <1>1, <1>3, <1>4
<1>6. StealSize(k) = k * PAGE_SIZE
  BY <1>2, <1>5, StealBytes
<1>7. /\ (f + k * PAGE_SIZE) % WORD \in Page
      /\ f + k * PAGE_SIZE < WORD => (f + k * PAGE_SIZE) % WORD = f + k * PAGE_SIZE
  BY <1>2, <1>5, <1>6, NextFreePage
<1>8. f + n * PAGE_SIZE < WORD => f + k * PAGE_SIZE < WORD
  BY <1>1, <1>4, <1>5
<1> QED BY <1>1, <1>4, <1>5, <1>7, <1>8

\* Every nonempty set of naturals has a least element, which Min returns.
LEMMA MinOfSet ==
  ASSUME NEW S \in SUBSET Nat, S # {}
  PROVE  Min(S) \in S /\ \A y \in S : Min(S) <= y
<1> DEFINE R == OpToRel(<, Nat)
<1>1. IsWellFoundedOn(R, Nat)
  BY NatLessThanWellFounded
<1>2. \A x, y \in Nat : x < y => <<x, y>> \in R
  BY DEF OpToRel
<1> HIDE DEF R
<1>3. PICK n \in S : \A m \in S : ~(<<m, n>> \in R)
  BY <1>1, WFMin
<1>4. \A m \in S : ~(m < n)
  BY <1>2, <1>3
<1>5. \A m \in S : n <= m
  BY <1>4
<1> QED BY <1>5 DEF Min

\* An address space whose regions fit in the word.
SpaceOK(a) == a \in Addrspace /\ \A i \in 1 .. 2 : a.npages[i] * PAGE_SIZE < WORD

LEMMA Regions ==
  ASSUME NEW a, SpaceOK(a), NEW i \in 1 .. 3
  PROVE  /\ RegionPages(a, i) \in Nat /\ RegionPages(a, i) * PAGE_SIZE \in Nat
         /\ RegionPages(a, i) * PAGE_SIZE < WORD
         /\ RegionBase(a, i) \in Page /\ a.pbase[i] \in Page
<1>1. RegionPages(a, i) \in Nat /\ RegionPages(a, i) * PAGE_SIZE < WORD
  BY Constants DEF SpaceOK, Addrspace, RegionPages
<1>2. RegionPages(a, i) * PAGE_SIZE \in Nat
  BY <1>1, Constants
<1>3. (STACKPAGES * PAGE_SIZE) % PAGE_SIZE = 0
  <2>1. \A c, d \in Int : c = d * PAGE_SIZE => c % PAGE_SIZE = 0
    BY PageArithmetic
  <2> QED BY <2>1, Constants
<1>4. KSEG0 - STACKPAGES * PAGE_SIZE \in Page
  <2> DEFINE z == STACKPAGES * PAGE_SIZE
  <2>1. z \in Nat /\ z < KSEG0 /\ z % PAGE_SIZE = 0 /\ z # 0
    BY <1>3, Constants
  <2> HIDE DEF z
  <2>0. KSEG0 \in Int /\ z \in Int /\ KSEG0 % PAGE_SIZE = 0
    BY <2>1, Constants
  <2>2. (KSEG0 - z) % PAGE_SIZE = 0
    BY <2>1, <2>0, PageArithmetic, Zenon
  <2>3. KSEG0 - z \in Int /\ 0 <= KSEG0 - z /\ KSEG0 - z < WORD
    BY <2>1, Constants
  <2>4. KSEG0 - z \in Page
    BY <2>2, <2>3, Pages
  <2> QED BY <2>4 DEF z
<1>5. RegionBase(a, i) \in Page /\ a.pbase[i] \in Page
  BY <1>4 DEF SpaceOK, Addrspace, RegionBase, USERSTACK
<1> QED BY <1>1, <1>2, <1>5

\* A page of a region lies between its base and its end.
LEMMA FrameInRegion ==
  ASSUME NEW a, SpaceOK(a), NEW i \in 1 .. 3, NEW k \in 0 .. RegionPages(a, i) - 1
  PROVE  LET f == a.pbase[i] + k * PAGE_SIZE
         IN /\ f \in Nat /\ a.pbase[i] <= f /\ k * PAGE_SIZE \in Nat
            /\ f + PAGE_SIZE <= a.pbase[i] + RegionPages(a, i) * PAGE_SIZE
            /\ f % PAGE_SIZE = 0
<1> DEFINE n == RegionPages(a, i)
<1>1. n \in Nat /\ n * PAGE_SIZE \in Nat /\ a.pbase[i] \in Nat
      /\ a.pbase[i] % PAGE_SIZE = 0
  BY Regions, Pages
<1>2. k \in Int /\ k < n /\ 0 <= k
  BY <1>1
<1> HIDE DEF n
<1>3. k * PAGE_SIZE + PAGE_SIZE <= n * PAGE_SIZE
  BY <1>1, <1>2, Constants, TimesOrder
<1>4. k * PAGE_SIZE \in Nat
  BY <1>2, Constants
<1>5. (k * PAGE_SIZE) % PAGE_SIZE = 0
  <2>1. \A c, d \in Int : c = d * PAGE_SIZE => c % PAGE_SIZE = 0
    BY PageArithmetic
  <2> QED BY <2>1, <1>2, <1>4
<1>6. (a.pbase[i] + k * PAGE_SIZE) % PAGE_SIZE = 0
  <2>1. a.pbase[i] \in Int /\ k * PAGE_SIZE \in Int
    BY <1>1, <1>4
  <2> QED BY <2>1, <1>1, <1>5, PageArithmetic, Zenon
<1> QED BY <1>1, <1>3, <1>4, <1>6, Constants DEF n

\* The same for a page that is named as one of the region's.
LEMMA RegionRange ==
  ASSUME NEW a, SpaceOK(a), NEW i \in 1 .. 3, NEW f \in RegionFrames(a, i)
  PROVE  /\ f \in Nat /\ a.pbase[i] <= f /\ f % PAGE_SIZE = 0 /\ a.pbase[i] # 0
         /\ f + PAGE_SIZE <= a.pbase[i] + RegionPages(a, i) * PAGE_SIZE
<1>1. a.pbase[i] # 0
  BY DEF RegionFrames
<1>2. PICK k \in 0 .. RegionPages(a, i) - 1 : f = a.pbase[i] + k * PAGE_SIZE
  BY <1>1 DEF RegionFrames
<1> QED BY <1>1, <1>2, FrameInRegion

\* vm_fault's translation is a page of the region that the address is in: its
\* comparison of wrapped sums never takes an address beyond the region.
LEMMA Translation ==
  ASSUME NEW a, SpaceOK(a), NEW v \in Page, Translate(a, v) # NULL
  PROVE  /\ Translate(a, v) \in Page
         /\ \E i \in 1 .. 3 : \E k \in 0 .. RegionPages(a, i) - 1 :
              /\ a.pbase[i] + k * PAGE_SIZE \in Nat
              /\ Translate(a, v) = (a.pbase[i] + k * PAGE_SIZE) % WORD
<1> DEFINE i == Min(RegionOf(a, v))
           b == RegionBase(a, i)
           n == RegionPages(a, i)
           z == n * PAGE_SIZE
           k == (v - b) \div PAGE_SIZE
<1>1. RegionOf(a, v) # {}
  BY DEF Translate
<1>2. RegionOf(a, v) \subseteq Nat
  BY DEF RegionOf
<1>3. i \in RegionOf(a, v)
  BY <1>1, <1>2, MinOfSet
<1>4. i \in 1 .. 3 /\ b <= v /\ v < (b + z) % WORD
  BY <1>3 DEF RegionOf
<1>5. Translate(a, v) = ((v - b) + a.pbase[i]) % WORD
  BY <1>1 DEF Translate
<1> HIDE DEF i
<1>6. n \in Nat /\ z \in Nat /\ z < WORD /\ b \in Page /\ a.pbase[i] \in Page
  BY <1>4, Regions
<1> HIDE DEF b, n, z
<1>7. b \in Nat /\ b % PAGE_SIZE = 0 /\ v \in Nat /\ v % PAGE_SIZE = 0
      /\ a.pbase[i] \in Nat /\ a.pbase[i] % PAGE_SIZE = 0
  BY <1>6, Pages
<1>8. (b + z) % WORD <= b + z
  <2>1. b + z \in Nat
    BY <1>6, <1>7
  <2> QED BY <2>1, Constants, ModWord
<1>9. v - b < z /\ v - b \in Nat
  <2>1. (b + z) % WORD \in Int
    <3>1. b + z \in Nat
      BY <1>6, <1>7
    <3> QED BY <3>1, Constants
  <2> QED BY <2>1, <1>4, <1>6, <1>7, <1>8
<1>10. (v - b) % PAGE_SIZE = 0
  BY <1>7, PageArithmetic
<1>11. k \in Int /\ v - b = k * PAGE_SIZE
  BY <1>9, <1>10, PageArithmetic
<1> HIDE DEF k
<1>12. k < n
  <2>1. k * PAGE_SIZE < n * PAGE_SIZE
    BY <1>9, <1>11 DEF z
  <2> QED BY <2>1, <1>6, <1>11, TimesOrder, Constants
<1>13. 0 <= k
  <2>1. ~(k < 0)
    <3> SUFFICES ASSUME k < 0 PROVE FALSE
      OBVIOUS
    <3>1. k * PAGE_SIZE + PAGE_SIZE <= 0 * PAGE_SIZE
      BY <1>11, TimesOrder, Constants
    <3> QED BY <3>1, <1>9, <1>11, Constants
  <2> QED BY <2>1, <1>11
<1>14. k \in 0 .. n - 1
  BY <1>6, <1>11, <1>12, <1>13
<1>15. Translate(a, v) = (a.pbase[i] + k * PAGE_SIZE) % WORD
       /\ a.pbase[i] + k * PAGE_SIZE \in Nat
  <2>1. (v - b) + a.pbase[i] = a.pbase[i] + k * PAGE_SIZE
    BY <1>7, <1>11, <1>9
  <2>2. a.pbase[i] + (v - b) \in Nat
    BY <1>7, <1>9
  <2> QED BY <2>1, <2>2, <1>5, <1>11
<1>16. Translate(a, v) \in Page
  <2> DEFINE y == (v - b) + a.pbase[i]
  <2>1. y \in Nat
    BY <1>7, <1>9
  <2>2. y % PAGE_SIZE = 0
    <3>1. v - b \in Int /\ a.pbase[i] \in Int
      BY <1>7, <1>9
    <3> QED BY <3>1, <1>7, <1>10, PageArithmetic, Zenon
  <2>3. Translate(a, v) = y % WORD
    BY <1>5
  <2> HIDE DEF y
  <2>4. (y % WORD) % PAGE_SIZE = 0
    BY <2>1, <2>2, PageArithmetic
  <2>5. y % WORD \in 0 .. WORD - 1
    BY <2>1, ModWord, Constants
  <2> QED BY <2>3, <2>4, <2>5, Pages, Constants
<1> QED BY <1>4, <1>14, <1>15, <1>16 DEF n

\* An address space as as_create makes it.
LEMMA EmptySpace ==
  /\ SpaceOK(EmptyAs) /\ \A i \in 1 .. 3 : EmptyAs.pbase[i] = 0
  /\ EmptyAs.pbase \in [1 .. 3 -> Page] /\ ~SetUp(EmptyAs)
<1>1. EmptyAs \in Addrspace
  BY Pages DEF EmptyAs, Addrspace
<1>2. 0 * PAGE_SIZE < WORD
  BY Constants
<1> QED BY <1>1, <1>2, Pages DEF EmptyAs, SpaceOK, SetUp

-----------------------------------------------------------------------------
(***************************************************************************)
(* The inductive invariant.                                                *)
(***************************************************************************)
Spaces == {a \in Addrspace : SpaceOK(a)}
Places == {"kernel", "load", "user", "fault", "copy", "forkentry", "activate", "exit"}
Entry == [v : UserPage, p : Page]

VarsOK ==
  /\ firstpaddr \in Page /\ lastpaddr = ramsize /\ firstpaddr <= ramsize
  /\ cur \in Thread
  /\ as \in [Thread -> Spaces \cup {NULL, BadAs}]
  /\ newas \in [Thread -> Spaces \cup {NULL}]
  /\ pc \in [Thread -> Places]
  /\ image \in [Thread -> Seq(Segment)]
  /\ seg \in [Thread -> Nat]
  /\ fva \in [Thread -> 0 .. KSEG0 - 1]
  /\ tlb \in [1 .. NUM_TLB -> Entry \cup {NoEntry}]
  /\ mem \in [Frame -> Value]
  /\ kpages \in SUBSET Page
  /\ starts \in 0 .. MaxStarts /\ stores \in 0 .. MaxStores
  /\ wrapped \in BOOLEAN /\ (~wrapped => firstfree - KSEG0 <= firstpaddr)

\* What is true of a thread's address space a and of the copy n it is making
\* at each place q of the code: the regions before s have pages, the others
\* none; a program that runs has pages for all three.
PlaceOK(a, n, q, im, s) ==
  /\ (a = NULL) <=> (q \in {"kernel", "forkentry"})
  /\ (n # NULL) <=> (q \in {"copy", "forkentry"})
  /\ q = "activate" => a = BadAs
  /\ q = "load" => /\ a # BadAs /\ s \in 1 .. 3 /\ (im # <<>> => s = 1)
                   /\ \A j \in 1 .. 3 : (a.pbase[j] # 0) <=> (j < s)
  /\ q \in {"user", "fault", "copy"} /\ a # BadAs => \A j \in 1 .. 3 : a.pbase[j] # 0
  /\ q = "copy" => /\ a # BadAs /\ s \in 1 .. 4
                   /\ n.vbase = a.vbase /\ n.npages = a.npages
                   /\ \A j \in 1 .. 3 : (n.pbase[j] # 0) <=> (j < s)

ThreadsOK == \A t \in Thread : PlaceOK(as[t], newas[t], pc[t], image[t], seg[t])

\* The TLB T while a thread with address space a runs at q, with fault address
\* w: besides TLBSeesCurrent, nothing is mapped while regions get their pages,
\* and the page of a fault that waits for vm_fault is still not mapped.
TLBFor(T, a, q, w) ==
  /\ a # NULL /\ q # "activate" =>
       /\ \A i \in 1 .. NUM_TLB :
            T[i] # NoEntry => a # BadAs /\ T[i].p = Translate(a, T[i].v)
       /\ \A i, j \in 1 .. NUM_TLB : T[i].v = T[j].v /\ T[i] # NoEntry => i = j
  /\ q = "load" => T = Invalid
  /\ q = "fault" => \A i \in 1 .. NUM_TLB : T[i].v # PAGE_FRAME(w)

\* Where the running thread is, unless the kernel has stopped.
Stage == IF panicked = "no" \/ pc[cur] = "activate" THEN pc[cur] ELSE "stopped"

TLBOK == TLBFor(tlb, as[cur], Stage, fva[cur])

VMInv == VarsOK /\ ThreadsOK /\ TLBOK /\ PagesOwnedOnce /\ PanicsOnlyFromImage

\* Address spaces are no null pointers, and the operations on them keep their
\* regions within the word.
LEMMA NotNull ==
  /\ \A a : SpaceOK(a) => a # NULL /\ a # BadAs /\ a \in Spaces
  /\ \A a \in Spaces : SpaceOK(a)
  /\ BadAs # NULL /\ BadAs \notin Spaces /\ NULL \notin Spaces
BY PointerAssumption, VMAssumption DEF SpaceOK, Spaces

LEMMA GivePages ==
  ASSUME NEW a, SpaceOK(a), NEW i \in 1 .. 3, NEW p \in Page
  PROVE  LET b == [a EXCEPT !.pbase[i] = p]
         IN /\ SpaceOK(b) /\ b.vbase = a.vbase /\ b.npages = a.npages
            /\ b.pbase = [a.pbase EXCEPT ![i] = p]
            /\ b.pbase[i] = p /\ \A j \in 1 .. 3 : j # i => b.pbase[j] = a.pbase[j]
BY DEF SpaceOK, Addrspace

LEMMA DefineRegion ==
  ASSUME NEW a, SpaceOK(a), NEW i \in 1 .. 2, NEW s \in Segment
  PROVE  LET b == [a EXCEPT !.vbase[i] = PAGE_FRAME(s.vaddr),
                            !.npages[i] = RegionSize(s.vaddr, s.sz) \div PAGE_SIZE]
         IN SpaceOK(b) /\ b.pbase = a.pbase
<1> DEFINE n == RegionSize(s.vaddr, s.sz) \div PAGE_SIZE
           w == PAGE_FRAME(s.vaddr)
<1>1. n \in Nat /\ n * PAGE_SIZE < WORD
  BY SegmentPages
<1>2. s.vaddr \in Nat /\ s.vaddr < WORD
  BY Constants DEF Segment
<1>3. w \in Page
  BY <1>2, FrameOfAddress
<1> HIDE DEF n, w
<1>4. LET b == [a EXCEPT !.vbase[i] = w, !.npages[i] = n]
      IN SpaceOK(b) /\ b.pbase = a.pbase
  BY <1>1, <1>3 DEF SpaceOK, Addrspace
<1> QED BY <1>4 DEF n, w

LEMMA CopyRegions ==
  ASSUME NEW a, SpaceOK(a)
  PROVE  LET b == [a EXCEPT !.pbase = EmptyAs.pbase]
         IN /\ SpaceOK(b) /\ b.vbase = a.vbase /\ b.npages = a.npages
            /\ \A i \in 1 .. 3 : b.pbase[i] = 0
BY EmptySpace DEF SpaceOK, Addrspace

\* What getppages does with a request that fits in the word.
LEMMA Grant ==
  ASSUME VarsOK, NEW n \in Nat, n * PAGE_SIZE < WORD, getppages(n)
  PROVE  /\ firstpaddr' \in Page /\ firstpaddr' <= ramsize
         /\ lastpaddr' = lastpaddr /\ wrapped' \in BOOLEAN /\ (wrapped => wrapped')
         /\ paddr(n) \in Page
         /\ ~wrapped' => /\ firstfree - KSEG0 <= firstpaddr' /\ firstpaddr <= firstpaddr'
                         /\ \/ paddr(n) = 0 /\ firstpaddr' = firstpaddr
                            \/ paddr(n) = firstpaddr /\ firstpaddr' = firstpaddr + n * PAGE_SIZE
<1> DEFINE z == StealSize(n)
<1>1. /\ (firstpaddr + z) % WORD \in Page /\ firstpaddr + z \in Nat
      /\ firstpaddr + z < WORD => (firstpaddr + z) % WORD = firstpaddr + n * PAGE_SIZE
  BY NextFreePage DEF VarsOK
<1>2. firstpaddr \in Nat /\ ramsize \in Nat /\ n * PAGE_SIZE \in Nat /\ WORD \in Nat
      /\ firstfree - KSEG0 \in Nat
  BY Pages, Constants, StealBytes DEF VarsOK
<1> HIDE DEF z
<1>3. CASE Fits(n)
  <2>1. firstpaddr' = (firstpaddr + z) % WORD /\ lastpaddr' = lastpaddr
        /\ wrapped' = (wrapped \/ firstpaddr + z >= WORD)
    BY <1>3 DEF getppages, NextFree, z
  <2>2. (firstpaddr + z) % WORD <= ramsize /\ paddr(n) = firstpaddr
    BY <1>3 DEF Fits, z, VarsOK, paddr
  <2>3. ~wrapped' => firstpaddr' = firstpaddr + n * PAGE_SIZE /\ ~wrapped
    <3>1. ~wrapped' => ~wrapped /\ ~(firstpaddr + z >= WORD)
      BY <2>1, Zenon
    <3>2. ~(firstpaddr + z >= WORD) => firstpaddr + z < WORD
      BY <1>1, <1>2
    <3> QED BY <3>1, <3>2, <2>1, <1>1
  <2> QED BY <2>1, <2>2, <2>3, <1>1, <1>2 DEF VarsOK
<1>4. CASE ~Fits(n)
  <2>1. UNCHANGED <<firstpaddr, lastpaddr, wrapped>> /\ paddr(n) = 0
    BY <1>4 DEF getppages, paddr
  <2> QED BY <2>1, <1>2, Pages DEF VarsOK
<1> QED BY <1>3, <1>4

\* The address spaces of a thread, by its place.
LEMMA AtPlace ==
  ASSUME VarsOK, ThreadsOK, NEW t \in Thread
  PROVE  /\ pc[t] \in Places /\ seg[t] \in Nat /\ image[t] \in Seq(Segment)
         /\ PlaceOK(as[t], newas[t], pc[t], image[t], seg[t])
         /\ as[t] \notin {NULL, BadAs} => SpaceOK(as[t])
         /\ newas[t] # NULL => SpaceOK(newas[t])
         /\ pc[t] \in {"load", "copy"} => SpaceOK(as[t])
         /\ pc[t] \in {"copy", "forkentry"} => SpaceOK(newas[t])
         /\ pc[t] \in {"user", "fault", "exit"} /\ as[t] # BadAs => SpaceOK(as[t])
<1>1. as[t] \in Spaces \cup {NULL, BadAs} /\ newas[t] \in Spaces \cup {NULL}
      /\ pc[t] \in Places /\ seg[t] \in Nat /\ image[t] \in Seq(Segment)
  BY DEF VarsOK
<1>2. PlaceOK(as[t], newas[t], pc[t], image[t], seg[t])
  BY DEF ThreadsOK
<1> QED BY <1>1, <1>2, NotNull DEF PlaceOK, Places

\* as_define_region: either no region is left, or one gets its base and size.
LEMMA DefineEffect ==
  ASSUME VarsOK, ThreadsOK, NEW t \in Thread, as_define_region(t)
  PROVE  /\ pc[t] = "load" /\ image[t] # <<>> /\ SpaceOK(as[t]) /\ Runs(t)
         /\ \/ as' = as /\ pc' = [pc EXCEPT ![t] = "exit"]
               /\ image' = [image EXCEPT ![t] = <<>>]
            \/ /\ \E b : as' = [as EXCEPT ![t] = b] /\ SpaceOK(b) /\ b.pbase = as[t].pbase
               /\ pc' = pc
               /\ \E im \in Seq(Segment) : image' = [image EXCEPT ![t] = im]
<1> DEFINE a == as[t]
           s == Head(image[t])
           free == {i \in 1 .. 2 : as[t].vbase[i] = 0}
           b == [a EXCEPT !.vbase[Min(free)] = PAGE_FRAME(s.vaddr),
                          !.npages[Min(free)] = RegionSize(s.vaddr, s.sz) \div PAGE_SIZE]
<1>1. pc[t] = "load" /\ image[t] # <<>> /\ Runs(t)
  BY DEF as_define_region
<1>2. SpaceOK(a) /\ image[t] \in Seq(Segment)
  BY <1>1, AtPlace
<1>3. s \in Segment /\ Tail(image[t]) \in Seq(Segment)
  BY <1>1, <1>2
<1>4. CASE free = {}
  BY <1>1, <1>2, <1>4 DEF as_define_region
<1>5. CASE free # {}
  <2>1. as' = [as EXCEPT ![t] = b] /\ pc' = pc
        /\ image' = [image EXCEPT ![t] = Tail(image[t])]
    BY <1>5 DEF as_define_region
  <2>2. Min(free) \in 1 .. 2
    <3>1. free \subseteq 1 .. 2
      BY Zenon
    <3> HIDE DEF free
    <3>2. free \in SUBSET Nat
      BY <3>1
    <3>3. Min(free) \in free
      BY <3>2, <1>5, MinOfSet
    <3> QED BY <3>1, <3>3
  <2>3. SpaceOK(b) /\ b.pbase = a.pbase
    <3> HIDE DEF free, s
    <3> QED BY <2>2, <1>2, <1>3, DefineRegion
  <2> QED BY <2>1, <2>3, <1>1, <1>2, <1>3
<1> QED BY <1>4, <1>5

\* as_prepare_load never fails its assertion; its region gets what getppages
\* returns.
LEMMA LoadEffect ==
  ASSUME VarsOK, ThreadsOK, NEW t \in Thread, as_prepare_load(t)
  PROVE  LET n == RegionPages(as[t], seg[t])
             b == [as[t] EXCEPT !.pbase[seg[t]] = paddr(n)]
         IN /\ pc[t] = "load" /\ image[t] = <<>> /\ SpaceOK(as[t]) /\ Runs(t)
            /\ seg[t] \in 1 .. 3
            /\ n \in Nat /\ n * PAGE_SIZE < WORD /\ getppages(n)
            /\ as' = [as EXCEPT ![t] = b]
            /\ pc' = [pc EXCEPT ![t] = IF paddr(n) = 0 THEN "exit"
                                       ELSE IF seg[t] = 3 THEN "user" ELSE "load"]
            /\ seg' = [seg EXCEPT ![t] = IF paddr(n) # 0 /\ seg[t] < 3 THEN seg[t] + 1 ELSE 0]
            /\ UNCHANGED panicked
<1> DEFINE n == RegionPages(as[t], seg[t])
<1>1. pc[t] = "load" /\ image[t] = <<>> /\ Runs(t)
  BY DEF as_prepare_load
<1>2. SpaceOK(as[t]) /\ seg[t] \in 1 .. 3 /\ as[t].pbase[seg[t]] = 0
  <2>1. /\ SpaceOK(as[t]) /\ seg[t] \in 1 .. 3
        /\ \A j \in 1 .. 3 : (as[t].pbase[j] # 0) <=> (j < seg[t])
    BY <1>1, AtPlace DEF PlaceOK
  <2>2. ~(seg[t] < seg[t])
    BY <2>1
  <2> QED BY <2>1, <2>2
<1>3. n \in Nat /\ n * PAGE_SIZE < WORD
  BY <1>2, Regions
<1>4. /\ getppages(n)
      /\ as' = [as EXCEPT ![t].pbase[seg[t]] = paddr(n)]
      /\ pc' = [pc EXCEPT ![t] = IF paddr(n) = 0 THEN "exit"
                                 ELSE IF seg[t] = 3 THEN "user" ELSE "load"]
      /\ seg' = [seg EXCEPT ![t] = IF paddr(n) # 0 /\ seg[t] < 3 THEN seg[t] + 1 ELSE 0]
      /\ UNCHANGED panicked
  BY <1>2 DEF as_prepare_load, NoMemory, VarsOK
<1> HIDE DEF n
<1> QED BY <1>1, <1>2, <1>3, <1>4 DEF n

\* as_copy_region: the copy is dropped, or its next region gets its pages.
LEMMA CopyRegionEffect ==
  ASSUME VarsOK, ThreadsOK, NEW t \in Thread, as_copy_region(t)
  PROVE  LET n == RegionPages(newas[t], seg[t])
             b == [newas[t] EXCEPT !.pbase[seg[t]] = paddr(n)]
         IN /\ pc[t] = "copy" /\ SpaceOK(as[t]) /\ SpaceOK(newas[t]) /\ Runs(t)
            /\ seg[t] \in 1 .. 3
            /\ n \in Nat /\ n * PAGE_SIZE < WORD /\ getppages(n)
            /\ \/ /\ newas' = [newas EXCEPT ![t] = NULL]
                  /\ pc' = [pc EXCEPT ![t] = "user"]
                  /\ seg' = [seg EXCEPT ![t] = 0]
               \/ /\ paddr(n) # 0
                  /\ newas' = [newas EXCEPT ![t] = b] /\ pc' = pc
                  /\ seg' = [seg EXCEPT ![t] = seg[t] + 1]
<1> DEFINE n == RegionPages(newas[t], seg[t])
<1>1. pc[t] = "copy" /\ seg[t] <= 3 /\ Runs(t)
  BY DEF as_copy_region
<1>2. SpaceOK(as[t]) /\ SpaceOK(newas[t]) /\ seg[t] \in 1 .. 3
  <2>1. SpaceOK(as[t]) /\ SpaceOK(newas[t]) /\ seg[t] \in 1 .. 4
    BY <1>1, AtPlace DEF PlaceOK
  <2> QED BY <2>1, <1>1
<1>3. n \in Nat /\ n * PAGE_SIZE < WORD
  BY <1>2, Regions
<1>4. /\ getppages(n)
      /\ \/ /\ newas' = [newas EXCEPT ![t] = NULL]
            /\ pc' = [pc EXCEPT ![t] = "user"]
            /\ seg' = [seg EXCEPT ![t] = 0]
         \/ /\ paddr(n) # 0
            /\ newas' = [newas EXCEPT ![t].pbase[seg[t]] = paddr(n)] /\ pc' = pc
            /\ seg' = [seg EXCEPT ![t] = seg[t] + 1]
  BY DEF as_copy_region, NoMemory, VarsOK
<1> HIDE DEF n
<1> QED BY <1>1, <1>2, <1>3, <1>4 DEF n

-----------------------------------------------------------------------------
(***************************************************************************)
(* Every step keeps the invariant.                                         *)
(***************************************************************************)

\* A translation that vm_fault enters in the TLB is one of user pages.
LEMMA FaultPage ==
  ASSUME VarsOK, NEW t \in Thread
  PROVE  PAGE_FRAME(fva[t]) \in UserPage /\ PAGE_FRAME(fva[t]) \in Page
<1>1. fva[t] \in 0 .. KSEG0 - 1
  BY DEF VarsOK
<1>2. fva[t] \in Nat /\ fva[t] < WORD /\ fva[t] < KSEG0
  BY <1>1, Constants
<1>3. PAGE_FRAME(fva[t]) \in Page /\ PAGE_FRAME(fva[t]) <= fva[t]
  BY <1>2, FrameOfAddress
<1>4. PAGE_FRAME(fva[t]) \in Nat
  BY <1>3, Pages
<1>5. PAGE_FRAME(fva[t]) < KSEG0
  BY <1>2, <1>3, <1>4, Constants
<1> QED BY <1>3, <1>5 DEF UserPage, USERSTACK

\* vm_fault panics, kills the process, or enters one translation in a free slot.
LEMMA FaultEffect ==
  ASSUME VarsOK, ThreadsOK, NEW t \in Thread, vm_fault(t)
  PROVE  /\ pc[t] = "fault" /\ Runs(t) /\ fva' = [fva EXCEPT ![t] = 0]
         /\ \/ /\ pc' = pc /\ tlb' = tlb
               /\ \/ panicked' = "pointer"
                  \/ panicked' = "assert" /\ SpaceOK(as[t]) /\ ~SetUp(as[t])
            \/ pc' = [pc EXCEPT ![t] = "exit"] /\ tlb' = tlb /\ panicked' = panicked
            \/ /\ as[t] # BadAs /\ SetUp(as[t])
               /\ \E j \in 1 .. NUM_TLB : \E p \in Page :
                    /\ tlb[j] = NoEntry
                    /\ p = Translate(as[t], PAGE_FRAME(fva[t]))
                    /\ tlb' = [tlb EXCEPT ![j] = [v |-> PAGE_FRAME(fva[t]), p |-> p]]
               /\ pc' = [pc EXCEPT ![t] = "user"] /\ panicked' = panicked
<1> DEFINE w == PAGE_FRAME(fva[t])
<1>1. pc[t] = "fault" /\ Runs(t) /\ fva' = [fva EXCEPT ![t] = 0]
  BY DEF vm_fault
<1>2. as[t] # BadAs => SpaceOK(as[t])
  BY <1>1, AtPlace
<1>3. CASE as[t] = BadAs \/ ~SetUp(as[t])
  BY <1>1, <1>2, <1>3 DEF vm_fault
<1>4. CASE as[t] # BadAs /\ SetUp(as[t]) /\ (Translate(as[t], w) = NULL \/ FreeSlots = {})
  BY <1>1, <1>4 DEF vm_fault
<1>5. CASE as[t] # BadAs /\ SetUp(as[t]) /\ ~(Translate(as[t], w) = NULL \/ FreeSlots = {})
  <2>1. FreeSlots \subseteq 1 .. NUM_TLB
    BY DEF FreeSlots
  <2>2. FreeSlots \in SUBSET Nat
    BY <2>1, VMAssumption
  <2>3. Min(FreeSlots) \in FreeSlots
    BY <2>2, <1>5, MinOfSet
  <2>4. Min(FreeSlots) \in 1 .. NUM_TLB /\ tlb[Min(FreeSlots)] = NoEntry
    BY <2>3 DEF FreeSlots
  <2>5. w \in Page
    BY FaultPage
  <2>6. Translate(as[t], w) \in Page
    <3> HIDE DEF w
    <3> QED BY <2>5, <1>2, <1>5, Translation
  <2>7. tlb' = [tlb EXCEPT ![Min(FreeSlots)] = [v |-> w, p |-> Translate(as[t], w)]]
        /\ pc' = [pc EXCEPT ![t] = "user"] /\ UNCHANGED panicked
    BY <1>5 DEF vm_fault
  <2> HIDE DEF w
  <2>8. \E j \in 1 .. NUM_TLB : \E p \in Page :
          tlb[j] = NoEntry /\ p = Translate(as[t], w) /\ tlb' = [tlb EXCEPT ![j] = [v |-> w, p |-> p]]
    BY <2>4, <2>6, <2>7
  <2> QED BY <2>7, <2>8, <1>1, <1>5 DEF w
<1> QED BY <1>3, <1>4, <1>5

\* The memmoves of as_copy read pages of the old address space.
LEMMA MovesRead ==
  ASSUME VarsOK, ThreadsOK, NEW t \in Thread, pc[t] = "copy",
         NEW i \in 1 .. 3, NEW f \in RegionFrames(newas[t], i)
  PROVE  as[t].pbase[i] + (f - newas[t].pbase[i]) \in RegionFrames(as[t], i)
<1> DEFINE old == as[t]  new == newas[t]
<1>1. SpaceOK(old) /\ SpaceOK(new) /\ old.pbase[i] # 0
      /\ RegionPages(new, i) = RegionPages(old, i)
  BY AtPlace, NotNull DEF PlaceOK, RegionPages
<1>2. new.pbase[i] # 0
  BY DEF RegionFrames
<1>3. PICK k \in 0 .. RegionPages(new, i) - 1 : f = new.pbase[i] + k * PAGE_SIZE
  BY <1>2 DEF RegionFrames
<1>4. new.pbase[i] \in Nat /\ old.pbase[i] \in Nat /\ k * PAGE_SIZE \in Nat
  <2>1. new.pbase[i] \in Nat /\ old.pbase[i] \in Nat
    BY <1>1, Regions, Pages
  <2>2. k * PAGE_SIZE \in Nat
    BY <1>1, FrameInRegion
  <2> QED BY <2>1, <2>2
<1>5. old.pbase[i] + (f - new.pbase[i]) = old.pbase[i] + k * PAGE_SIZE
  <2>1. ASSUME NEW x \in Nat, NEW y \in Nat, NEW z \in Nat, f = y + z
        PROVE  x + (f - y) = x + z
    BY <2>1
  <2> QED BY <2>1, <1>3, <1>4
<1> QED BY <1>1, <1>3, <1>5 DEF RegionFrames

LEMMA ClearedTLB ==
  /\ Invalid \in [1 .. NUM_TLB -> Entry \cup {NoEntry}]
  /\ \A i \in 1 .. NUM_TLB : Invalid[i] = NoEntry /\ Invalid[i].v = NULL
  /\ \A e \in Entry : e # NoEntry /\ e.v \in Page /\ e.v \in UserPage /\ e.p \in Page /\ e.v # NULL
<1>1. NULL \notin Page
  BY Pages, VMAssumption
<1> QED BY <1>1 DEF Invalid, NoEntry, Entry, UserPage

LEMMA VarsStep ==
  ASSUME VarsOK, ThreadsOK, Next
  PROVE  VarsOK'
<1> USE DEF Places
<1>1. ASSUME NEW t \in Thread, NEW n \in KernelRequest, alloc_kpages(t, n)
      PROVE  VarsOK'
  <2>1. n \in Nat /\ n * PAGE_SIZE < WORD
    BY <1>1, VMAssumption DEF alloc_kpages
  <2>2. getppages(n)
    BY <1>1 DEF alloc_kpages
  <2>3. /\ firstpaddr' \in Page /\ firstpaddr' <= ramsize
        /\ lastpaddr' = lastpaddr /\ wrapped' \in BOOLEAN /\ paddr(n) \in Page
        /\ ~wrapped' => firstfree - KSEG0 <= firstpaddr'
    BY <2>1, <2>2, Grant
  <2>4. \A k \in 0 .. n - 1 : (paddr(n) + k * PAGE_SIZE) % WORD \in Page
    BY <2>1, <2>3, KernelPages
  <2>5. kpages' \in SUBSET Page
    BY <1>1, <2>4 DEF VarsOK, alloc_kpages
  <2> QED BY <1>1, <2>3, <2>5 DEF VarsOK, alloc_kpages
<1>2. ASSUME NEW t \in Thread, NEW i \in Image, runprogram(t, i)
      PROVE  VarsOK'
  <2>1. EmptyAs \in Spaces
    BY EmptySpace, NotNull
  <2>2. i \in Seq(Segment)
    BY VMAssumption
  <2>3. starts' \in 0 .. MaxStarts
    <3>1. MaxStarts \in Nat
      BY VMAssumption
    <3>2. starts \in 0 .. MaxStarts /\ starts < MaxStarts /\ starts' = starts + 1
      BY <1>2 DEF runprogram, VarsOK
    <3> QED BY <3>1, <3>2
  <2> QED BY <1>2, <2>1, <2>2, <2>3, ClearedTLB DEF VarsOK, runprogram
<1>3. ASSUME NEW t \in Thread, as_define_region(t)
      PROVE  VarsOK'
  <2>1. /\ as' \in [Thread -> Spaces \cup {NULL, BadAs}]
        /\ pc' \in [Thread -> Places]
        /\ image' \in [Thread -> Seq(Segment)]
    <3>1. CASE as' = as /\ pc' = [pc EXCEPT ![t] = "exit"] /\ image' = [image EXCEPT ![t] = <<>>]
      <4>1. <<>> \in Seq(Segment)
        OBVIOUS
      <4> QED BY <3>1, <4>1 DEF VarsOK
    <3>2. CASE /\ \E b : as' = [as EXCEPT ![t] = b] /\ SpaceOK(b) /\ b.pbase = as[t].pbase
               /\ pc' = pc
               /\ \E im \in Seq(Segment) : image' = [image EXCEPT ![t] = im]
      <4>1. PICK b : as' = [as EXCEPT ![t] = b] /\ SpaceOK(b)
        BY <3>2
      <4>2. b \in Spaces
        BY <4>1, NotNull
      <4> QED BY <3>2, <4>1, <4>2 DEF VarsOK
    <3> QED BY <3>1, <3>2, <1>3, DefineEffect
  <2> QED BY <1>3, <2>1 DEF VarsOK, as_define_region
<1>4. ASSUME NEW t \in Thread, as_prepare_load(t)
      PROVE  VarsOK'
  <2> DEFINE n == RegionPages(as[t], seg[t])
             b == [as[t] EXCEPT !.pbase[seg[t]] = paddr(n)]
  <2>1. /\ SpaceOK(as[t]) /\ seg[t] \in 1 .. 3
        /\ n \in Nat /\ n * PAGE_SIZE < WORD /\ getppages(n)
        /\ as' = [as EXCEPT ![t] = b]
        /\ pc' = [pc EXCEPT ![t] = IF paddr(n) = 0 THEN "exit"
                                   ELSE IF seg[t] = 3 THEN "user" ELSE "load"]
        /\ seg' = [seg EXCEPT ![t] = IF paddr(n) # 0 /\ seg[t] < 3 THEN seg[t] + 1 ELSE 0]
    BY <1>4, LoadEffect
  <2> HIDE DEF n
  <2>2. /\ firstpaddr' \in Page /\ firstpaddr' <= ramsize
        /\ lastpaddr' = lastpaddr /\ wrapped' \in BOOLEAN /\ paddr(n) \in Page
        /\ ~wrapped' => firstfree - KSEG0 <= firstpaddr'
    BY <2>1, Grant
  <2>3. b \in Spaces
    BY <2>1, <2>2, GivePages, NotNull
  <2> HIDE DEF b
  <2>4. as' \in [Thread -> Spaces \cup {NULL, BadAs}] /\ pc' \in [Thread -> Places]
        /\ seg' \in [Thread -> Nat]
    <3>1. as' \in [Thread -> Spaces \cup {NULL, BadAs}]
      BY <2>1, <2>3 DEF VarsOK
    <3>2. pc' \in [Thread -> Places]
      BY <2>1 DEF VarsOK
    <3>3. (IF paddr(n) # 0 /\ seg[t] < 3 THEN seg[t] + 1 ELSE 0) \in Nat
      BY <2>1
    <3>4. seg' \in [Thread -> Nat]
      BY <2>1, <3>3 DEF VarsOK
    <3> QED BY <3>1, <3>2, <3>4
  <2> QED BY <1>4, <2>2, <2>4 DEF VarsOK, as_prepare_load
<1>5. ASSUME NEW t \in Thread, as_copy(t)
      PROVE  VarsOK'
  <2>1. SpaceOK(as[t])
    BY <1>5, AtPlace DEF as_copy, Running
  <2>2. [as[t] EXCEPT !.pbase = EmptyAs.pbase] \in Spaces
    BY <2>1, CopyRegions, NotNull
  <2> QED BY <1>5, <2>2 DEF VarsOK, as_copy
<1>6. ASSUME NEW t \in Thread, as_copy_region(t)
      PROVE  VarsOK'
  <2> DEFINE n == RegionPages(newas[t], seg[t])
             b == [newas[t] EXCEPT !.pbase[seg[t]] = paddr(n)]
  <2>1. /\ SpaceOK(newas[t]) /\ seg[t] \in 1 .. 3
        /\ n \in Nat /\ n * PAGE_SIZE < WORD /\ getppages(n)
        /\ \/ /\ newas' = [newas EXCEPT ![t] = NULL]
              /\ pc' = [pc EXCEPT ![t] = "user"]
              /\ seg' = [seg EXCEPT ![t] = 0]
           \/ /\ newas' = [newas EXCEPT ![t] = b] /\ pc' = pc
              /\ seg' = [seg EXCEPT ![t] = seg[t] + 1]
    BY <1>6, CopyRegionEffect
  <2> HIDE DEF n
  <2>2. /\ firstpaddr' \in Page /\ firstpaddr' <= ramsize
        /\ lastpaddr' = lastpaddr /\ wrapped' \in BOOLEAN /\ paddr(n) \in Page
        /\ ~wrapped' => firstfree - KSEG0 <= firstpaddr'
    BY <2>1, Grant
  <2>3. b \in Spaces
    BY <2>1, <2>2, GivePages, NotNull
  <2> HIDE DEF b
  <2>4. newas' \in [Thread -> Spaces \cup {NULL}] /\ pc' \in [Thread -> Places]
        /\ seg' \in [Thread -> Nat]
    <3>1. newas' \in [Thread -> Spaces \cup {NULL}]
      BY <2>1, <2>3 DEF VarsOK
    <3>2. pc' \in [Thread -> Places]
      BY <2>1 DEF VarsOK
    <3>3. seg[t] + 1 \in Nat /\ 0 \in Nat
      BY <2>1
    <3>4. seg' \in [Thread -> Nat]
      BY <2>1, <3>3 DEF VarsOK
    <3> QED BY <3>1, <3>2, <3>4
  <2> QED BY <1>6, <2>2, <2>4 DEF VarsOK, as_copy_region
<1>7. ASSUME NEW t \in Thread, NEW c \in Thread, as_copy_move(t, c)
      PROVE  VarsOK'
  <2> DEFINE old == as[t]  new == newas[t]
             touched == UNION {RegionFrames(old, i) \cup RegionFrames(new, i) : i \in 1 .. 3}
  <2>1. CASE ~(touched \subseteq Frame)
    <3>1. UNCHANGED <<mem, newas, pc, seg>>
      BY <1>7, <2>1 DEF as_copy_move
    <3> QED BY <1>7, <3>1 DEF VarsOK, as_copy_move
  <2>2. CASE touched \subseteq Frame
    <3>1. /\ mem' = [f \in Frame |->
                       LET from == MovedFrom(old, new, f)
                       IN IF from = {} THEN mem[f] ELSE mem[CHOOSE g \in from : TRUE]]
          /\ newas' = [newas EXCEPT ![t] = NULL, ![c] = new]
          /\ pc' = [pc EXCEPT ![t] = "user", ![c] = "forkentry"]
          /\ seg' = [seg EXCEPT ![t] = 0]
      BY <1>7, <2>2 DEF as_copy_move
    <3>2. pc[t] = "copy"
      BY <1>7 DEF as_copy_move
    <3>3. \A i \in 1 .. 3 : RegionFrames(old, i) \subseteq Frame
      <4> SUFFICES ASSUME NEW i \in 1 .. 3, NEW f \in RegionFrames(old, i) PROVE f \in Frame
        OBVIOUS
      <4>1. f \in touched
        BY ZenonT(30)
      <4> QED BY <4>1, <2>2
    <3>4. ASSUME NEW f \in Frame, MovedFrom(old, new, f) # {}
          PROVE  mem[CHOOSE g \in MovedFrom(old, new, f) : TRUE] \in Value
      <4>1. PICK g : g = CHOOSE h \in MovedFrom(old, new, f) : TRUE
        OBVIOUS
      <4>2. g \in MovedFrom(old, new, f)
        BY <3>4, <4>1
      <4>3. PICK i \in 1 .. 3 : f \in RegionFrames(new, i) /\ g = old.pbase[i] + (f - new.pbase[i])
        BY <4>2 DEF MovedFrom
      <4>4. g \in RegionFrames(old, i)
        BY <4>3, <3>2, MovesRead
      <4>5. g \in Frame
        BY <4>4, <3>3
      <4> QED BY <4>1, <4>5 DEF VarsOK
    <3>5. mem' \in [Frame -> Value]
      BY <3>1, <3>4 DEF VarsOK
    <3>6. newas' \in [Thread -> Spaces \cup {NULL}] /\ pc' \in [Thread -> Places]
          /\ seg' \in [Thread -> Nat]
      BY <3>1 DEF VarsOK
    <3> QED BY <1>7, <3>5, <3>6 DEF VarsOK, as_copy_move
  <2> QED BY <2>1, <2>2
<1>8. ASSUME NEW t \in Thread, md_forkentry(t)
      PROVE  VarsOK'
  BY <1>8 DEF VarsOK, md_forkentry
<1>14. ASSUME NEW t \in Thread, as_activate(t)
      PROVE  VarsOK'
  BY <1>14, ClearedTLB DEF VarsOK, as_activate
<1>9. ASSUME NEW t \in Thread, NEW v \in UserPage, NEW x \in Value, store(t, v, x)
      PROVE  VarsOK'
  <2>1. mem' \in [Frame -> Value]
    BY <1>9 DEF VarsOK, store
  <2>2. stores' \in 0 .. MaxStores
    <3>1. MaxStores \in Nat
      BY VMAssumption
    <3>2. stores \in 0 .. MaxStores /\ stores < MaxStores /\ stores' = stores + 1
      BY <1>9 DEF store, VarsOK
    <3> QED BY <3>1, <3>2
  <2> QED BY <1>9, <2>1, <2>2 DEF VarsOK, store
<1>10. ASSUME NEW t \in Thread, NEW a \in TouchAddr, tlb_miss(t, a)
      PROVE  VarsOK'
  <2>1. a \in 0 .. KSEG0 - 1
    BY VMAssumption
  <2> QED BY <1>10, <2>1 DEF VarsOK, tlb_miss
<1>11. ASSUME NEW t \in Thread, vm_fault(t)
      PROVE  VarsOK'
  <2>0. 0 \in 0 .. KSEG0 - 1
    BY Constants
  <2>1. fva' \in [Thread -> 0 .. KSEG0 - 1]
    BY <1>11, <2>0 DEF VarsOK, vm_fault
  <2>2. pc' \in [Thread -> Places]
    BY <1>11, FaultEffect DEF VarsOK
  <2>3. tlb' \in [1 .. NUM_TLB -> Entry \cup {NoEntry}]
    <3>1. \/ tlb' = tlb
          \/ \E j \in 1 .. NUM_TLB : \E p \in Page :
               tlb' = [tlb EXCEPT ![j] = [v |-> PAGE_FRAME(fva[t]), p |-> p]]
      <4>1. \/ tlb' = tlb
            \/ \E j \in 1 .. NUM_TLB : \E p \in Page :
                 /\ tlb[j] = NoEntry
                 /\ p = Translate(as[t], PAGE_FRAME(fva[t]))
                 /\ tlb' = [tlb EXCEPT ![j] = [v |-> PAGE_FRAME(fva[t]), p |-> p]]
        BY <1>11, FaultEffect
      <4> QED BY <4>1, Zenon
    <3>2. PAGE_FRAME(fva[t]) \in UserPage
      BY FaultPage
    <3> QED BY <3>1, <3>2 DEF VarsOK, Entry
  <2> QED BY <1>11, <2>1, <2>2, <2>3 DEF VarsOK, vm_fault
<1>12. ASSUME NEW t \in Thread, NEW c \in Thread, thread_exit(t, c)
      PROVE  VarsOK'
  <2>1. seg' \in [Thread -> Nat]
    BY <1>12 DEF VarsOK, thread_exit
  <2> QED BY <1>12, <2>1, ClearedTLB DEF VarsOK, thread_exit, ActivateNext
<1>13. ASSUME NEW t \in Thread, mi_switch(t)
      PROVE  VarsOK'
  BY <1>13, ClearedTLB DEF VarsOK, mi_switch, ActivateNext
<1> QED BY <1>1, <1>2, <1>3, <1>4, <1>5, <1>6, <1>7, <1>8, <1>9, <1>10, <1>11, <1>12, <1>13, <1>14 DEF Next

\* A step of t leaves the other threads where they are.
LEMMA OneThread ==
  ASSUME ThreadsOK, NEW t \in Thread,
         \A u \in Thread \ {t} : /\ as'[u] = as[u] /\ newas'[u] = newas[u] /\ pc'[u] = pc[u]
                                 /\ image'[u] = image[u] /\ seg'[u] = seg[u],
         PlaceOK(as'[t], newas'[t], pc'[t], image'[t], seg'[t])
  PROVE  ThreadsOK'
<1> SUFFICES ASSUME NEW u \in Thread
             PROVE  PlaceOK(as'[u], newas'[u], pc'[u], image'[u], seg'[u])
  BY DEF ThreadsOK
<1>1. CASE u = t
  BY <1>1
<1>2. CASE u # t
  BY <1>2 DEF ThreadsOK
<1> QED BY <1>1, <1>2

LEMMA ThreadsStep ==
  ASSUME VarsOK, ThreadsOK, Next
  PROVE  ThreadsOK'
<1>0. ASSUME UNCHANGED <<as, newas, pc, image, seg>>
      PROVE  ThreadsOK'
  BY <1>0 DEF ThreadsOK
<1>1. ASSUME NEW t \in Thread, NEW n \in KernelRequest, alloc_kpages(t, n)
      PROVE  ThreadsOK'
  BY <1>0, <1>1 DEF alloc_kpages
<1>2. ASSUME NEW t \in Thread, NEW i \in Image, runprogram(t, i)
      PROVE  ThreadsOK'
  <2>1. /\ pc[t] = "kernel" /\ as'[t] = EmptyAs /\ newas'[t] = newas[t]
        /\ pc'[t] = "load" /\ seg'[t] = 1
    BY <1>2 DEF runprogram, VarsOK
  <2>2. newas[t] = NULL
    BY <2>1, AtPlace DEF PlaceOK
  <2>3. EmptyAs # NULL /\ EmptyAs # BadAs /\ \A j \in 1 .. 3 : EmptyAs.pbase[j] = 0
    BY EmptySpace, NotNull
  <2>4. PlaceOK(as'[t], newas'[t], pc'[t], image'[t], seg'[t])
    BY <2>1, <2>2, <2>3 DEF PlaceOK
  <2> QED BY <2>4, <1>2, OneThread DEF runprogram, VarsOK
<1>3. ASSUME NEW t \in Thread, as_define_region(t)
      PROVE  ThreadsOK'
  <2>1. pc[t] = "load" /\ image[t] # <<>> /\ newas' = newas /\ seg' = seg
    BY <1>3 DEF as_define_region
  <2>2. PlaceOK(as[t], newas[t], pc[t], image[t], seg[t]) /\ SpaceOK(as[t])
    BY <2>1, AtPlace
  <2>3. CASE as' = as /\ pc' = [pc EXCEPT ![t] = "exit"] /\ image' = [image EXCEPT ![t] = <<>>]
    <3>1. pc'[t] = "exit" /\ as'[t] = as[t] /\ newas'[t] = newas[t]
      BY <2>1, <2>3 DEF VarsOK
    <3>2. PlaceOK(as'[t], newas'[t], pc'[t], image'[t], seg'[t])
      BY <2>1, <2>2, <3>1 DEF PlaceOK
    <3> QED BY <3>2, <2>1, <2>3, OneThread DEF VarsOK
  <2>4. CASE /\ \E b : as' = [as EXCEPT ![t] = b] /\ SpaceOK(b) /\ b.pbase = as[t].pbase
             /\ pc' = pc
             /\ \E im \in Seq(Segment) : image' = [image EXCEPT ![t] = im]
    <3>1. PICK b : as' = [as EXCEPT ![t] = b] /\ SpaceOK(b) /\ b.pbase = as[t].pbase
      BY <2>4
    <3>2. as'[t] = b /\ b # NULL /\ b # BadAs /\ pc'[t] = "load" /\ newas'[t] = newas[t]
          /\ seg'[t] = seg[t]
      BY <3>1, <2>1, <2>4, NotNull DEF VarsOK
    <3>3. PlaceOK(as'[t], newas'[t], pc'[t], image'[t], seg'[t])
      BY <2>1, <2>2, <3>1, <3>2 DEF PlaceOK
    <3> QED BY <3>1, <3>3, <2>1, <2>4, OneThread DEF VarsOK
  <2> QED BY <2>3, <2>4, <1>3, DefineEffect
<1>4. ASSUME NEW t \in Thread, as_prepare_load(t)
      PROVE  ThreadsOK'
  <2> DEFINE n == RegionPages(as[t], seg[t])
             b == [as[t] EXCEPT !.pbase[seg[t]] = paddr(n)]
  <2>1. /\ pc[t] = "load" /\ image[t] = <<>> /\ SpaceOK(as[t]) /\ seg[t] \in 1 .. 3
        /\ n \in Nat /\ n * PAGE_SIZE < WORD /\ getppages(n)
        /\ as' = [as EXCEPT ![t] = b]
        /\ pc' = [pc EXCEPT ![t] = IF paddr(n) = 0 THEN "exit"
                                   ELSE IF seg[t] = 3 THEN "user" ELSE "load"]
        /\ seg' = [seg EXCEPT ![t] = IF paddr(n) # 0 /\ seg[t] < 3 THEN seg[t] + 1 ELSE 0]
    BY <1>4, LoadEffect
  <2> HIDE DEF n
  <2>2. paddr(n) \in Page
    BY <2>1, Grant
  <2>3. /\ SpaceOK(b) /\ b.pbase[seg[t]] = paddr(n)
        /\ \A j \in 1 .. 3 : j # seg[t] => b.pbase[j] = as[t].pbase[j]
    BY <2>1, <2>2 DEF SpaceOK, Addrspace
  <2>4. b # NULL /\ b # BadAs
    BY <2>3, NotNull
  <2> HIDE DEF b
  <2>5. newas' = newas /\ image' = image
    BY <1>4 DEF as_prepare_load
  <2>6. PlaceOK(as[t], newas[t], "load", image[t], seg[t])
    BY <2>1, AtPlace
  <2>a. \A j \in 1 .. 3 : (as[t].pbase[j] # 0) <=> (j < seg[t])
    BY <2>6 DEF PlaceOK
  <2>7. /\ as'[t] = b /\ newas'[t] = newas[t] /\ image'[t] = image[t]
        /\ pc'[t] = (IF paddr(n) = 0 THEN "exit" ELSE IF seg[t] = 3 THEN "user" ELSE "load")
        /\ seg'[t] = IF paddr(n) # 0 /\ seg[t] < 3 THEN seg[t] + 1 ELSE 0
    BY <2>1, <2>5 DEF VarsOK
  <2>8. PlaceOK(as'[t], newas'[t], pc'[t], image'[t], seg'[t])
    <3>1. CASE paddr(n) = 0
      BY <3>1, <2>4, <2>6, <2>7 DEF PlaceOK
    <3>2. CASE paddr(n) # 0 /\ seg[t] = 3
      <4>1. \A j \in 1 .. 3 : b.pbase[j] # 0
        <5>1. \A j \in 1 .. 3 : j # 3 => j < 3
          OBVIOUS
        <5> QED BY <5>1, <3>2, <2>3, <2>a
      <4> QED BY <3>2, <4>1, <2>4, <2>6, <2>7 DEF PlaceOK
    <3>3. CASE paddr(n) # 0 /\ seg[t] # 3
      <4>1. seg[t] + 1 \in 1 .. 3 /\ seg[t] < 3
        BY <3>3, <2>1
      <4>2. \A j \in 1 .. 3 : (b.pbase[j] # 0) <=> (j < seg[t] + 1)
        <5>1. \A j \in 1 .. 3 : j < seg[t] + 1 <=> j < seg[t] \/ j = seg[t]
          BY <2>1
        <5>2. ~(seg[t] < seg[t])
          BY <2>1
        <5> QED BY <5>1, <5>2, <3>3, <2>1, <2>3, <2>a
      <4> QED BY <3>3, <4>1, <4>2, <2>1, <2>4, <2>6, <2>7 DEF PlaceOK
    <3> QED BY <3>1, <3>2, <3>3
  <2> QED BY <2>1, <2>5, <2>8, OneThread DEF VarsOK
<1>5. ASSUME NEW t \in Thread, as_copy(t)
      PROVE  ThreadsOK'
  <2> DEFINE b == [as[t] EXCEPT !.pbase = EmptyAs.pbase]
  <2>1. pc[t] = "user" /\ as[t] # BadAs
    BY <1>5 DEF as_copy, Running
  <2>2. SpaceOK(as[t]) /\ PlaceOK(as[t], newas[t], "user", image[t], seg[t])
    BY <2>1, AtPlace
  <2>3. /\ SpaceOK(b) /\ b.vbase = as[t].vbase /\ b.npages = as[t].npages
        /\ \A j \in 1 .. 3 : b.pbase[j] = 0
    BY <2>2, CopyRegions
  <2>4. as'[t] = as[t] /\ newas'[t] = b /\ pc'[t] = "copy" /\ seg'[t] = 1
    BY <1>5 DEF as_copy, VarsOK
  <2>5. b # NULL
    BY <2>3, NotNull
  <2> HIDE DEF b
  <2>6. PlaceOK(as'[t], newas'[t], pc'[t], image'[t], seg'[t])
    <3>1. \A j \in 1 .. 3 : (b.pbase[j] # 0) <=> (j < 1)
      BY <2>3
    <3>2. as[t] # NULL /\ \A j \in 1 .. 3 : as[t].pbase[j] # 0
      BY <2>1, <2>2 DEF PlaceOK
    <3>3. ASSUME NEW im PROVE PlaceOK(as[t], b, "copy", im, 1)
      <4>1. 1 \in 1 .. 4
        OBVIOUS
      <4> QED BY <4>1, <3>1, <3>2, <2>1, <2>3, <2>5 DEF PlaceOK
    <3> QED BY <3>3, <2>4
  <2> QED BY <2>6, <1>5, OneThread DEF VarsOK, as_copy
<1>6. ASSUME NEW t \in Thread, as_copy_region(t)
      PROVE  ThreadsOK'
  <2> DEFINE n == RegionPages(newas[t], seg[t])
             b == [newas[t] EXCEPT !.pbase[seg[t]] = paddr(n)]
  <2>1. /\ pc[t] = "copy" /\ SpaceOK(newas[t]) /\ seg[t] \in 1 .. 3
        /\ n \in Nat /\ n * PAGE_SIZE < WORD /\ getppages(n)
        /\ \/ /\ newas' = [newas EXCEPT ![t] = NULL]
              /\ pc' = [pc EXCEPT ![t] = "user"]
              /\ seg' = [seg EXCEPT ![t] = 0]
           \/ /\ paddr(n) # 0
              /\ newas' = [newas EXCEPT ![t] = b] /\ pc' = pc
              /\ seg' = [seg EXCEPT ![t] = seg[t] + 1]
    BY <1>6, CopyRegionEffect
  <2> HIDE DEF n
  <2>2. paddr(n) \in Page
    BY <2>1, Grant
  <2>3. /\ SpaceOK(b) /\ b.pbase[seg[t]] = paddr(n)
        /\ b.vbase = newas[t].vbase /\ b.npages = newas[t].npages
        /\ \A j \in 1 .. 3 : j # seg[t] => b.pbase[j] = newas[t].pbase[j]
    BY <2>1, <2>2 DEF SpaceOK, Addrspace
  <2>4. b # NULL
    BY <2>3, NotNull
  <2> HIDE DEF b
  <2>5. as' = as /\ image' = image
    BY <1>6 DEF as_copy_region
  <2>6. PlaceOK(as[t], newas[t], "copy", image[t], seg[t])
    BY <2>1, AtPlace
  <2>7. CASE /\ newas' = [newas EXCEPT ![t] = NULL]
             /\ pc' = [pc EXCEPT ![t] = "user"]
             /\ seg' = [seg EXCEPT ![t] = 0]
    <3>1. as'[t] = as[t] /\ newas'[t] = NULL /\ pc'[t] = "user"
      BY <2>5, <2>7 DEF VarsOK
    <3>2. PlaceOK(as'[t], newas'[t], pc'[t], image'[t], seg'[t])
      BY <3>1, <2>6 DEF PlaceOK
    <3> QED BY <3>2, <2>5, <2>7, OneThread DEF VarsOK
  <2>8. CASE /\ paddr(n) # 0
             /\ newas' = [newas EXCEPT ![t] = b] /\ pc' = pc
             /\ seg' = [seg EXCEPT ![t] = seg[t] + 1]
    <3>1. as'[t] = as[t] /\ newas'[t] = b /\ pc'[t] = "copy" /\ seg'[t] = seg[t] + 1
      BY <2>1, <2>5, <2>8 DEF VarsOK
    <3>2. seg[t] + 1 \in 1 .. 4
      BY <2>1
    <3>3. \A j \in 1 .. 3 : (b.pbase[j] # 0) <=> (j < seg[t] + 1)
      <4>1. \A j \in 1 .. 3 : j < seg[t] + 1 <=> j < seg[t] \/ j = seg[t]
        BY <2>1
      <4>2. \A j \in 1 .. 3 : (newas[t].pbase[j] # 0) <=> (j < seg[t])
        BY <2>6 DEF PlaceOK
      <4> QED BY <4>1, <4>2, <2>8, <2>1, <2>3
    <3>4. PlaceOK(as'[t], newas'[t], pc'[t], image'[t], seg'[t])
      BY <3>1, <3>2, <3>3, <2>3, <2>4, <2>6 DEF PlaceOK
    <3> QED BY <3>4, <2>5, <2>8, OneThread DEF VarsOK
  <2> QED BY <2>1, <2>7, <2>8
<1>7. ASSUME NEW t \in Thread, NEW c \in Thread, as_copy_move(t, c)
      PROVE  ThreadsOK'
  <2>1. as' = as /\ image' = image /\ c # t /\ pc[c] = "kernel" /\ pc[t] = "copy" /\ as[c] = NULL
    BY <1>7 DEF as_copy_move
  <2>2. \/ newas' = newas /\ pc' = pc /\ seg' = seg
        \/ /\ newas' = [newas EXCEPT ![t] = NULL, ![c] = newas[t]]
           /\ pc' = [pc EXCEPT ![t] = "user", ![c] = "forkentry"]
           /\ seg' = [seg EXCEPT ![t] = 0]
    BY <1>7 DEF as_copy_move
  <2>3. CASE newas' = newas /\ pc' = pc /\ seg' = seg
    BY <2>1, <2>3, <1>0
  <2>4. CASE /\ newas' = [newas EXCEPT ![t] = NULL, ![c] = newas[t]]
             /\ pc' = [pc EXCEPT ![t] = "user", ![c] = "forkentry"]
             /\ seg' = [seg EXCEPT ![t] = 0]
    <3>1. /\ newas'[t] = NULL /\ pc'[t] = "user"
          /\ newas'[c] = newas[t] /\ pc'[c] = "forkentry"
          /\ \A u \in Thread \ {t, c} : newas'[u] = newas[u] /\ pc'[u] = pc[u] /\ seg'[u] = seg[u]
      BY <2>1, <2>4 DEF VarsOK
    <3>2. PlaceOK(as[t], newas[t], "copy", image[t], seg[t])
      BY <2>1, AtPlace
    <3>3. newas[t] # NULL
      BY <3>2 DEF PlaceOK
    <3>4. PlaceOK(as'[t], newas'[t], pc'[t], image'[t], seg'[t])
      BY <2>1, <3>1, <3>2 DEF PlaceOK
    <3>5. PlaceOK(as'[c], newas'[c], pc'[c], image'[c], seg'[c])
      BY <2>1, <3>1, <3>3 DEF PlaceOK
    <3>6. \A u \in Thread \ {t, c} : PlaceOK(as'[u], newas'[u], pc'[u], image'[u], seg'[u])
      BY <2>1, <3>1 DEF ThreadsOK
    <3>7. \A u \in Thread : PlaceOK(as'[u], newas'[u], pc'[u], image'[u], seg'[u])
      BY <3>4, <3>5, <3>6
    <3> QED BY <3>7 DEF ThreadsOK
  <2> QED BY <2>2, <2>3, <2>4
<1>8. ASSUME NEW t \in Thread, md_forkentry(t)
      PROVE  ThreadsOK'
  <2>1. as'[t] = BadAs /\ newas'[t] = NULL /\ pc'[t] = "activate"
    BY <1>8 DEF md_forkentry, VarsOK
  <2>2. PlaceOK(as'[t], newas'[t], pc'[t], image'[t], seg'[t])
    BY <2>1, NotNull DEF PlaceOK
  <2> QED BY <2>2, <1>8, OneThread DEF VarsOK, md_forkentry
<1>14. ASSUME NEW t \in Thread, as_activate(t)
      PROVE  ThreadsOK'
  <2>1. as'[t] = as[t] /\ newas'[t] = newas[t] /\ pc[t] = "activate" /\ pc'[t] = "user"
    BY <1>14 DEF as_activate, VarsOK
  <2>2. as[t] = BadAs /\ newas[t] = NULL
    BY <2>1, AtPlace DEF PlaceOK
  <2>3. PlaceOK(as'[t], newas'[t], pc'[t], image'[t], seg'[t])
    BY <2>1, <2>2, NotNull DEF PlaceOK
  <2> QED BY <2>3, <1>14, OneThread DEF VarsOK, as_activate
<1>9. ASSUME NEW t \in Thread, NEW v \in UserPage, NEW x \in Value, store(t, v, x)
      PROVE  ThreadsOK'
  BY <1>0, <1>9 DEF store
<1>10. ASSUME NEW t \in Thread, NEW a \in TouchAddr, tlb_miss(t, a)
      PROVE  ThreadsOK'
  <2>1. /\ as'[t] = as[t] /\ newas'[t] = newas[t] /\ pc'[t] = "fault"
        /\ image'[t] = image[t] /\ seg'[t] = seg[t] /\ pc[t] = "user"
    BY <1>10 DEF tlb_miss, VarsOK
  <2>2. PlaceOK(as'[t], newas'[t], pc'[t], image'[t], seg'[t])
    BY <2>1, AtPlace DEF PlaceOK
  <2> QED BY <2>2, <1>10, OneThread DEF VarsOK, tlb_miss
<1>11. ASSUME NEW t \in Thread, vm_fault(t)
      PROVE  ThreadsOK'
  <2>1. pc[t] = "fault" /\ as' = as /\ newas' = newas /\ image' = image /\ seg' = seg
    BY <1>11 DEF vm_fault
  <2>2. pc' = pc \/ pc' = [pc EXCEPT ![t] = "exit"] \/ pc' = [pc EXCEPT ![t] = "user"]
    BY <1>11, FaultEffect
  <2>3. PlaceOK(as[t], newas[t], "fault", image[t], seg[t])
    BY <2>1, AtPlace
  <2>4. pc'[t] \in {"fault", "exit", "user"}
    BY <2>1, <2>2 DEF VarsOK
  <2>5. PlaceOK(as'[t], newas'[t], pc'[t], image'[t], seg'[t])
    BY <2>1, <2>3, <2>4 DEF PlaceOK
  <2> QED BY <2>1, <2>2, <2>5, OneThread DEF VarsOK
<1>12. ASSUME NEW t \in Thread, NEW c \in Thread, thread_exit(t, c)
      PROVE  ThreadsOK'
  <2>1. /\ as'[t] = NULL /\ newas'[t] = newas[t] /\ pc'[t] = "kernel"
        /\ pc[t] \in {"user", "exit"}
    BY <1>12 DEF thread_exit, VarsOK
  <2>2. PlaceOK(as'[t], newas'[t], pc'[t], image'[t], seg'[t])
    BY <2>1, AtPlace DEF PlaceOK
  <2> QED BY <2>2, <1>12, OneThread DEF VarsOK, thread_exit
<1>13. ASSUME NEW t \in Thread, mi_switch(t)
      PROVE  ThreadsOK'
  BY <1>0, <1>13 DEF mi_switch
<1> QED BY <1>1, <1>2, <1>3, <1>4, <1>5, <1>6, <1>7, <1>8, <1>9, <1>10, <1>11, <1>12, <1>13, <1>14 DEF Next

\* With an invalid TLB, or for a thread without an address space, there is
\* nothing to show.
LEMMA NothingMapped ==
  ASSUME NEW a, NEW q, NEW w, PAGE_FRAME(w) \in Page
  PROVE  TLBFor(Invalid, a, q, w)
<1>1. NULL # PAGE_FRAME(w)
  BY Pages, VMAssumption
<1> QED BY <1>1, ClearedTLB DEF TLBFor

LEMMA SwitchedTLB ==
  ASSUME VarsOK, ThreadsOK, NEW t \in Thread, NEW T, NEW a, NEW q,
         a = as[t], q = pc[t], T = IF a # NULL THEN Invalid ELSE tlb
  PROVE  TLBFor(T, a, q, fva[t])
<1>1. PAGE_FRAME(fva[t]) \in Page
  BY FaultPage
<1>2. CASE a # NULL
  BY <1>1, <1>2, NothingMapped
<1>3. CASE a = NULL
  <2>1. q \in {"kernel", "forkentry"}
    BY <1>3, AtPlace DEF PlaceOK
  <2> QED BY <1>3, <2>1 DEF TLBFor
<1> QED BY <1>2, <1>3

\* A kernel that has stopped takes no step.
LEMMA NothingStopped ==
  ASSUME Next
  PROVE  panicked = "no"
BY ZenonT(30) DEF Next, Runs, alloc_kpages, runprogram, as_define_region, as_prepare_load,
   as_copy, as_copy_region, as_copy_move, md_forkentry, as_activate, store, tlb_miss, vm_fault,
   thread_exit, mi_switch

LEMMA TLBStep ==
  ASSUME VarsOK, ThreadsOK, TLBOK, Next
  PROVE  TLBOK'
<1>0. \A t \in Thread : PAGE_FRAME(fva[t]) \in Page
  BY FaultPage
<1>z. \A t \in Thread : PAGE_FRAME(fva'[t]) \in Page
  <2>1. VarsOK'
    BY VarsStep
  <2>2. \A t \in Thread : fva'[t] \in Nat /\ fva'[t] < WORD
    <3>1. \A t \in Thread : fva'[t] \in 0 .. KSEG0 - 1
      BY <2>1 DEF VarsOK
    <3> QED BY <3>1, Constants
  <2> QED BY <2>2, FrameOfAddress
<1>r. panicked = "no" /\ TLBFor(tlb, as[cur], pc[cur], fva[cur])
  <2>1. panicked = "no"
    BY NothingStopped
  <2> QED BY <2>1 DEF TLBOK, Stage
<1>n. Stage' = pc'[cur'] \/ (Stage' = "stopped" /\ pc'[cur'] # "activate")
  BY DEF Stage
<1>t. ASSUME TLBFor(tlb', as'[cur'], pc'[cur'], fva'[cur'])
      PROVE  TLBOK'
  <2>1. TLBFor(tlb', as'[cur'], Stage', fva'[cur'])
    BY <1>n, <1>t DEF TLBFor
  <2> QED BY <2>1 DEF TLBOK
<1>s. ASSUME UNCHANGED <<tlb, as, pc, fva, cur>>
      PROVE  TLBOK'
  BY <1>s, <1>r, <1>t
<1>i. ASSUME tlb' = Invalid, cur' \in Thread
      PROVE  TLBOK'
  <2>1. PAGE_FRAME(fva'[cur']) \in Page
    BY <1>i, <1>z
  <2>2. TLBFor(Invalid, as'[cur'], Stage', fva'[cur'])
    BY <2>1, NothingMapped
  <2> QED BY <2>2, <1>i DEF TLBOK
<1>w. ASSUME UNCHANGED <<tlb, as, cur>>, pc'[cur] \notin {"load", "fault"}, pc[cur] # "activate"
      PROVE  TLBOK'
  <2>1. TLBFor(tlb, as[cur], pc'[cur], fva'[cur])
    BY <1>r, <1>w DEF TLBFor
  <2> QED BY <2>1, <1>w, <1>t
<1>1. ASSUME NEW t \in Thread, NEW n \in KernelRequest, alloc_kpages(t, n)
      PROVE  TLBOK'
  BY <1>1, <1>s DEF alloc_kpages
<1>2. ASSUME NEW t \in Thread, NEW i \in Image, runprogram(t, i)
      PROVE  TLBOK'
  BY <1>2, <1>i DEF runprogram, Runs
<1>3. ASSUME NEW t \in Thread, as_define_region(t)
      PROVE  TLBOK'
  <2>1. cur' = t /\ cur = t /\ tlb' = tlb /\ pc[t] = "load"
    BY <1>3 DEF as_define_region, Runs
  <2>2. tlb = Invalid
    BY <2>1, <1>r DEF TLBFor
  <2> QED BY <2>1, <2>2, <1>i
<1>4. ASSUME NEW t \in Thread, as_prepare_load(t)
      PROVE  TLBOK'
  <2>1. cur' = t /\ cur = t /\ tlb' = tlb /\ pc[t] = "load"
    BY <1>4 DEF as_prepare_load, Runs
  <2>2. tlb = Invalid
    BY <2>1, <1>r DEF TLBFor
  <2> QED BY <2>1, <2>2, <1>i
<1>5. ASSUME NEW t \in Thread, as_copy(t)
      PROVE  TLBOK'
  BY <1>5, <1>w DEF as_copy, Runs, VarsOK
<1>6. ASSUME NEW t \in Thread, as_copy_region(t)
      PROVE  TLBOK'
  <2>1. UNCHANGED <<tlb, as, cur>> /\ cur = t /\ pc[t] = "copy"
    BY <1>6 DEF as_copy_region, Runs
  <2>2. pc' = pc \/ pc' = [pc EXCEPT ![t] = "user"]
    BY <1>6 DEF as_copy_region
  <2>3. pc'[cur] \in {"copy", "user"}
    BY <2>1, <2>2 DEF VarsOK
  <2> QED BY <2>1, <2>3, <1>w
<1>7. ASSUME NEW t \in Thread, NEW c \in Thread, as_copy_move(t, c)
      PROVE  TLBOK'
  <2>1. UNCHANGED <<tlb, as, cur>> /\ cur = t /\ pc[t] = "copy" /\ c # t
    BY <1>7 DEF as_copy_move, Runs
  <2>2. pc' = pc \/ pc' = [pc EXCEPT ![t] = "user", ![c] = "forkentry"]
    BY <1>7 DEF as_copy_move
  <2>3. pc'[cur] \in {"copy", "user"}
    BY <2>1, <2>2 DEF VarsOK
  <2> QED BY <2>1, <2>3, <1>w
<1>8. ASSUME NEW t \in Thread, md_forkentry(t)
      PROVE  TLBOK'
  <2>1. cur' = cur /\ cur = t /\ pc'[t] = "activate"
    BY <1>8 DEF md_forkentry, Runs, VarsOK
  <2>2. TLBFor(tlb', as'[cur'], pc'[cur'], fva'[cur'])
    BY <2>1 DEF TLBFor
  <2> QED BY <2>2, <1>t
<1>14. ASSUME NEW t \in Thread, as_activate(t)
      PROVE  TLBOK'
  BY <1>14, <1>i DEF as_activate, Runs
<1>9. ASSUME NEW t \in Thread, NEW v \in UserPage, NEW x \in Value, store(t, v, x)
      PROVE  TLBOK'
  BY <1>9, <1>s DEF store
<1>10. ASSUME NEW t \in Thread, NEW a \in TouchAddr, tlb_miss(t, a)
      PROVE  TLBOK'
  <2>1. /\ UNCHANGED <<tlb, as, cur>> /\ cur = t /\ pc[t] = "user"
        /\ pc'[t] = "fault" /\ fva'[t] = a /\ Hits(PAGE_FRAME(a)) = {}
    BY <1>10 DEF tlb_miss, Runs, VarsOK
  <2>2. \A i \in 1 .. NUM_TLB : tlb[i].v # PAGE_FRAME(a)
    BY <2>1 DEF Hits
  <2>3. TLBFor(tlb, as[t], pc[t], fva[t])
    BY <2>1, <1>r
  <2>4. TLBFor(tlb, as[t], "fault", a)
    BY <2>1, <2>2, <2>3 DEF TLBFor
  <2> QED BY <2>1, <2>4, <1>t
<1>11. ASSUME NEW t \in Thread, vm_fault(t)
      PROVE  TLBOK'
  <2> DEFINE w == PAGE_FRAME(fva[t])
  <2>1. cur = t /\ cur' = t /\ as' = as /\ pc[t] = "fault"
    BY <1>11 DEF vm_fault, Runs
  <2>2. TLBFor(tlb, as[t], "fault", fva[t])
    BY <2>1, <1>r
  <2>3. CASE tlb' = tlb /\ panicked' # "no"
    <3>1. Stage' \in {"stopped", "activate"}
      BY <2>3 DEF Stage
    <3>2. TLBFor(tlb', as'[cur'], Stage', fva'[cur'])
      BY <2>1, <2>2, <2>3, <3>1 DEF TLBFor
    <3> QED BY <3>2 DEF TLBOK
  <2>4. CASE pc' = [pc EXCEPT ![t] = "exit"] /\ tlb' = tlb
    <3>1. pc'[cur] \notin {"load", "fault"}
      BY <2>1, <2>4 DEF VarsOK
    <3> QED BY <3>1, <2>1, <2>4, <1>w
  <2>5. ASSUME NEW j \in 1 .. NUM_TLB, NEW p \in Page, as[t] # BadAs,
               tlb[j] = NoEntry, p = Translate(as[t], w),
               tlb' = [tlb EXCEPT ![j] = [v |-> w, p |-> p]],
               pc' = [pc EXCEPT ![t] = "user"]
        PROVE  TLBOK'
    <3>1. \A i \in 1 .. NUM_TLB : tlb[i].v # w
      BY <2>2 DEF TLBFor
    <3> HIDE DEF w
    <3>2. /\ tlb'[j] = [v |-> w, p |-> p]
          /\ \A i \in (1 .. NUM_TLB) \ {j} : tlb'[i] = tlb[i]
      BY <2>5 DEF VarsOK
    <3>3. ASSUME NEW i \in 1 .. NUM_TLB, tlb'[i] # NoEntry
          PROVE  tlb'[i].p = Translate(as[t], tlb'[i].v)
      <4>1. CASE i = j
        BY <4>1, <3>2, <2>5
      <4>2. CASE i # j
        <5>1. as[t] # NULL
          BY <2>1, AtPlace DEF PlaceOK
        <5> QED BY <5>1, <4>2, <3>2, <3>3, <2>2 DEF TLBFor
      <4> QED BY <4>1, <4>2
    <3>4. ASSUME NEW i \in 1 .. NUM_TLB, NEW k \in 1 .. NUM_TLB,
                 tlb'[i].v = tlb'[k].v, tlb'[i] # NoEntry, i # k
          PROVE  FALSE
      <4>1. i # j /\ k # j
        <5>1. tlb'[j].v = w
          BY <3>2
        <5>2. \A h \in (1 .. NUM_TLB) \ {j} : tlb'[h].v # w
          BY <3>1, <3>2
        <5> QED BY <5>1, <5>2, <3>4
      <4>2. as[t] # NULL
        BY <2>1, AtPlace DEF PlaceOK
      <4> QED BY <4>1, <4>2, <3>2, <3>4, <2>2 DEF TLBFor
    <3>5. pc'[t] = "user"
      BY <2>5 DEF VarsOK
    <3>6. TLBFor(tlb', as[t], "user", fva'[t])
      BY <3>3, <3>4, <2>5 DEF TLBFor
    <3> QED BY <3>5, <3>6, <2>1, <1>t
  <2>6. /\ \/ tlb' = tlb /\ panicked' # "no"
           \/ pc' = [pc EXCEPT ![t] = "exit"] /\ tlb' = tlb
           \/ /\ as[t] # BadAs
              /\ \E j \in 1 .. NUM_TLB : \E p \in Page :
                   /\ tlb[j] = NoEntry
                   /\ p = Translate(as[t], PAGE_FRAME(fva[t]))
                   /\ tlb' = [tlb EXCEPT ![j] = [v |-> PAGE_FRAME(fva[t]), p |-> p]]
              /\ pc' = [pc EXCEPT ![t] = "user"]
    BY <1>11, FaultEffect
  <2> QED BY <2>3, <2>4, <2>5, <2>6
<1>12. ASSUME NEW t \in Thread, NEW c \in Thread, thread_exit(t, c)
      PROVE  TLBOK'
  <2>1. /\ cur' = c /\ as'[c] = as[c] /\ pc'[c] = pc[c] /\ fva'[c] = fva[c]
        /\ tlb' = IF as[c] # NULL THEN Invalid ELSE tlb
    BY <1>12 DEF thread_exit, ActivateNext, VarsOK
  <2>2. TLBFor(tlb', as[c], pc[c], fva[c])
    BY <2>1, SwitchedTLB
  <2> QED BY <2>1, <2>2, <1>t
<1>13. ASSUME NEW t \in Thread, mi_switch(t)
      PROVE  TLBOK'
  <2>1. /\ cur' = t /\ as' = as /\ pc' = pc /\ fva' = fva
        /\ tlb' = IF as[t] # NULL THEN Invalid ELSE tlb
    BY <1>13 DEF mi_switch, ActivateNext
  <2>2. TLBFor(tlb', as[t], pc[t], fva[t])
    BY <2>1, SwitchedTLB
  <2> QED BY <2>1, <2>2, <1>t
<1> QED BY <1>1, <1>2, <1>3, <1>4, <1>5, <1>6, <1>7, <1>8, <1>9, <1>10, <1>11, <1>12, <1>13, <1>14 DEF Next

-----------------------------------------------------------------------------
(* Ownership of the physical pages. *)

\* The pages of region i of a space that may be absent.
SpaceFrames(a, i) == IF a \in {NULL, BadAs} THEN {} ELSE RegionFrames(a, i)

\* The pages between two values of firstpaddr.
Between(lo, hi) == {f \in Nat : lo <= f /\ f < hi}

LEMMA OwnersAre ==
  /\ <<NULL, "kernel", 0>> \in Owner /\ PagesOf(<<NULL, "kernel", 0>>) = kpages
  /\ \A t \in Thread, i \in 1 .. 3 :
       /\ <<t, "as", i>> \in Owner /\ PagesOf(<<t, "as", i>>) = SpaceFrames(as[t], i)
       /\ <<t, "newas", i>> \in Owner /\ PagesOf(<<t, "newas", i>>) = SpaceFrames(newas[t], i)
  /\ \A o \in Owner : \/ o = <<NULL, "kernel", 0>>
                      \/ \E t \in Thread, i \in 1 .. 3 : o = <<t, "as", i>> \/ o = <<t, "newas", i>>
BY DEF Owner, PagesOf, SpaceFrames

LEMMA OwnersBecome ==
  ASSUME NEW o \in Owner
  PROVE  /\ o = <<NULL, "kernel", 0>> => PagesOf(o)' = kpages'
         /\ \A t \in Thread, i \in 1 .. 3 :
              /\ o = <<t, "as", i>> => PagesOf(o)' = SpaceFrames(as'[t], i)
              /\ o = <<t, "newas", i>> => PagesOf(o)' = SpaceFrames(newas'[t], i)
BY DEF PagesOf, SpaceFrames

LEMMA OwnedPages ==
  ASSUME VarsOK, NEW o \in Owner, NEW f \in PagesOf(o)
  PROVE  f \in Nat
<1>1. CASE o = <<NULL, "kernel", 0>>
  BY <1>1, OwnersAre, Pages DEF VarsOK
<1>2. ASSUME NEW a \in Spaces \cup {NULL, BadAs}, NEW i \in 1 .. 3, f \in SpaceFrames(a, i)
      PROVE  f \in Nat
  <2>1. SpaceOK(a) /\ f \in RegionFrames(a, i)
    BY <1>2, NotNull DEF SpaceFrames
  <2> QED BY <2>1, RegionRange
<1>3. ASSUME NEW t \in Thread, NEW i \in 1 .. 3, o = <<t, "as", i>> \/ o = <<t, "newas", i>>
      PROVE  f \in Nat
  <2>1. as[t] \in Spaces \cup {NULL, BadAs} /\ newas[t] \in Spaces \cup {NULL, BadAs}
    BY DEF VarsOK
  <2>2. f \in SpaceFrames(as[t], i) \/ f \in SpaceFrames(newas[t], i)
    BY <1>3, OwnersAre
  <2> QED BY <2>1, <2>2, <1>2
<1> QED BY <1>1, <1>3, OwnersAre

\* A step that gives the pages between the old and the new firstpaddr to one
\* owner, and otherwise only takes pages away, keeps PagesOwnedOnce.
LEMMA OwnedStep ==
  ASSUME VarsOK, PagesOwnedOnce, firstpaddr' \in Nat, NEW o1,
         ~wrapped' => ~wrapped /\ firstpaddr <= firstpaddr',
         ~wrapped' => \A o \in Owner : \A f \in PagesOf(o)' :
                        f \in PagesOf(o) \/ (o = o1 /\ f \in Between(firstpaddr, firstpaddr'))
  PROVE  PagesOwnedOnce'
<1>0. firstpaddr \in Nat /\ firstfree - KSEG0 \in Nat
  BY Pages, Constants DEF VarsOK
<1> SUFFICES ASSUME ~wrapped', NEW o \in Owner, NEW f, f \in PagesOf(o)'
             PROVE  /\ firstfree - KSEG0 <= f /\ f < firstpaddr'
                    /\ \A p \in Owner : f \in PagesOf(p)' => p = o
  BY Zenon DEF PagesOwnedOnce, Owner
<1>1. ~wrapped /\ firstpaddr <= firstpaddr' /\ firstfree - KSEG0 <= firstpaddr
  BY DEF VarsOK
<1>2. \A p \in Owner : f \in PagesOf(p)' =>
        f \in PagesOf(p) \/ (p = o1 /\ f \in Between(firstpaddr, firstpaddr'))
  OBVIOUS
<1>3. \A p \in Owner : f \in PagesOf(p) =>
        /\ firstfree - KSEG0 <= f /\ f < firstpaddr
        /\ \A q \in Owner : f \in PagesOf(q) => q = p
  BY <1>1 DEF PagesOwnedOnce
<1>4. CASE f \in PagesOf(o)
  <2>1. firstfree - KSEG0 <= f /\ f < firstpaddr
    BY <1>3, <1>4
  <2>2. ~(f \in Between(firstpaddr, firstpaddr'))
    BY <2>1, <1>0 DEF Between
  <2>3. f < firstpaddr'
    <3>1. f \in Int
      BY <1>4, OwnedPages
    <3> QED BY <3>1, <2>1, <1>0, <1>1
  <2> QED BY <1>2, <1>3, <1>4, <2>1, <2>2, <2>3
<1>5. CASE f \notin PagesOf(o)
  <2>1. o = o1 /\ f \in Between(firstpaddr, firstpaddr')
    BY <1>2, <1>5
  <2>2. f \in Nat /\ firstpaddr <= f /\ f < firstpaddr'
    BY <2>1 DEF Between
  <2>3. \A p \in Owner : f \notin PagesOf(p)
    BY <2>2, <1>0, <1>3
  <2> QED BY <2>1, <2>2, <2>3, <1>0, <1>1, <1>2
<1> QED BY <1>4, <1>5

\* Region by region, b has the pages of a; region k may also have pages from
\* lo up to hi.
Grows(a, b, k, lo, hi) ==
  \A i \in 1 .. 3 : \A f \in SpaceFrames(b, i) :
    f \in SpaceFrames(a, i) \/ (i = k /\ f \in Between(lo, hi))

\* A space without pages takes nothing.
LEMMA NoGrowth ==
  ASSUME NEW a, NEW b, \A i \in 1 .. 3 : SpaceFrames(b, i) = {}, NEW lo, NEW hi
  PROVE  Grows(a, b, 1, lo, hi)
BY DEF Grows

\* The same, for a change of one thread's address space ...
LEMMA OwnedAs ==
  ASSUME VarsOK, PagesOwnedOnce, firstpaddr' \in Nat,
         ~wrapped' => ~wrapped /\ firstpaddr <= firstpaddr',
         NEW t \in Thread, NEW b, NEW k,
         as' = [as EXCEPT ![t] = b], newas' = newas, kpages' = kpages,
         ~wrapped' => Grows(as[t], b, k, firstpaddr, firstpaddr')
  PROVE  PagesOwnedOnce'
<1> SUFFICES ASSUME ~wrapped', NEW o \in Owner, NEW f, f \in PagesOf(o)'
             PROVE  \/ f \in PagesOf(o)
                    \/ o = <<t, "as", k>> /\ f \in Between(firstpaddr, firstpaddr')
  BY OwnedStep
<1>1. CASE o = <<NULL, "kernel", 0>>
  BY <1>1, OwnersAre, OwnersBecome
<1>2. ASSUME NEW u \in Thread, NEW i \in 1 .. 3, o = <<u, "newas", i>>
      PROVE  f \in PagesOf(o)
  BY <1>2 DEF PagesOf
<1>3. ASSUME NEW u \in Thread, NEW i \in 1 .. 3, o = <<u, "as", i>>
      PROVE  \/ f \in PagesOf(o)
             \/ o = <<t, "as", k>> /\ f \in Between(firstpaddr, firstpaddr')
  <2>1. f \in SpaceFrames(as'[u], i) /\ PagesOf(o) = SpaceFrames(as[u], i)
    BY <1>3, OwnersAre, OwnersBecome
  <2>2. as'[u] = IF u = t THEN b ELSE as[u]
    BY DEF VarsOK
  <2>3. CASE u # t
    BY <2>1, <2>2, <2>3
  <2>4. CASE u = t
    BY <2>1, <2>2, <2>4, <1>3 DEF Grows
  <2> QED BY <2>3, <2>4
<1> QED BY <1>1, <1>2, <1>3, OwnersAre

\* ... and of the copy it is making.
LEMMA OwnedNew ==
  ASSUME VarsOK, PagesOwnedOnce, firstpaddr' \in Nat,
         ~wrapped' => ~wrapped /\ firstpaddr <= firstpaddr',
         NEW t \in Thread, NEW b, NEW k,
         newas' = [newas EXCEPT ![t] = b], as' = as, kpages' = kpages,
         ~wrapped' => Grows(newas[t], b, k, firstpaddr, firstpaddr')
  PROVE  PagesOwnedOnce'
<1> SUFFICES ASSUME ~wrapped', NEW o \in Owner, NEW f, f \in PagesOf(o)'
             PROVE  \/ f \in PagesOf(o)
                    \/ o = <<t, "newas", k>> /\ f \in Between(firstpaddr, firstpaddr')
  BY OwnedStep
<1>1. CASE o = <<NULL, "kernel", 0>>
  BY <1>1, OwnersAre, OwnersBecome
<1>2. ASSUME NEW u \in Thread, NEW i \in 1 .. 3, o = <<u, "as", i>>
      PROVE  f \in PagesOf(o)
  BY <1>2 DEF PagesOf
<1>3. ASSUME NEW u \in Thread, NEW i \in 1 .. 3, o = <<u, "newas", i>>
      PROVE  \/ f \in PagesOf(o)
             \/ o = <<t, "newas", k>> /\ f \in Between(firstpaddr, firstpaddr')
  <2>1. f \in SpaceFrames(newas'[u], i) /\ PagesOf(o) = SpaceFrames(newas[u], i)
    BY <1>3, OwnersAre, OwnersBecome
  <2>2. newas'[u] = IF u = t THEN b ELSE newas[u]
    BY DEF VarsOK
  <2>3. CASE u # t
    BY <2>1, <2>2, <2>3
  <2>4. CASE u = t
    BY <2>1, <2>2, <2>4, <1>3 DEF Grows
  <2> QED BY <2>3, <2>4
<1> QED BY <1>1, <1>2, <1>3, OwnersAre

\* A space that differs from a in the pages of region k only: they lie in what
\* getppages has granted.
LEMMA GivenFrames ==
  ASSUME NEW a, NEW b, SpaceOK(a), SpaceOK(b), NEW k \in 1 .. 3,
         b.npages = a.npages, \A j \in 1 .. 3 : j # k => b.pbase[j] = a.pbase[j],
         NEW lo \in Nat, NEW hi \in Nat,
         \/ b.pbase[k] = 0
         \/ b.pbase[k] = lo /\ hi = lo + RegionPages(a, k) * PAGE_SIZE
  PROVE  Grows(a, b, k, lo, hi)
<1>0. \A j \in 1 .. 3 : RegionPages(b, j) = RegionPages(a, j)
  BY DEF RegionPages
<1> SUFFICES ASSUME NEW i \in 1 .. 3, NEW f \in SpaceFrames(b, i)
             PROVE  f \in SpaceFrames(a, i) \/ (i = k /\ f \in Between(lo, hi))
  BY DEF Grows
<1>1. f \in RegionFrames(b, i) /\ SpaceFrames(a, i) = RegionFrames(a, i)
  BY NotNull DEF SpaceFrames
<1>2. CASE i # k
  <2>1. b.pbase[i] = a.pbase[i] /\ RegionPages(b, i) = RegionPages(a, i)
    BY <1>0, <1>2
  <2> QED BY <1>1, <2>1 DEF RegionFrames
<1>3. CASE i = k
  <2>1. /\ f \in Nat /\ b.pbase[k] <= f /\ b.pbase[k] # 0
        /\ f + PAGE_SIZE <= b.pbase[k] + RegionPages(a, k) * PAGE_SIZE
    BY <1>0, <1>1, <1>3, RegionRange
  <2>2. RegionPages(a, k) * PAGE_SIZE \in Nat
    BY Regions
  <2> QED BY <1>3, <2>1, <2>2, Constants DEF Between
<1> QED BY <1>2, <1>3

LEMMA OwnStep ==
  ASSUME VarsOK, ThreadsOK, PagesOwnedOnce, Next
  PROVE  PagesOwnedOnce'
<1>0. ASSUME UNCHANGED <<as, newas, kpages, firstpaddr, wrapped>>
      PROVE  PagesOwnedOnce'
  BY <1>0 DEF PagesOwnedOnce, PagesOf
<1>a. firstpaddr \in Nat /\ (UNCHANGED <<firstpaddr, wrapped>> =>
        firstpaddr' \in Nat /\ (~wrapped' => ~wrapped /\ firstpaddr <= firstpaddr'))
  BY Pages DEF VarsOK
<1>1. ASSUME NEW t \in Thread, NEW n \in KernelRequest, alloc_kpages(t, n)
      PROVE  PagesOwnedOnce'
  <2>1. n \in Nat /\ n * PAGE_SIZE < WORD
    BY <1>1, VMAssumption DEF alloc_kpages
  <2>2. /\ getppages(n) /\ as' = as /\ newas' = newas /\ paddr(n) # 0
        /\ kpages' = kpages \cup {(paddr(n) + k * PAGE_SIZE) % WORD : k \in 0 .. n - 1}
    BY <1>1 DEF alloc_kpages
  <2>3. /\ firstpaddr' \in Page /\ (wrapped => wrapped')
        /\ ~wrapped' => /\ firstpaddr <= firstpaddr'
                        /\ \/ paddr(n) = 0 /\ firstpaddr' = firstpaddr
                           \/ paddr(n) = firstpaddr /\ firstpaddr' = firstpaddr + n * PAGE_SIZE
    BY <2>1, <2>2, Grant
  <2>4. firstpaddr' \in Nat
    BY <2>3, Pages
  <2> SUFFICES ASSUME ~wrapped', NEW o \in Owner, NEW f, f \in PagesOf(o)'
               PROVE  \/ f \in PagesOf(o)
                      \/ o = <<NULL, "kernel", 0>> /\ f \in Between(firstpaddr, firstpaddr')
    BY <2>3, <2>4, OwnedStep
  <2>5. CASE o = <<NULL, "kernel", 0>>
    <3>1. f \in kpages \/ \E k \in 0 .. n - 1 : f = (firstpaddr + k * PAGE_SIZE) % WORD
      <4>1. f \in kpages'
        BY <2>5, OwnersBecome
      <4>2. paddr(n) = firstpaddr
        BY <2>2, <2>3
      <4> QED BY <4>1, <4>2, <2>2
    <3>2. firstpaddr' = firstpaddr + n * PAGE_SIZE /\ firstpaddr' < WORD /\ firstpaddr \in Page
      BY <2>2, <2>3, Pages DEF VarsOK
    <3>3. ASSUME NEW k \in 0 .. n - 1
          PROVE  (firstpaddr + k * PAGE_SIZE) % WORD \in Between(firstpaddr, firstpaddr')
      <4> DEFINE g == (firstpaddr + k * PAGE_SIZE) % WORD
      <4>1. g \in Nat /\ firstpaddr <= g /\ g < firstpaddr + n * PAGE_SIZE
        BY <2>1, <3>2, KernelPages
      <4> HIDE DEF g
      <4>2. g \in Between(firstpaddr, firstpaddr')
        BY <4>1, <3>2 DEF Between
      <4> QED BY <4>2 DEF g
    <3> QED BY <3>1, <3>3, <2>5, OwnersAre
  <2>6. CASE o # <<NULL, "kernel", 0>>
    <3>1. PICK u \in Thread, i \in 1 .. 3 : o = <<u, "as", i>> \/ o = <<u, "newas", i>>
      BY <2>6, OwnersAre
    <3>2. o[2] # "kernel"
      BY <3>1
    <3>3. PagesOf(o)' = PagesOf(o)
      BY <3>2, <2>2 DEF PagesOf
    <3> QED BY <3>3
  <2> QED BY <2>5, <2>6
<1>2. ASSUME NEW t \in Thread, NEW i \in Image, runprogram(t, i)
      PROVE  PagesOwnedOnce'
  <2>1. \A j \in 1 .. 3 : SpaceFrames(EmptyAs, j) = {}
    BY EmptySpace DEF SpaceFrames, RegionFrames
  <2>2. as' = [as EXCEPT ![t] = EmptyAs] /\ UNCHANGED <<newas, kpages, firstpaddr, wrapped>>
    BY <1>2 DEF runprogram
  <2> QED BY <2>1, <2>2, <1>a, OwnedAs, NoGrowth
<1>3. ASSUME NEW t \in Thread, as_define_region(t)
      PROVE  PagesOwnedOnce'
  <2>1. UNCHANGED <<newas, kpages, firstpaddr, wrapped>> /\ pc[t] = "load" /\ image[t] # <<>>
    BY <1>3 DEF as_define_region
  <2>2. CASE as' = as
    BY <2>1, <2>2, <1>0
  <2>3. ASSUME NEW b, as' = [as EXCEPT ![t] = b], SpaceOK(b), b.pbase = as[t].pbase
        PROVE  PagesOwnedOnce'
    <3>1. \A j \in 1 .. 3 : ~(j < 1)
      OBVIOUS
    <3>2. \A j \in 1 .. 3 : as[t].pbase[j] = 0
      BY <2>1, <3>1, AtPlace DEF PlaceOK
    <3>3. \A j \in 1 .. 3 : SpaceFrames(b, j) = {}
      BY <2>3, <3>2 DEF SpaceFrames, RegionFrames
    <3> QED BY <2>1, <2>3, <3>3, <1>a, OwnedAs, NoGrowth
  <2> QED BY <2>2, <2>3, <1>3, DefineEffect
<1>4. ASSUME NEW t \in Thread, as_prepare_load(t)
      PROVE  PagesOwnedOnce'
  <2> DEFINE n == RegionPages(as[t], seg[t])
             b == [as[t] EXCEPT !.pbase[seg[t]] = paddr(n)]
  <2>1. /\ SpaceOK(as[t]) /\ seg[t] \in 1 .. 3
        /\ n \in Nat /\ n * PAGE_SIZE < WORD /\ getppages(n)
        /\ as' = [as EXCEPT ![t] = b]
    BY <1>4, LoadEffect
  <2>2. newas' = newas /\ kpages' = kpages
    BY <1>4 DEF as_prepare_load
  <2> HIDE DEF n
  <2>3. /\ firstpaddr' \in Page /\ (wrapped => wrapped') /\ paddr(n) \in Page
        /\ ~wrapped' => /\ firstpaddr <= firstpaddr'
                        /\ \/ paddr(n) = 0 /\ firstpaddr' = firstpaddr
                           \/ paddr(n) = firstpaddr /\ firstpaddr' = firstpaddr + n * PAGE_SIZE
    BY <2>1, Grant
  <2>4. /\ SpaceOK(b) /\ b.pbase[seg[t]] = paddr(n) /\ b.npages = as[t].npages
        /\ \A j \in 1 .. 3 : j # seg[t] => b.pbase[j] = as[t].pbase[j]
    BY <2>1, <2>3 DEF SpaceOK, Addrspace
  <2> HIDE DEF b
  <2>5. firstpaddr' \in Nat
    BY <2>3, Pages
  <2>6. PICK x, y, k, hi : x = as[t] /\ y = b /\ k = seg[t] /\ hi = firstpaddr'
    OBVIOUS
  <2>7. ~wrapped' => Grows(as[t], y, k, firstpaddr, firstpaddr')
    <3> SUFFICES ASSUME ~wrapped'
                 PROVE  Grows(x, y, k, firstpaddr, hi)
      BY <2>6
    <3>1. /\ SpaceOK(x) /\ SpaceOK(y) /\ k \in 1 .. 3 /\ y.npages = x.npages
          /\ \A j \in 1 .. 3 : j # k => y.pbase[j] = x.pbase[j]
          /\ firstpaddr \in Nat /\ hi \in Nat
      BY <2>1, <2>4, <2>5, <2>6, <1>a
    <3>2. \/ y.pbase[k] = 0
          \/ y.pbase[k] = firstpaddr /\ hi = firstpaddr + RegionPages(x, k) * PAGE_SIZE
      BY <2>3, <2>4, <2>6 DEF n
    <3> QED BY <3>1, <3>2, GivenFrames, Zenon
  <2>a. ~wrapped' => ~wrapped /\ firstpaddr <= firstpaddr'
    BY <2>3
  <2>b. as' = [as EXCEPT ![t] = y]
    BY <2>1, <2>6
  <2> QED BY <2>b, <2>2, <2>5, <2>7, <2>a, OwnedAs
<1>5. ASSUME NEW t \in Thread, as_copy(t)
      PROVE  PagesOwnedOnce'
  <2> DEFINE b == [as[t] EXCEPT !.pbase = EmptyAs.pbase]
  <2>1. SpaceOK(as[t])
    BY <1>5, AtPlace DEF as_copy, Running
  <2>2. \A j \in 1 .. 3 : b.pbase[j] = 0
    BY <2>1, CopyRegions
  <2>3. newas' = [newas EXCEPT ![t] = b] /\ UNCHANGED <<as, kpages, firstpaddr, wrapped>>
    BY <1>5 DEF as_copy
  <2> HIDE DEF b
  <2>4. \A j \in 1 .. 3 : SpaceFrames(b, j) = {}
    BY <2>2 DEF SpaceFrames, RegionFrames
  <2> QED BY <2>3, <2>4, <1>a, OwnedNew, NoGrowth
<1>6. ASSUME NEW t \in Thread, as_copy_region(t)
      PROVE  PagesOwnedOnce'
  <2> DEFINE n == RegionPages(newas[t], seg[t])
             b == [newas[t] EXCEPT !.pbase[seg[t]] = paddr(n)]
  <2>1. /\ SpaceOK(newas[t]) /\ seg[t] \in 1 .. 3
        /\ n \in Nat /\ n * PAGE_SIZE < WORD /\ getppages(n)
        /\ \/ newas' = [newas EXCEPT ![t] = NULL]
           \/ newas' = [newas EXCEPT ![t] = b]
    BY <1>6, CopyRegionEffect
  <2>2. as' = as /\ kpages' = kpages
    BY <1>6 DEF as_copy_region
  <2> HIDE DEF n
  <2>3. /\ firstpaddr' \in Page /\ (wrapped => wrapped') /\ paddr(n) \in Page
        /\ ~wrapped' => /\ firstpaddr <= firstpaddr'
                        /\ \/ paddr(n) = 0 /\ firstpaddr' = firstpaddr
                           \/ paddr(n) = firstpaddr /\ firstpaddr' = firstpaddr + n * PAGE_SIZE
    BY <2>1, Grant
  <2>4. /\ SpaceOK(b) /\ b.pbase[seg[t]] = paddr(n) /\ b.npages = newas[t].npages
        /\ \A j \in 1 .. 3 : j # seg[t] => b.pbase[j] = newas[t].pbase[j]
    BY <2>1, <2>3 DEF SpaceOK, Addrspace
  <2> HIDE DEF b
  <2>5. firstpaddr' \in Nat
    BY <2>3, Pages
  <2>6. PICK x, y, k, hi : x = newas[t] /\ y = b /\ k = seg[t] /\ hi = firstpaddr'
    OBVIOUS
  <2>7. ~wrapped' => Grows(newas[t], y, k, firstpaddr, firstpaddr')
    <3> SUFFICES ASSUME ~wrapped'
                 PROVE  Grows(x, y, k, firstpaddr, hi)
      BY <2>6
    <3>1. /\ SpaceOK(x) /\ SpaceOK(y) /\ k \in 1 .. 3 /\ y.npages = x.npages
          /\ \A j \in 1 .. 3 : j # k => y.pbase[j] = x.pbase[j]
          /\ firstpaddr \in Nat /\ hi \in Nat
      BY <2>1, <2>4, <2>5, <2>6, <1>a
    <3>2. \/ y.pbase[k] = 0
          \/ y.pbase[k] = firstpaddr /\ hi = firstpaddr + RegionPages(x, k) * PAGE_SIZE
      BY <2>3, <2>4, <2>6 DEF n
    <3> QED BY <3>1, <3>2, GivenFrames, Zenon
  <2>a. ~wrapped' => ~wrapped /\ firstpaddr <= firstpaddr'
    BY <2>3
  <2>8. CASE newas' = [newas EXCEPT ![t] = b]
    <3>1. newas' = [newas EXCEPT ![t] = y]
      BY <2>8, <2>6
    <3> QED BY <3>1, <2>2, <2>5, <2>7, <2>a, OwnedNew
  <2>9. CASE newas' = [newas EXCEPT ![t] = NULL]
    <3>1. \A i \in 1 .. 3 : SpaceFrames(NULL, i) = {}
      BY DEF SpaceFrames
    <3> QED BY <3>1, <2>9, <2>2, <2>5, <2>a, OwnedNew, NoGrowth
  <2> QED BY <2>1, <2>8, <2>9
<1>7. ASSUME NEW t \in Thread, NEW c \in Thread, as_copy_move(t, c)
      PROVE  PagesOwnedOnce'
  <2>1. /\ UNCHANGED <<as, kpages, firstpaddr, wrapped>> /\ c # t
        /\ pc[c] = "kernel"
        /\ newas' = newas \/ newas' = [newas EXCEPT ![t] = NULL, ![c] = newas[t]]
    BY <1>7 DEF as_copy_move
  <2>2. CASE newas' = newas
    BY <2>1, <2>2, <1>0
  <2>3. CASE newas' = [newas EXCEPT ![t] = NULL, ![c] = newas[t]]
    <3>1. newas[c] = NULL
      BY <2>1, AtPlace DEF PlaceOK
    <3>2. newas'[t] = NULL /\ newas'[c] = newas[t]
          /\ \A u \in Thread \ {t, c} : newas'[u] = newas[u]
      BY <2>1, <2>3 DEF VarsOK
    <3> DEFINE Src(o) == IF o[1] = c /\ o[2] = "newas" THEN <<t, "newas", o[3]>> ELSE o
    <3>3. ASSUME NEW o \in Owner, NEW f, f \in PagesOf(o)'
          PROVE  /\ Src(o) \in Owner /\ f \in PagesOf(Src(o))
                 /\ ~(o[1] = t /\ o[2] = "newas")
      <4>1. CASE o = <<NULL, "kernel", 0>>
        BY <3>3, <4>1, <2>1, OwnersAre, OwnersBecome
      <4>2. ASSUME NEW u \in Thread, NEW i \in 1 .. 3, o = <<u, "as", i>>
            PROVE  Src(o) \in Owner /\ f \in PagesOf(Src(o)) /\ ~(o[1] = t /\ o[2] = "newas")
        BY <3>3, <4>2, <2>1, OwnersAre, OwnersBecome
      <4>3. ASSUME NEW u \in Thread, NEW i \in 1 .. 3, o = <<u, "newas", i>>
            PROVE  Src(o) \in Owner /\ f \in PagesOf(Src(o)) /\ ~(o[1] = t /\ o[2] = "newas")
        <5>1. f \in SpaceFrames(newas'[u], i)
          BY <3>3, <4>3, OwnersBecome
        <5>2. u # t
          BY <5>1, <3>2 DEF SpaceFrames
        <5>0. o[1] = u /\ o[2] = "newas" /\ o[3] = i
          BY <4>3
        <5>3. CASE u = c
          <6>1. Src(o) = <<t, "newas", i>>
            BY <5>0, <5>3
          <6>2. <<t, "newas", i>> \in Owner /\ f \in PagesOf(<<t, "newas", i>>)
            BY <5>1, <5>3, <3>2, OwnersAre
          <6> QED BY <6>1, <6>2, <5>0, <5>2
        <5>4. CASE u # c
          <6>1. Src(o) = o
            BY <5>0, <5>4
          <6>2. f \in SpaceFrames(newas[u], i)
            BY <5>1, <5>2, <5>4, <3>2
          <6>3. f \in PagesOf(o)
            BY <6>2, <4>3, OwnersAre
          <6> QED BY <6>1, <6>3, <5>0, <5>2
        <5> QED BY <5>3, <5>4
      <4> QED BY <4>1, <4>2, <4>3, OwnersAre
    <3>4. ASSUME NEW o \in Owner, NEW p \in Owner, Src(o) = Src(p),
                 ~(o[1] = t /\ o[2] = "newas"), ~(p[1] = t /\ p[2] = "newas")
          PROVE  o = p
      BY <3>4 DEF Owner
    <3> HIDE DEF Src
    <3> SUFFICES ASSUME ~wrapped', NEW o \in Owner, NEW f, f \in PagesOf(o)'
                 PROVE  /\ firstfree - KSEG0 <= f /\ f < firstpaddr'
                        /\ \A p \in Owner : f \in PagesOf(p)' => p = o
      BY Zenon DEF PagesOwnedOnce, Owner
    <3>5. ~wrapped /\ firstpaddr' = firstpaddr
      BY <2>1
    <3>6. Src(o) \in Owner /\ f \in PagesOf(Src(o)) /\ ~(o[1] = t /\ o[2] = "newas")
      BY <3>3
    <3>7. firstfree - KSEG0 <= f /\ f < firstpaddr
      BY <3>5, <3>6 DEF PagesOwnedOnce
    <3>8. ASSUME NEW p \in Owner, f \in PagesOf(p)' PROVE p = o
      <4>1. Src(p) \in Owner /\ f \in PagesOf(Src(p)) /\ ~(p[1] = t /\ p[2] = "newas")
        BY <3>3, <3>8
      <4>2. Src(p) = Src(o)
        BY <4>1, <3>5, <3>6 DEF PagesOwnedOnce
      <4> QED BY <4>1, <4>2, <3>4, <3>6
    <3> QED BY <3>5, <3>7, <3>8
  <2> QED BY <2>1, <2>2, <2>3
<1>8. ASSUME NEW t \in Thread, md_forkentry(t)
      PROVE  PagesOwnedOnce'
  <2>1. /\ UNCHANGED <<kpages, firstpaddr, wrapped>>
        /\ as' = [as EXCEPT ![t] = BadAs] /\ newas' = [newas EXCEPT ![t] = NULL]
    BY <1>8 DEF md_forkentry
  <2>2. \A i \in 1 .. 3 : SpaceFrames(BadAs, i) = {} /\ SpaceFrames(NULL, i) = {}
    BY DEF SpaceFrames
  <2>3. \A u \in Thread : as'[u] = as[u] \/ as'[u] = BadAs
    BY <2>1 DEF VarsOK
  <2>4. \A u \in Thread : newas'[u] = newas[u] \/ newas'[u] = NULL
    BY <2>1 DEF VarsOK
  <2>5. \A o \in Owner : \A f \in PagesOf(o)' : f \in PagesOf(o)
    <3> SUFFICES ASSUME NEW o \in Owner, NEW f, f \in PagesOf(o)' PROVE f \in PagesOf(o)
      OBVIOUS
    <3>1. CASE o = <<NULL, "kernel", 0>>
      BY <3>1, <2>1, OwnersAre, OwnersBecome
    <3>2. ASSUME NEW u \in Thread, NEW i \in 1 .. 3, o = <<u, "as", i>> PROVE f \in PagesOf(o)
      BY <3>2, <2>3 DEF PagesOf
    <3>3. ASSUME NEW u \in Thread, NEW i \in 1 .. 3, o = <<u, "newas", i>> PROVE f \in PagesOf(o)
      BY <3>3, <2>4 DEF PagesOf
    <3> QED BY <3>1, <3>2, <3>3, OwnersAre
  <2> QED BY <2>1, <2>5, <1>a, OwnedStep
<1>14. ASSUME NEW t \in Thread, as_activate(t)
      PROVE  PagesOwnedOnce'
  BY <1>0, <1>14 DEF as_activate
<1>9. ASSUME NEW t \in Thread, NEW v \in UserPage, NEW x \in Value, store(t, v, x)
      PROVE  PagesOwnedOnce'
  BY <1>0, <1>9 DEF store
<1>10. ASSUME NEW t \in Thread, NEW a \in TouchAddr, tlb_miss(t, a)
      PROVE  PagesOwnedOnce'
  BY <1>0, <1>10 DEF tlb_miss
<1>11. ASSUME NEW t \in Thread, vm_fault(t)
      PROVE  PagesOwnedOnce'
  BY <1>0, <1>11 DEF vm_fault
<1>12. ASSUME NEW t \in Thread, NEW c \in Thread, thread_exit(t, c)
      PROVE  PagesOwnedOnce'
  <2>1. UNCHANGED <<newas, kpages, firstpaddr, wrapped>> /\ as' = [as EXCEPT ![t] = NULL]
    BY <1>12 DEF thread_exit
  <2>2. \A i \in 1 .. 3 : SpaceFrames(NULL, i) = {}
    BY DEF SpaceFrames
  <2> QED BY <2>1, <2>2, <1>a, OwnedAs, NoGrowth
<1>13. ASSUME NEW t \in Thread, mi_switch(t)
      PROVE  PagesOwnedOnce'
  BY <1>0, <1>13 DEF mi_switch
<1> QED BY <1>1, <1>2, <1>3, <1>4, <1>5, <1>6, <1>7, <1>8, <1>9, <1>10, <1>11, <1>12, <1>13, <1>14 DEF Next

\* Until a request has wrapped around the word, the pages of a thread's address
\* space and of the copy it is making are in memory.
LEMMA InMemory ==
  ASSUME VarsOK, PagesOwnedOnce, ~wrapped, NEW t \in Thread, NEW i \in 1 .. 3, NEW f,
         \/ as[t] \notin {NULL, BadAs} /\ f \in RegionFrames(as[t], i)
         \/ newas[t] # NULL /\ f \in RegionFrames(newas[t], i)
  PROVE  f \in Frame
<1>1. f < firstpaddr
  <2>0. newas[t] # BadAs
    BY NotNull DEF VarsOK
  <2>1. PICK o \in Owner : f \in PagesOf(o)
    <3>1. f \in SpaceFrames(as[t], i) \/ f \in SpaceFrames(newas[t], i)
      BY <2>0 DEF SpaceFrames
    <3> QED BY <3>1, OwnersAre
  <2> QED BY <2>1 DEF PagesOwnedOnce
<1>2. f \in Nat /\ f % PAGE_SIZE = 0
  <2>1. (as[t] \notin {NULL, BadAs} => SpaceOK(as[t])) /\ (newas[t] # NULL => SpaceOK(newas[t]))
    BY NotNull DEF VarsOK
  <2> QED BY <2>1, RegionRange
<1>3. firstpaddr \in Nat /\ firstpaddr <= ramsize /\ ramsize \in Nat /\ ramsize < WORD
  BY Pages, Constants DEF VarsOK
<1>4. f < ramsize /\ f < WORD /\ 0 <= f /\ f \in Int
  BY <1>1, <1>2, <1>3, Constants
<1> QED BY <1>2, <1>4, Pages DEF Frame

\* So are the pages that the TLB maps for a program, which are its own.
LEMMA MappedPage ==
  ASSUME VarsOK, ThreadsOK, TLBOK, PagesOwnedOnce, ~wrapped, panicked = "no",
         pc[cur] = "user", NEW v \in UserPage, NEW j \in Hits(v)
  PROVE  /\ tlb[j].p \in Frame /\ SpaceOK(as[cur])
         /\ \E i \in 1 .. 3 : \E k \in 0 .. RegionPages(as[cur], i) - 1 :
              /\ tlb[j].p = as[cur].pbase[i] + k * PAGE_SIZE
              /\ tlb[j].p \in RegionFrames(as[cur], i)
<1> DEFINE a == as[cur]
<1>1. cur \in Thread /\ j \in 1 .. NUM_TLB /\ tlb[j].v = v
      /\ tlb[j] \in Entry \cup {NoEntry}
  BY DEF VarsOK, Hits
<1>2. v \in Page /\ v # NULL
  BY Pages, VMAssumption DEF UserPage
<1>3. tlb[j] # NoEntry /\ tlb[j].p \in Page
  BY <1>1, <1>2, ClearedTLB DEF NoEntry
<1>4. PlaceOK(as[cur], newas[cur], "user", image[cur], seg[cur]) /\ (a # BadAs => SpaceOK(a))
  BY <1>1, AtPlace
<1>5. a # NULL
  BY <1>4 DEF PlaceOK
<1>6. a # BadAs /\ tlb[j].p = Translate(a, v)
  <2>1. Stage = "user"
    BY DEF Stage
  <2> QED BY <1>1, <1>3, <1>5, <2>1 DEF TLBOK, TLBFor
<1>7. SpaceOK(a) /\ \A i \in 1 .. 3 : a.pbase[i] # 0
  BY <1>4, <1>6 DEF PlaceOK
<1>8. NULL \notin Page
  BY Pages, VMAssumption
<1>9. Translate(a, v) # NULL
  BY <1>3, <1>6, <1>8
<1>a. PICK i \in 1 .. 3 : \E k \in 0 .. RegionPages(a, i) - 1 :
         /\ a.pbase[i] + k * PAGE_SIZE \in Nat
         /\ Translate(a, v) = (a.pbase[i] + k * PAGE_SIZE) % WORD
  BY <1>2, <1>7, <1>9, Translation
<1>10. PICK k \in 0 .. RegionPages(a, i) - 1 :
         /\ a.pbase[i] + k * PAGE_SIZE \in Nat
         /\ Translate(a, v) = (a.pbase[i] + k * PAGE_SIZE) % WORD
  BY <1>a
<1>11. PICK g : g = a.pbase[i] + k * PAGE_SIZE
  OBVIOUS
<1>12. g \in RegionFrames(a, i)
  BY <1>7, <1>11 DEF RegionFrames
<1>13. g \in Frame
  BY <1>1, <1>5, <1>6, <1>12, InMemory
<1>14. g \in Nat /\ g < WORD
  BY <1>13, Constants DEF Frame, Page
<1>15. g % WORD = g
  BY <1>14, PageArithmetic
<1> QED BY <1>6, <1>7, <1>10, <1>11, <1>12, <1>13, <1>15

LEMMA PanicStep ==
  ASSUME VarsOK, ThreadsOK, TLBOK, PagesOwnedOnce, Next
  PROVE  PanicsOnlyFromImage'
<1>0. panicked = "no"
  BY NothingStopped
<1>s. ASSUME panicked' = panicked
      PROVE  PanicsOnlyFromImage'
  BY <1>0, <1>s DEF PanicsOnlyFromImage
<1>1. ASSUME NEW t \in Thread, as_prepare_load(t)
      PROVE  PanicsOnlyFromImage'
  BY <1>1, <1>s, LoadEffect
<1>2. ASSUME NEW t \in Thread, NEW c \in Thread, as_copy_move(t, c)
      PROVE  PanicsOnlyFromImage'
  <2> DEFINE touched == UNION {RegionFrames(as[t], i) \cup RegionFrames(newas[t], i) : i \in 1 .. 3}
  <2>1. pc[t] = "copy" /\ wrapped' = wrapped
    BY <1>2 DEF as_copy_move
  <2>2. as[t] # NULL /\ as[t] # BadAs /\ newas[t] # NULL
    BY <2>1, AtPlace, NotNull
  <2>3. CASE touched \subseteq Frame
    BY <1>2, <1>s, <2>3 DEF as_copy_move
  <2>4. CASE ~(touched \subseteq Frame)
    <3>1. panicked' = "bus"
      BY <1>2, <2>4 DEF as_copy_move
    <3>2. PICK f : f \in touched /\ f \notin Frame
      BY <2>4
    <3>3. PICK i \in 1 .. 3 : f \in RegionFrames(as[t], i) \/ f \in RegionFrames(newas[t], i)
      BY <3>2
    <3>4. wrapped
      BY <2>2, <3>2, <3>3, InMemory
    <3> QED BY <2>1, <3>1, <3>4 DEF PanicsOnlyFromImage
  <2> QED BY <2>3, <2>4
<1>3. ASSUME NEW t \in Thread, NEW v \in UserPage, NEW x \in Value, store(t, v, x)
      PROVE  PanicsOnlyFromImage'
  <2>1. pc[cur] = "user" /\ wrapped' = wrapped
    BY <1>3 DEF store, Runs
  <2>2. PICK j \in Hits(v) : \/ tlb[j].p \in Frame /\ UNCHANGED panicked
                             \/ tlb[j].p \notin Frame /\ panicked' = "bus"
    BY <1>3 DEF store
  <2>3. wrapped \/ tlb[j].p \in Frame
    BY <2>1, <1>0, MappedPage
  <2>4. CASE tlb[j].p \in Frame
    BY <2>2, <2>4, <1>s
  <2>5. CASE tlb[j].p \notin Frame
    BY <2>1, <2>2, <2>3, <2>5 DEF PanicsOnlyFromImage
  <2> QED BY <2>4, <2>5
<1>4. ASSUME NEW t \in Thread, vm_fault(t)
      PROVE  PanicsOnlyFromImage'
  <2>1. as' = as /\ cur' = cur /\ cur = t /\ pc[t] = "fault"
    BY <1>4 DEF vm_fault, Runs
  <2>2. \/ panicked' = panicked \/ panicked' = "pointer"
        \/ panicked' = "assert" /\ SpaceOK(as[t]) /\ ~SetUp(as[t])
    BY <1>4, FaultEffect
  <2>3. CASE panicked' = "assert" /\ SpaceOK(as[t]) /\ ~SetUp(as[t])
    <3>1. \A i \in 1 .. 3 : as[t].pbase[i] # 0
      BY <2>1, <2>3, AtPlace, NotNull DEF PlaceOK
    <3>2. \E i \in 1 .. 2 : as[t].vbase[i] = 0 \/ as[t].npages[i] = 0
      BY <2>3, <3>1 DEF SetUp
    <3> QED BY <2>1, <2>3, <3>2 DEF PanicsOnlyFromImage
  <2>4. CASE panicked' = "pointer"
    BY <2>4 DEF PanicsOnlyFromImage
  <2> QED BY <2>2, <2>3, <2>4, <1>s
<1>5. CASE UNCHANGED panicked
  BY <1>5, <1>s
<1> QED BY <1>1, <1>2, <1>3, <1>4, <1>5 DEF Next, alloc_kpages, runprogram, as_define_region,
     as_copy, as_copy_region, md_forkentry, as_activate, tlb_miss, thread_exit, mi_switch

LEMMA InitInv == Init => VMInv
<1> SUFFICES ASSUME Init PROVE VMInv
  OBVIOUS
<1>1. VarsOK
  <2>1. firstpaddr \in Page /\ firstpaddr <= ramsize /\ firstpaddr = firstfree - KSEG0
        /\ firstfree - KSEG0 <= firstpaddr
    BY Pages, Constants DEF Init
  <2>2. cur \in Thread /\ 0 \in Value /\ 0 \in 0 .. MaxStarts /\ 0 \in 0 .. MaxStores
    BY VMAssumption DEF Init
  <2>3. 0 \in 0 .. KSEG0 - 1
    BY Constants
  <2>4. <<>> \in Seq(Segment)
    OBVIOUS
  <2> QED BY <2>1, <2>2, <2>3, <2>4, ClearedTLB DEF Init, VarsOK, Places
<1>2. ThreadsOK
  BY NotNull DEF Init, ThreadsOK, PlaceOK
<1>3. TLBOK
  BY VMAssumption DEF Init, TLBOK, TLBFor, Stage
<1>4. PagesOwnedOnce
  <2>1. \A o \in Owner : PagesOf(o) = {}
    <3> SUFFICES ASSUME NEW o \in Owner PROVE PagesOf(o) = {}
      OBVIOUS
    <3>1. CASE o = <<NULL, "kernel", 0>>
      BY <3>1, OwnersAre DEF Init
    <3>2. ASSUME NEW t \in Thread, NEW i \in 1 .. 3, o = <<t, "as", i>> \/ o = <<t, "newas", i>>
          PROVE  PagesOf(o) = {}
      <4>1. as[t] = NULL /\ newas[t] = NULL /\ SpaceFrames(NULL, i) = {}
        BY DEF Init, SpaceFrames
      <4> QED BY <4>1, <3>2, OwnersAre
    <3> QED BY <3>1, <3>2, OwnersAre
  <2> QED BY <2>1 DEF PagesOwnedOnce
<1>5. PanicsOnlyFromImage
  BY DEF Init, PanicsOnlyFromImage
<1> QED BY <1>1, <1>2, <1>3, <1>4, <1>5 DEF VMInv

-----------------------------------------------------------------------------
(***************************************************************************)
(* The theorems.                                                           *)
(***************************************************************************)

\* However programs start, load, fork, fault, store, are preempted, killed and
\* run out of memory, VMInv holds in every state.
THEOREM VMInvariant == Spec => []VMInv
<1>1. Init => VMInv
  BY InitInv
<1>2. VMInv /\ [Next]_vars => VMInv'
  <2> SUFFICES ASSUME VMInv, [Next]_vars PROVE VMInv'
    OBVIOUS
  <2>1. CASE Next
    BY <2>1, VarsStep, ThreadsStep, TLBStep, OwnStep, PanicStep DEF VMInv
  <2>2. CASE UNCHANGED vars
    <3>1. VarsOK'
      BY <2>2 DEF VMInv, VarsOK, vars
    <3>2. ThreadsOK'
      BY <2>2 DEF VMInv, ThreadsOK, vars
    <3>3. TLBOK'
      BY <2>2 DEF VMInv, TLBOK, Stage, vars
    <3>4. PagesOwnedOnce'
      BY <2>2, ZenonT(30) DEF VMInv, PagesOwnedOnce, PagesOf, vars
    <3>5. PanicsOnlyFromImage'
      BY <2>2 DEF VMInv, PanicsOnlyFromImage, vars
    <3> QED BY <3>1, <3>2, <3>3, <3>4, <3>5 DEF VMInv
  <2> QED BY <2>1, <2>2
<1> QED BY <1>1, <1>2, PTL DEF Spec

\* ram.c, dumbvm.c: every address that the allocator, the regions and the TLB
\* hold is page-aligned and within the word, and an address space exists just
\* at the places of the code where the thread has one.
THEOREM VMTypeCorrect == Spec => []TypeOK
<1>1. VMInv => TypeOK
  <2> SUFFICES ASSUME VMInv PROVE TypeOK
    OBVIOUS
  <2>1. VarsOK /\ ThreadsOK
    BY DEF VMInv
  <2>2. ASSUME NEW t \in Thread
        PROVE  /\ as[t] \in {NULL, BadAs} \/ as[t] \in Addrspace
               /\ newas[t] = NULL \/ newas[t] \in Addrspace
               /\ pc[t] \in {"kernel", "load", "user", "fault", "copy", "forkentry", "activate",
                            "exit"}
               /\ (as[t] = NULL) <=> (pc[t] \in {"kernel", "forkentry"})
               /\ (newas[t] # NULL) <=> (pc[t] \in {"copy", "forkentry"})
    <3>1. as[t] \in Spaces \cup {NULL, BadAs} /\ newas[t] \in Spaces \cup {NULL}
          /\ pc[t] \in Places
      BY <2>1 DEF VarsOK
    <3>2. PlaceOK(as[t], newas[t], pc[t], image[t], seg[t])
      BY <2>1 DEF ThreadsOK
    <3> QED BY <3>1, <3>2 DEF Spaces, Places, PlaceOK
  <2>3. \A i \in 1 .. NUM_TLB : tlb[i] = NoEntry \/ (tlb[i].v \in UserPage /\ tlb[i].p \in Page)
    BY <2>1, ClearedTLB DEF VarsOK
  <2> QED BY <2>1, <2>2, <2>3 DEF VarsOK, TypeOK
<1> QED BY <1>1, VMInvariant, PTL

\* ram_stealmem and its callers: until a request wraps around the word, no
\* physical page has two owners, none is given out while it is still free, and
\* none is the kernel's own - for any programs, threads and amount of memory.
THEOREM PagesAreOwnedOnce == Spec => []PagesOwnedOnce
<1>1. VMInv => PagesOwnedOnce
  BY DEF VMInv
<1> QED BY <1>1, VMInvariant, PTL

\* as_activate, mi_switch and vm_fault: while a thread with an address space
\* runs, the TLB holds translations of that address space only, each page once.
THEOREM TLBIsCurrent == Spec => []TLBSeesCurrent
<1>1. VMInv => TLBSeesCurrent
  BY DEF VMInv, TLBOK, TLBFor, TLBSeesCurrent, Stage
<1> QED BY <1>1, VMInvariant, PTL

\* vm_fault's and as_prepare_load's assertions fail only for a program without
\* two segments above page 0, and the kernel gets a bus error only after a
\* request that wrapped around the word.
THEOREM PanicsAreTheImages == Spec => []PanicsOnlyFromImage
<1>1. VMInv => PanicsOnlyFromImage
  BY DEF VMInv
<1> QED BY <1>1, VMInvariant, PTL

-----------------------------------------------------------------------------
(***************************************************************************)
(* DumbVM implements PrivateMemory: until a request has wrapped around the *)
(* address word, only a process's own stores change its memory, and a fork *)
(* starts with an exact copy.  The argument rests on VMInv: a page has one *)
(* owner, so what a store or a memmove writes belongs to one thread; and   *)
(* the TLB maps pages of the running thread only.                          *)
(***************************************************************************)

\* The refinement mapping, for a thread at q with address space a, copy n and
\* memory M.
SpaceAt(q, a, n) == IF q = "forkentry" THEN n ELSE a

PhaseAt(q, a, n) ==
  IF q = "kernel" \/ a = BadAs THEN "none"
  ELSE IF SetUp(SpaceAt(q, a, n)) THEN "ready" ELSE "loading"

Contents(s, M) ==
  [i \in 1 .. 3 |-> [k \in 0 .. RegionPages(s, i) - 1 |-> M[s.pbase[i] + k * PAGE_SIZE]]]

SeenAt(q, a, n, M) ==
  IF PhaseAt(q, a, n) # "ready" THEN <<>> ELSE Contents(SpaceAt(q, a, n), M)

Ph == [t \in Thread |-> Phase(t)]
Sp == [t \in Thread |-> Seen(t)]

LEMMA ViewIs ==
  ASSUME NEW t \in Thread
  PROVE  /\ ~wrapped => /\ Ph[t] = PhaseAt(pc[t], as[t], newas[t])
                        /\ Sp[t] = SeenAt(pc[t], as[t], newas[t], mem)
         /\ ~wrapped' => /\ Ph'[t] = PhaseAt(pc'[t], as'[t], newas'[t])
                         /\ Sp'[t] = SeenAt(pc'[t], as'[t], newas'[t], mem')
<1>1. Ph[t] = Phase(t) /\ Sp[t] = Seen(t) /\ Ph'[t] = Phase(t)' /\ Sp'[t] = Seen(t)'
  BY DEF Ph, Sp
<1>2. ~wrapped => Phase(t) = PhaseAt(pc[t], as[t], newas[t])
  BY DEF Phase, SpaceOf, PhaseAt, SpaceAt
<1>3. ~wrapped' => Phase(t)' = PhaseAt(pc'[t], as'[t], newas'[t])
  BY DEF Phase, SpaceOf, PhaseAt, SpaceAt
<1>4. ~wrapped => Seen(t) = SeenAt(pc[t], as[t], newas[t], mem)
  BY <1>2 DEF Seen, SeenAt, SpaceOf, SpaceAt, Contents
<1>5. ~wrapped' => Seen(t)' = SeenAt(pc'[t], as'[t], newas'[t], mem')
  BY <1>3 DEF Seen, SeenAt, SpaceOf, SpaceAt, Contents
<1> QED BY <1>1, <1>2, <1>3, <1>4, <1>5

\* A step in which nobody's view changes.
LEMMA UnseenStep ==
  ASSUME wrapped' = wrapped, \A u \in Thread : Ph'[u] = Ph[u] /\ Sp'[u] = Sp[u]
  PROVE  UNCHANGED Private!pmVars
<1>1. Ph' = Ph /\ Sp' = Sp
  BY DEF Ph, Sp
<1> QED BY <1>1 DEF Private!pmVars, Ph, Sp

\* A step in which one thread's view changes, in one of the promised ways.
LEMMA PrivateActions ==
  ASSUME wrapped' = wrapped, NEW t \in Thread,
         \A u \in Thread : u # t => Ph'[u] = Ph[u] /\ Sp'[u] = Sp[u],
         \/ Ph'[t] = Ph[t] /\ Sp'[t] = Sp[t]
         \/ Ph[t] = "none" /\ Ph'[t] = "loading"
         \/ Ph[t] = "loading" /\ Ph'[t] = "ready"
         \/ Ph[t] # "none" /\ Ph'[t] = "none"
         \/ Ph[t] = "none" /\ Ph'[t] = "ready" /\ \E p \in Thread : Ph[p] = "ready" /\ Sp'[t] = Sp[p]
         \/ /\ Ph[t] = "ready" /\ Ph'[t] = "ready"
            /\ \E i \in DOMAIN Sp[t] : \E k \in DOMAIN Sp[t][i] :
                 Sp'[t] = [Sp[t] EXCEPT ![i][k] = Sp'[t][i][k]]
  PROVE  Private!PMNext \/ UNCHANGED Private!pmVars
<1>1. CASE Ph'[t] = Ph[t] /\ Sp'[t] = Sp[t]
  <2>1. Ph' = Ph /\ Sp' = Sp
    BY <1>1 DEF Ph, Sp
  <2> QED BY <2>1 DEF Private!pmVars, Ph, Sp
<1>2. CASE ~(Ph'[t] = Ph[t] /\ Sp'[t] = Sp[t])
  <2>1. Private!Touched = {t}
    BY <1>2 DEF Private!Touched, Ph, Sp
  <2>2. \/ Private!Create(t) \/ Private!Load(t) \/ Private!Store(t) \/ Private!Free(t)
        \/ \E p \in Thread : Private!Copy(p, t)
    BY <1>2 DEF Private!Create, Private!Load, Private!Store, Private!Free, Private!Copy,
                Private!Becomes, Ph, Sp
  <2> QED BY <2>1, <2>2 DEF Private!PMNext
<1> QED BY <1>1, <1>2

\* The pages that a thread sees are its own.
LEMMA SeesOwnPages ==
  ASSUME VMInv, NEW u \in Thread, PhaseAt(pc[u], as[u], newas[u]) = "ready",
         NEW i \in 1 .. 3, NEW f \in RegionFrames(SpaceAt(pc[u], as[u], newas[u]), i)
  PROVE  \E kind \in {"as", "newas"} :
           /\ kind = "newas" <=> pc[u] = "forkentry"
           /\ <<u, kind, i>> \in Owner /\ f \in PagesOf(<<u, kind, i>>)
           /\ ~wrapped => f \in Frame
<1>1. PlaceOK(as[u], newas[u], pc[u], image[u], seg[u]) /\ newas[u] \in Spaces \cup {NULL}
  BY DEF VMInv, VarsOK, ThreadsOK
<1>2. pc[u] # "kernel" /\ as[u] # BadAs
  BY DEF PhaseAt
<1>3. CASE pc[u] = "forkentry"
  <2>1. newas[u] # NULL /\ newas[u] # BadAs /\ f \in RegionFrames(newas[u], i)
    BY <1>1, <1>3, NotNull DEF PlaceOK, SpaceAt
  <2>2. f \in SpaceFrames(newas[u], i)
    BY <2>1 DEF SpaceFrames
  <2>3. ~wrapped => f \in Frame
    BY <2>1, InMemory DEF VMInv
  <2> QED BY <1>3, <2>2, <2>3, OwnersAre
<1>4. CASE pc[u] # "forkentry"
  <2>1. as[u] # NULL /\ f \in RegionFrames(as[u], i)
    BY <1>1, <1>2, <1>4 DEF PlaceOK, SpaceAt
  <2>2. f \in SpaceFrames(as[u], i)
    BY <1>2, <2>1 DEF SpaceFrames
  <2>3. ~wrapped => f \in Frame
    BY <1>2, <2>1, InMemory DEF VMInv
  <2> QED BY <1>4, <2>2, <2>3, OwnersAre
<1> QED BY <1>3, <1>4

LEMMA OneOwner ==
  ASSUME VMInv, ~wrapped, NEW o \in Owner, NEW p \in Owner, NEW f,
         f \in PagesOf(o), f \in PagesOf(p)
  PROVE  o = p
BY DEF VMInv, PagesOwnedOnce

\* The view of a thread depends only on the pages of its regions.
LEMMA SameContents ==
  ASSUME NEW s, SetUp(s), NEW M, NEW N,
         \A i \in 1 .. 3 : \A f \in RegionFrames(s, i) : N[f] = M[f]
  PROVE  Contents(s, N) = Contents(s, M)
<1>1. ASSUME NEW i \in 1 .. 3, NEW k \in 0 .. RegionPages(s, i) - 1
      PROVE  N[s.pbase[i] + k * PAGE_SIZE] = M[s.pbase[i] + k * PAGE_SIZE]
  <2>1. s.pbase[i] # 0
    BY DEF SetUp
  <2>2. s.pbase[i] + k * PAGE_SIZE \in RegionFrames(s, i)
    BY <2>1 DEF RegionFrames
  <2> QED BY <2>2
<1> QED BY <1>1 DEF Contents

\* A step that leaves a thread where it is and writes none of its pages does
\* not change its view.
LEMMA SameView ==
  ASSUME ~wrapped, ~wrapped', NEW u \in Thread,
         as'[u] = as[u], newas'[u] = newas[u], pc'[u] = pc[u],
         PhaseAt(pc[u], as[u], newas[u]) = "ready" =>
           \A i \in 1 .. 3 : \A f \in RegionFrames(SpaceAt(pc[u], as[u], newas[u]), i) : mem'[f] = mem[f]
  PROVE  Ph'[u] = Ph[u] /\ Sp'[u] = Sp[u]
<1>1. Ph'[u] = Ph[u]
  BY ViewIs
<1>2. CASE PhaseAt(pc[u], as[u], newas[u]) # "ready"
  BY <1>1, <1>2, ViewIs DEF SeenAt
<1>3. CASE PhaseAt(pc[u], as[u], newas[u]) = "ready"
  <2> DEFINE s == SpaceAt(pc[u], as[u], newas[u])
  <2>1. SetUp(s)
    BY <1>3 DEF PhaseAt
  <2>2. \A i \in 1 .. 3 : \A f \in RegionFrames(s, i) : mem'[f] = mem[f]
    BY <1>3
  <2>3. Contents(s, mem') = Contents(s, mem)
    <3> HIDE DEF s
    <3> QED BY <2>1, <2>2, SameContents
  <2>4. SeenAt(pc[u], as[u], newas[u], mem') = SeenAt(pc[u], as[u], newas[u], mem)
    BY <2>3 DEF SeenAt
  <2> QED BY <1>1, <2>4, ViewIs
<1> QED BY <1>2, <1>3

\* A step of t that writes no memory, by what it does to the phase of t.
LEMMA QuietStep ==
  ASSUME wrapped' = wrapped, ~wrapped, mem' = mem, NEW t \in Thread,
         \A u \in Thread : u # t => as'[u] = as[u] /\ newas'[u] = newas[u] /\ pc'[u] = pc[u],
         NEW p, NEW q, p = PhaseAt(pc[t], as[t], newas[t]), q = PhaseAt(pc'[t], as'[t], newas'[t]),
         \/ q = p /\ (p = "ready" =>
                        SpaceAt(pc'[t], as'[t], newas'[t]) = SpaceAt(pc[t], as[t], newas[t]))
         \/ p = "none" /\ q = "loading"
         \/ p = "loading" /\ q = "ready"
         \/ p # "none" /\ q = "none"
  PROVE  Private!PMNext \/ UNCHANGED Private!pmVars
<1>1. ~wrapped'
  OBVIOUS
<1>2. \A u \in Thread : u # t => Ph'[u] = Ph[u] /\ Sp'[u] = Sp[u]
  BY <1>1, SameView
<1>3. /\ Ph[t] = p /\ Ph'[t] = q
      /\ Sp[t] = SeenAt(pc[t], as[t], newas[t], mem)
      /\ Sp'[t] = SeenAt(pc'[t], as'[t], newas'[t], mem)
  BY <1>1, ViewIs
<1>4. CASE q = p /\ (p = "ready" =>
             SpaceAt(pc'[t], as'[t], newas'[t]) = SpaceAt(pc[t], as[t], newas[t]))
  <2>1. Sp'[t] = Sp[t]
    BY <1>3, <1>4 DEF SeenAt
  <2>2. \A u \in Thread : Ph'[u] = Ph[u] /\ Sp'[u] = Sp[u]
    BY <1>2, <1>3, <1>4, <2>1
  <2> QED BY <2>2, UnseenStep
<1>5. CASE (p = "none" /\ q = "loading") \/ (p = "loading" /\ q = "ready") \/ (p # "none" /\ q = "none")
  BY <1>2, <1>3, <1>5, PrivateActions
<1> QED BY <1>4, <1>5

\* Two pages of a region are different.
LEMMA PagesDiffer ==
  ASSUME NEW b \in Nat, NEW k \in Nat, NEW m \in Nat, b + k * PAGE_SIZE = b + m * PAGE_SIZE
  PROVE  k = m
<1>1. k * PAGE_SIZE = m * PAGE_SIZE /\ k * PAGE_SIZE \in Nat /\ PAGE_SIZE \in Nat \ {0}
  <2>1. k * PAGE_SIZE \in Nat /\ m * PAGE_SIZE \in Nat
    BY Constants
  <2> QED BY <2>1, Constants
<1>2. ASSUME NEW x \in Nat, NEW y \in Nat, x < y, x * PAGE_SIZE = y * PAGE_SIZE PROVE FALSE
  <2>1. x * PAGE_SIZE + PAGE_SIZE <= y * PAGE_SIZE /\ x * PAGE_SIZE \in Nat
    BY <1>2, Constants, TimesOrder
  <2> QED BY <1>2, <2>1, Constants
<1>3. ~(k < m) /\ ~(m < k)
  BY <1>1, <1>2
<1> QED BY <1>3

\* p is page k of region i of a, and no other page of a.
OnlyAt(a, p, i, k) ==
  /\ k \in 0 .. RegionPages(a, i) - 1 /\ p = a.pbase[i] + k * PAGE_SIZE
  /\ \A j \in 1 .. 3 : \A m \in 0 .. RegionPages(a, j) - 1 :
       /\ a.pbase[j] + m * PAGE_SIZE \in Frame
       /\ a.pbase[j] + m * PAGE_SIZE = p => j = i /\ m = k

\* A write to page k of region i changes that page of the contents only.
LEMMA OneWrite ==
  ASSUME NEW a, NEW M, NEW N, NEW i \in 1 .. 3, NEW k,
         NEW p, OnlyAt(a, p, i, k), \A f \in Frame : f # p => N[f] = M[f]
  PROVE  Contents(a, N) = [Contents(a, M) EXCEPT ![i][k] = Contents(a, N)[i][k]]
<1> DEFINE C == Contents(a, M)
           D == Contents(a, N)
<1>1. ASSUME NEW j \in 1 .. 3, NEW m \in 0 .. RegionPages(a, j) - 1, ~(j = i /\ m = k)
      PROVE  D[j][m] = C[j][m]
  <2>1. PICK f : f = a.pbase[j] + m * PAGE_SIZE
    OBVIOUS
  <2>2. f \in Frame /\ f # p
    BY <1>1, <2>1 DEF OnlyAt
  <2>3. N[f] = M[f]
    BY <2>2
  <2> QED BY <2>1, <2>3 DEF Contents
<1>2. /\ C = [j \in 1 .. 3 |-> C[j]] /\ D = [j \in 1 .. 3 |-> D[j]]
      /\ \A j \in 1 .. 3 : /\ C[j] = [m \in 0 .. RegionPages(a, j) - 1 |-> C[j][m]]
                           /\ D[j] = [m \in 0 .. RegionPages(a, j) - 1 |-> D[j][m]]
  BY DEF Contents
<1> HIDE DEF C, D
<1>0. k \in 0 .. RegionPages(a, i) - 1
  BY DEF OnlyAt
<1>3. \A j \in 1 .. 3 : j # i => D[j] = C[j]
  BY <1>1, <1>2
<1>4. D[i] = [C[i] EXCEPT ![k] = D[i][k]]
  <2>1. PICK S : S = 0 .. RegionPages(a, i) - 1
    OBVIOUS
  <2>2. PICK c, d : c = C[i] /\ d = D[i]
    OBVIOUS
  <2>3. \A m \in S : m # k => d[m] = c[m]
    BY <1>1, <2>1, <2>2
  <2>4. c = [m \in S |-> c[m]] /\ d = [m \in S |-> d[m]]
    BY <1>2, <2>1, <2>2
  <2>5. d = [c EXCEPT ![k] = d[k]]
    BY ONLY <2>3, <2>4
  <2> QED BY <2>2, <2>5
<1>5. D = [C EXCEPT ![i] = [C[i] EXCEPT ![k] = D[i][k]]]
  BY <1>2, <1>3, <1>4
<1> QED BY <1>5 DEF C, D

\* A store changes a page of the process itself.
LEMMA StoreStep ==
  ASSUME VMInv, ~wrapped, panicked = "no",
         NEW t \in Thread, NEW v \in UserPage, NEW x \in Value, store(t, v, x)
  PROVE  Private!PMNext \/ UNCHANGED Private!pmVars
<1> DEFINE a == as[t]
<1>0. VarsOK /\ ThreadsOK /\ TLBOK /\ PagesOwnedOnce
  BY DEF VMInv
<1>1. /\ cur = t /\ pc[t] = "user" /\ wrapped' = wrapped
      /\ as' = as /\ newas' = newas /\ pc' = pc
  BY DEF store, Runs
<1>2. PICK j \in Hits(v) : mem' = mem \/ mem' = [mem EXCEPT ![tlb[j].p] = x]
  BY DEF store
<1>3. PICK p : p = tlb[j].p
  OBVIOUS
<1>4. /\ p \in Frame /\ SpaceOK(a)
      /\ \E i \in 1 .. 3 : \E k \in 0 .. RegionPages(a, i) - 1 :
           p = a.pbase[i] + k * PAGE_SIZE /\ p \in RegionFrames(a, i)
  BY <1>0, <1>1, <1>3, MappedPage
<1>5. CASE mem' = mem
  BY <1>1, <1>5, QuietStep
<1>6. CASE mem' = [mem EXCEPT ![tlb[j].p] = x]
  <2>1. PICK i \in 1 .. 3 : \E k \in 0 .. RegionPages(a, i) - 1 :
           p = a.pbase[i] + k * PAGE_SIZE /\ p \in RegionFrames(a, i)
    BY <1>4
  <2>2. PICK k \in 0 .. RegionPages(a, i) - 1 :
           p = a.pbase[i] + k * PAGE_SIZE /\ p \in RegionFrames(a, i)
    BY <2>1
  <2>3. mem \in [Frame -> Value] /\ mem' = [mem EXCEPT ![p] = x]
    BY <1>0, <1>3, <1>6 DEF VarsOK
  <2>4. <<t, "as", i>> \in Owner /\ p \in PagesOf(<<t, "as", i>>)
    <3>1. a # NULL /\ a # BadAs
      BY <1>4, NotNull
    <3>2. p \in SpaceFrames(a, i)
      BY <3>1, <2>2 DEF SpaceFrames
    <3> QED BY <3>2, OwnersAre
  <2>5. ASSUME NEW u \in Thread, PhaseAt(pc[u], as[u], newas[u]) = "ready", NEW l \in 1 .. 3,
               NEW f \in RegionFrames(SpaceAt(pc[u], as[u], newas[u]), l)
        PROVE  f \in Frame /\ (f = p => u = t /\ l = i)
    <3>1. PICK kind \in {"as", "newas"} :
            <<u, kind, l>> \in Owner /\ f \in PagesOf(<<u, kind, l>>) /\ f \in Frame
      BY <2>5, SeesOwnPages
    <3>2. f = p => <<u, kind, l>> = <<t, "as", i>>
      BY <3>1, <2>4, OneOwner
    <3> QED BY <3>1, <3>2
  <2>6. \A u \in Thread : u # t => Ph'[u] = Ph[u] /\ Sp'[u] = Sp[u]
    <3> SUFFICES ASSUME NEW u \in Thread, u # t PROVE Ph'[u] = Ph[u] /\ Sp'[u] = Sp[u]
      OBVIOUS
    <3>1. ASSUME PhaseAt(pc[u], as[u], newas[u]) = "ready", NEW l \in 1 .. 3,
                 NEW f \in RegionFrames(SpaceAt(pc[u], as[u], newas[u]), l)
          PROVE  mem'[f] = mem[f]
      BY <3>1, <2>3, <2>5
    <3>2. as'[u] = as[u] /\ newas'[u] = newas[u] /\ pc'[u] = pc[u] /\ ~wrapped'
      BY <1>1
    <3> QED BY <3>1, <3>2, SameView
  <2>7. /\ Ph[t] = PhaseAt("user", a, newas[t]) /\ Ph'[t] = Ph[t]
        /\ Sp[t] = SeenAt("user", a, newas[t], mem) /\ Sp'[t] = SeenAt("user", a, newas[t], mem')
    BY <1>1, ViewIs
  <2>8. CASE Ph[t] # "ready"
    <3>1. Sp'[t] = Sp[t]
      BY <2>7, <2>8 DEF SeenAt
    <3> QED BY <1>1, <2>6, <2>7, <3>1, PrivateActions
  <2>9. CASE Ph[t] = "ready"
    <3>1. Sp[t] = Contents(a, mem) /\ Sp'[t] = Contents(a, mem') /\ SetUp(a)
      BY <2>7, <2>9 DEF SeenAt, SpaceAt, PhaseAt
    <3>2. ASSUME NEW l \in 1 .. 3, NEW m \in 0 .. RegionPages(a, l) - 1
          PROVE  /\ a.pbase[l] + m * PAGE_SIZE \in Frame
                 /\ a.pbase[l] + m * PAGE_SIZE = p => l = i /\ m = k
      <4>1. PICK f : f = a.pbase[l] + m * PAGE_SIZE
        OBVIOUS
      <4>2. f \in RegionFrames(a, l)
        BY <3>1, <4>1 DEF RegionFrames, SetUp
      <4>3. f \in Frame /\ (f = p => l = i)
        BY <4>2, <2>5, <2>7, <2>9, <1>1 DEF SpaceAt
      <4>4. ASSUME f = p PROVE m = k
        <5>1. l = i /\ a.pbase[i] + m * PAGE_SIZE = a.pbase[i] + k * PAGE_SIZE
          BY <4>1, <4>3, <4>4, <2>2
        <5>2. a.pbase[i] \in Nat /\ RegionPages(a, i) \in Nat
          BY <1>4, Regions, Pages
        <5>3. m \in Nat /\ k \in Nat
          BY <5>1, <5>2
        <5> QED BY <5>1, <5>2, <5>3, PagesDiffer
      <4> QED BY <4>1, <4>3, <4>4
    <3>3. Contents(a, mem') = [Contents(a, mem) EXCEPT ![i][k] = Contents(a, mem')[i][k]]
      <4>1. PICK N : N = mem'
        OBVIOUS
      <4>2. OnlyAt(a, p, i, k)
        BY <3>2, <2>2 DEF OnlyAt
      <4>3. \A f \in Frame : f # p => N[f] = mem[f]
        BY <4>1, <2>3
      <4> HIDE DEF a
      <4>4. Contents(a, N) = [Contents(a, mem) EXCEPT ![i][k] = Contents(a, N)[i][k]]
        BY <4>2, <4>3, OneWrite
      <4> QED BY <4>1, <4>4
    <3>4. i \in DOMAIN Sp[t] /\ k \in DOMAIN Sp[t][i]
      BY <3>1 DEF Contents
    <3>5. \E l \in DOMAIN Sp[t] : \E m \in DOMAIN Sp[t][l] :
            Sp'[t] = [Sp[t] EXCEPT ![l][m] = Sp'[t][l][m]]
      BY <3>1, <3>3, <3>4
    <3> QED BY <1>1, <2>6, <2>7, <2>9, <3>5, PrivateActions
  <2> QED BY <2>8, <2>9
<1> QED BY <1>2, <1>5, <1>6

\* Memory after the memmoves.
Moved(old, new, M) ==
  [f \in Frame |-> IF MovedFrom(old, new, f) = {} THEN M[f]
                   ELSE M[CHOOSE g \in MovedFrom(old, new, f) : TRUE]]

\* N differs from M in the pages of new only, and each of them has the contents
\* of the page of old in the same place.
Copied(old, new, M, N) ==
  /\ \A f \in Frame : (\A j \in 1 .. 3 : f \notin RegionFrames(new, j)) => N[f] = M[f]
  /\ \A i \in 1 .. 3 : \A k \in 0 .. RegionPages(new, i) - 1 :
       new.pbase[i] # 0 => N[new.pbase[i] + k * PAGE_SIZE] = M[old.pbase[i] + k * PAGE_SIZE]

LEMMA MovesCopy ==
  ASSUME VMInv, ~wrapped, NEW t \in Thread, NEW old, NEW new, old = as[t], new = newas[t],
         pc[t] = "copy", NEW N, N = Moved(old, new, mem),
         \A i \in 1 .. 3 : RegionFrames(new, i) \subseteq Frame
  PROVE  Copied(old, new, mem, N)
<1>0. SpaceOK(old) /\ SpaceOK(new)
  BY AtPlace DEF VMInv
<1>1. ASSUME NEW f \in Frame, \A j \in 1 .. 3 : f \notin RegionFrames(new, j)
      PROVE  N[f] = mem[f]
  <2>1. MovedFrom(old, new, f) = {}
    BY <1>1 DEF MovedFrom
  <2> QED BY <2>1 DEF Moved
<1>2. ASSUME NEW i \in 1 .. 3, NEW k \in 0 .. RegionPages(new, i) - 1, new.pbase[i] # 0
      PROVE  N[new.pbase[i] + k * PAGE_SIZE] = mem[old.pbase[i] + k * PAGE_SIZE]
  <2>1. PICK f, g : f = new.pbase[i] + k * PAGE_SIZE /\ g = old.pbase[i] + k * PAGE_SIZE
    OBVIOUS
  <2>2. f \in RegionFrames(new, i) /\ f \in Frame
    <3>1. f \in RegionFrames(new, i)
      BY <1>2, <2>1 DEF RegionFrames
    <3> QED BY <3>1
  <2>3. ASSUME NEW j \in 1 .. 3, f \in RegionFrames(new, j)
        PROVE  j = i
    <3>1. new # NULL /\ new # BadAs
      BY <1>0, NotNull
    <3>2. f \in SpaceFrames(new, i) /\ f \in SpaceFrames(new, j)
      BY <2>2, <2>3, <3>1 DEF SpaceFrames
    <3>3. /\ <<t, "newas", i>> \in Owner /\ f \in PagesOf(<<t, "newas", i>>)
          /\ <<t, "newas", j>> \in Owner /\ f \in PagesOf(<<t, "newas", j>>)
      BY <3>2, OwnersAre
    <3>4. <<t, "newas", i>> = <<t, "newas", j>>
      BY <3>3, OneOwner
    <3> QED BY <3>4
  <2>4. old.pbase[i] + (f - new.pbase[i]) = g
    <3>1. new.pbase[i] \in Nat /\ old.pbase[i] \in Nat /\ k * PAGE_SIZE \in Nat
      BY <1>0, Regions, Pages, FrameInRegion
    <3>2. ASSUME NEW x \in Nat, NEW y \in Nat, NEW z \in Nat, f = y + z
          PROVE  x + (f - y) = x + z
      BY <3>2
    <3> QED BY <3>1, <3>2, <2>1
  <2>5. MovedFrom(old, new, f) = {g}
    <3>1. {j \in 1 .. 3 : f \in RegionFrames(new, j)} = {i}
      BY <2>2, <2>3
    <3> QED BY <3>1, <2>4 DEF MovedFrom
  <2>6. N[f] = mem[CHOOSE y \in {g} : TRUE]
    BY <2>2, <2>5 DEF Moved
  <2>7. (CHOOSE y \in {g} : TRUE) = g
    OBVIOUS
  <2> QED BY <2>1, <2>6, <2>7
<1> QED BY <1>1, <1>2 DEF Copied

LEMMA CopyStep ==
  ASSUME VMInv, ~wrapped, NEW t \in Thread, NEW c \in Thread, as_copy_move(t, c)
  PROVE  Private!PMNext \/ UNCHANGED Private!pmVars
<1>1. PICK old, new : old = as[t] /\ new = newas[t]
  OBVIOUS
<1> DEFINE touched == UNION {RegionFrames(old, i) \cup RegionFrames(new, i) : i \in 1 .. 3}
<1>2. /\ pc[t] = "copy" /\ seg[t] > 3 /\ c # t /\ pc[c] = "kernel" /\ as[c] = NULL
      /\ as' = as /\ wrapped' = wrapped
  BY DEF as_copy_move
<1>3. CASE ~(touched \subseteq Frame)
  <2>1. mem' = mem /\ newas' = newas /\ pc' = pc
    BY <1>1, <1>3 DEF as_copy_move
  <2> QED BY <1>2, <2>1, QuietStep
<1>4. CASE touched \subseteq Frame
  <2>1. /\ mem' = Moved(old, new, mem)
        /\ newas' = [newas EXCEPT ![t] = NULL, ![c] = new]
        /\ pc' = [pc EXCEPT ![t] = "user", ![c] = "forkentry"]
    <3>1. UNION {RegionFrames(as[t], i) \cup RegionFrames(newas[t], i) : i \in 1 .. 3} \subseteq Frame
      BY <1>1, <1>4
    <3>2. /\ mem' = Moved(as[t], newas[t], mem)
          /\ newas' = [newas EXCEPT ![t] = NULL, ![c] = newas[t]]
          /\ pc' = [pc EXCEPT ![t] = "user", ![c] = "forkentry"]
      BY <3>1 DEF as_copy_move, Moved
    <3> QED BY <1>1, <3>2
  <2>2. /\ newas'[t] = NULL /\ pc'[t] = "user" /\ newas'[c] = new /\ pc'[c] = "forkentry"
        /\ \A u \in Thread : u # t /\ u # c => newas'[u] = newas[u] /\ pc'[u] = pc[u]
    BY <1>2, <2>1 DEF VMInv, VarsOK
  <2>3. /\ SpaceOK(old) /\ SpaceOK(new) /\ new.vbase = old.vbase /\ new.npages = old.npages
        /\ \A j \in 1 .. 3 : old.pbase[j] # 0 /\ new.pbase[j] # 0
    <3>1. /\ PlaceOK(as[t], newas[t], "copy", image[t], seg[t])
          /\ SpaceOK(as[t]) /\ SpaceOK(newas[t])
      BY <1>2, AtPlace DEF VMInv
    <3>2. /\ seg[t] \in 1 .. 4 /\ newas[t].vbase = as[t].vbase /\ newas[t].npages = as[t].npages
          /\ \A j \in 1 .. 3 : as[t].pbase[j] # 0
          /\ \A j \in 1 .. 3 : (newas[t].pbase[j] # 0) <=> (j < seg[t])
      BY <3>1 DEF PlaceOK
    <3>3. \A j \in 1 .. 3 : j < seg[t]
      BY <1>2, <3>2
    <3> QED BY <1>1, <3>1, <3>2, <3>3
  <2>4. PICK N : N = mem'
    OBVIOUS
  <2>5. Copied(old, new, mem, N)
    <3>1. \A i \in 1 .. 3 : RegionFrames(new, i) \subseteq Frame
      BY <1>4
    <3>2. N = Moved(old, new, mem) /\ old = as[t] /\ new = newas[t] /\ pc[t] = "copy"
      BY <1>1, <1>2, <2>1, <2>4
    <3> HIDE DEF touched
    <3> QED BY <3>1, <3>2, MovesCopy
  <2>6. ASSUME NEW u \in Thread, u # c, PhaseAt(pc[u], as[u], newas[u]) = "ready", NEW l \in 1 .. 3,
               NEW f \in RegionFrames(SpaceAt(pc[u], as[u], newas[u]), l)
        PROVE  mem'[f] = mem[f]
    <3>1. PICK kind \in {"as", "newas"} :
            /\ kind = "newas" <=> pc[u] = "forkentry"
            /\ <<u, kind, l>> \in Owner /\ f \in PagesOf(<<u, kind, l>>) /\ f \in Frame
      BY <2>6, SeesOwnPages
    <3>2. ASSUME NEW j \in 1 .. 3, f \in RegionFrames(new, j) PROVE FALSE
      <4>1. f \in SpaceFrames(newas[t], j)
        BY <1>1, <2>3, <3>2, NotNull DEF SpaceFrames
      <4>2. <<t, "newas", j>> \in Owner /\ f \in PagesOf(<<t, "newas", j>>)
        BY <4>1, OwnersAre
      <4>3. <<u, kind, l>> = <<t, "newas", j>>
        BY <3>1, <4>2, OneOwner
      <4>4. u = t /\ kind = "newas"
        BY <4>3
      <4> QED BY <4>4, <3>1, <1>2
    <3> QED BY <3>1, <3>2, <2>4, <2>5 DEF Copied
  <2>7. ASSUME NEW u \in Thread, u # t, u # c
        PROVE  Ph'[u] = Ph[u] /\ Sp'[u] = Sp[u]
    <3>1. as'[u] = as[u] /\ newas'[u] = newas[u] /\ pc'[u] = pc[u] /\ ~wrapped'
      BY <1>2, <2>2, <2>7
    <3> QED BY <2>6, <2>7, <3>1, SameView
  <2>8. /\ Ph[t] = PhaseAt("copy", old, new) /\ Sp[t] = SeenAt("copy", old, new, mem)
        /\ Ph'[t] = PhaseAt("user", old, NULL) /\ Sp'[t] = SeenAt("user", old, NULL, mem')
        /\ Ph[c] = PhaseAt("kernel", NULL, newas[c])
        /\ Ph'[c] = PhaseAt("forkentry", NULL, new) /\ Sp'[c] = SeenAt("forkentry", NULL, new, mem')
    BY <1>1, <1>2, <2>2, ViewIs
  <2>9. Ph'[t] = Ph[t] /\ Sp'[t] = Sp[t]
    <3>1. Ph'[t] = Ph[t]
      BY <2>8 DEF PhaseAt, SpaceAt
    <3>2. CASE Ph[t] = "ready"
      <4>1. SetUp(old) /\ Sp[t] = Contents(old, mem) /\ Sp'[t] = Contents(old, mem')
        BY <2>8, <3>1, <3>2 DEF PhaseAt, SeenAt, SpaceAt
      <4>2. PhaseAt(pc[t], as[t], newas[t]) = "ready" /\ SpaceAt(pc[t], as[t], newas[t]) = old
        BY <1>1, <1>2, <2>8, <3>2 DEF SpaceAt
      <4>3. \A i \in 1 .. 3 : \A f \in RegionFrames(old, i) : mem'[f] = mem[f]
        BY <1>2, <2>6, <4>2
      <4> QED BY <3>1, <4>1, <4>3, SameContents
    <3>3. CASE Ph[t] # "ready"
      BY <2>8, <3>1, <3>3 DEF SeenAt
    <3> QED BY <3>2, <3>3
  <2>10. Ph[c] = "none"
    BY <2>8 DEF PhaseAt
  <2>11. CASE SetUp(new)
    <3>1. SetUp(old)
      BY <2>3, <2>11 DEF SetUp
    <3>2. Ph[t] = "ready" /\ Sp[t] = Contents(old, mem)
      BY <2>3, <2>8, <3>1, NotNull DEF PhaseAt, SeenAt, SpaceAt
    <3>3. Ph'[c] = "ready" /\ Sp'[c] = Contents(new, N)
      BY <2>4, <2>8, <2>11, NotNull DEF PhaseAt, SeenAt, SpaceAt
    <3>4. Contents(new, N) = Contents(old, mem)
      <4>1. \A i \in 1 .. 3 : RegionPages(new, i) = RegionPages(old, i)
        BY <2>3 DEF RegionPages
      <4>2. ASSUME NEW i \in 1 .. 3, NEW k \in 0 .. RegionPages(new, i) - 1
            PROVE  N[new.pbase[i] + k * PAGE_SIZE] = mem[old.pbase[i] + k * PAGE_SIZE]
        BY <2>3, <2>5 DEF Copied
      <4> QED BY <4>1, <4>2 DEF Contents
    <3> QED BY <1>2, <2>7, <2>9, <2>10, <3>2, <3>3, <3>4, PrivateActions
  <2>12. CASE ~SetUp(new)
    <3>1. Ph'[c] = "loading"
      BY <2>8, <2>12, NotNull DEF PhaseAt, SpaceAt
    <3> QED BY <1>2, <2>7, <2>9, <2>10, <3>1, PrivateActions
  <2> QED BY <2>11, <2>12
<1> QED BY <1>3, <1>4

\* A request that has wrapped stays a fact.
LEMMA StaysWrapped ==
  ASSUME Next, wrapped
  PROVE  wrapped'
<1>1. ASSUME NEW n, getppages(n) PROVE wrapped'
  BY <1>1, Zenon DEF getppages
<1>2. CASE UNCHANGED wrapped
  BY <1>2
<1>3. ASSUME NEW t \in Thread, NEW n \in KernelRequest, alloc_kpages(t, n) PROVE wrapped'
  BY <1>1, <1>3, Zenon DEF alloc_kpages
<1>4. ASSUME NEW t \in Thread, as_prepare_load(t) PROVE wrapped'
  <2>1. UNCHANGED wrapped \/ getppages(RegionPages(as[t], seg[t]))
    BY <1>4 DEF as_prepare_load
  <2> QED BY <1>1, <1>2, <2>1
<1>5. ASSUME NEW t \in Thread, as_copy_region(t) PROVE wrapped'
  BY <1>1, <1>5, Zenon DEF as_copy_region
<1>6. ASSUME NEW t \in Thread, NEW i \in Image, runprogram(t, i) PROVE wrapped'
  BY <1>2, <1>6 DEF runprogram
<1>7. ASSUME NEW t \in Thread, as_define_region(t) \/ as_copy(t) \/ md_forkentry(t) \/ as_activate(t)
      PROVE wrapped'
  BY <1>2, <1>7 DEF as_define_region, as_copy, md_forkentry, as_activate
<1>8. ASSUME NEW t \in Thread, NEW c \in Thread, as_copy_move(t, c) \/ thread_exit(t, c) PROVE wrapped'
  BY <1>2, <1>8 DEF as_copy_move, thread_exit
<1>9. ASSUME NEW t \in Thread, NEW v \in UserPage, NEW x \in Value, store(t, v, x) PROVE wrapped'
  BY <1>2, <1>9 DEF store
<1>10. ASSUME NEW t \in Thread, NEW a \in TouchAddr, tlb_miss(t, a) PROVE wrapped'
  BY <1>2, <1>10 DEF tlb_miss
<1>11. ASSUME NEW t \in Thread, vm_fault(t) PROVE wrapped'
  BY <1>2, <1>11 DEF vm_fault
<1>12. ASSUME NEW t \in Thread, mi_switch(t) PROVE wrapped'
  BY <1>2, <1>12 DEF mi_switch
<1> QED BY <1>3, <1>4, <1>5, <1>6, <1>7, <1>8, <1>9, <1>10, <1>11, <1>12 DEF Next

\* Every step is one that PrivateMemory allows, or one that it does not see.
LEMMA PrivateStep ==
  ASSUME VMInv, Next
  PROVE  Private!PMNext \/ UNCHANGED Private!pmVars
<1>0. VarsOK /\ ThreadsOK /\ VarsOK' /\ panicked = "no"
  BY VarsStep, NothingStopped DEF VMInv
<1>a. CASE wrapped'
  BY <1>a DEF Private!PMNext
<1>b. SUFFICES ASSUME ~wrapped' PROVE Private!PMNext \/ UNCHANGED Private!pmVars
  BY <1>a
<1>c. ~wrapped /\ wrapped' = wrapped
  <2>1. ~wrapped
    BY <1>b, StaysWrapped
  <2>2. wrapped \in BOOLEAN /\ wrapped' \in BOOLEAN
    BY <1>0 DEF VarsOK
  <2> QED BY <2>1, <2>2, <1>b
<1>s. ASSUME mem' = mem, as' = as, newas' = newas, pc' = pc
      PROVE  Private!PMNext \/ UNCHANGED Private!pmVars
  <2>1. PICK t \in Thread : t = cur
    BY <1>0 DEF VarsOK
  <2> QED BY <1>c, <1>s, QuietStep
<1>1. ASSUME NEW t \in Thread, NEW n \in KernelRequest, alloc_kpages(t, n)
      PROVE  Private!PMNext \/ UNCHANGED Private!pmVars
  BY <1>1, <1>s DEF alloc_kpages
<1>2. ASSUME NEW t \in Thread, NEW i \in Image, runprogram(t, i)
      PROVE  Private!PMNext \/ UNCHANGED Private!pmVars
  <2>1. /\ pc[t] = "kernel" /\ pc'[t] = "load" /\ as'[t] = EmptyAs /\ mem' = mem /\ newas' = newas
        /\ \A u \in Thread : u # t => as'[u] = as[u] /\ pc'[u] = pc[u]
    BY <1>0, <1>2 DEF runprogram, VarsOK
  <2>2. PhaseAt(pc[t], as[t], newas[t]) = "none"
    BY <2>1 DEF PhaseAt
  <2>3. PhaseAt(pc'[t], as'[t], newas'[t]) = "loading"
    BY <2>1, EmptySpace, NotNull DEF PhaseAt, SpaceAt
  <2> QED BY <1>c, <2>1, <2>2, <2>3, QuietStep
<1>3. ASSUME NEW t \in Thread, as_define_region(t)
      PROVE  Private!PMNext \/ UNCHANGED Private!pmVars
  <2>1. pc[t] = "load" /\ image[t] # <<>> /\ mem' = mem /\ newas' = newas
    BY <1>3 DEF as_define_region
  <2>2. ASSUME NEW b, SpaceOK(b), b.pbase = as[t].pbase, as' = [as EXCEPT ![t] = b],
               pc' = pc \/ pc' = [pc EXCEPT ![t] = "exit"]
        PROVE  Private!PMNext \/ UNCHANGED Private!pmVars
    <3>1. as[t].pbase[1] = 0 /\ SpaceOK(as[t])
      <4>1. /\ SpaceOK(as[t])
            /\ seg[t] = 1 /\ \A j \in 1 .. 3 : (as[t].pbase[j] # 0) <=> (j < seg[t])
        BY <1>0, <2>1, AtPlace DEF PlaceOK
      <4>2. 1 \in 1 .. 3 /\ ~(1 < 1)
        OBVIOUS
      <4> QED BY <4>1, <4>2
    <3>2. ~SetUp(as[t]) /\ ~SetUp(b)
      <4>1. 1 \in 1 .. 3 /\ as[t].pbase[1] = 0 /\ b.pbase[1] = 0
        BY <2>2, <3>1
      <4> QED BY <4>1 DEF SetUp
    <3>3. /\ as'[t] = b /\ pc'[t] \in {"load", "exit"}
          /\ \A u \in Thread : u # t => as'[u] = as[u] /\ pc'[u] = pc[u]
      BY <1>0, <2>1, <2>2 DEF VarsOK
    <3>4. PhaseAt(pc[t], as[t], newas[t]) = "loading" /\ PhaseAt(pc'[t], as'[t], newas'[t]) = "loading"
      BY <2>1, <2>2, <3>1, <3>2, <3>3, NotNull DEF PhaseAt, SpaceAt
    <3> QED BY <1>c, <2>1, <3>3, <3>4, QuietStep
  <2>3. SpaceOK(as[t]) /\ as = [as EXCEPT ![t] = as[t]]
    BY <1>0, <2>1, AtPlace DEF VarsOK
  <2>4. CASE as' = as /\ pc' = [pc EXCEPT ![t] = "exit"]
    <3>1. PICK b : b = as[t]
      OBVIOUS
    <3>2. as' = [as EXCEPT ![t] = b] /\ SpaceOK(b) /\ b.pbase = as[t].pbase
      BY <2>3, <2>4, <3>1
    <3> QED BY <2>2, <2>4, <3>2
  <2>5. CASE /\ \E b : as' = [as EXCEPT ![t] = b] /\ SpaceOK(b) /\ b.pbase = as[t].pbase
             /\ pc' = pc
    BY <2>2, <2>5
  <2> QED BY <2>4, <2>5, <1>0, <1>3, DefineEffect
<1>4. ASSUME NEW t \in Thread, as_prepare_load(t)
      PROVE  Private!PMNext \/ UNCHANGED Private!pmVars
  <2>1. mem' = mem /\ newas' = newas
    BY <1>4 DEF as_prepare_load
  <2>2. PICK n : n = RegionPages(as[t], seg[t])
    OBVIOUS
  <2>3. PICK b : b = [as[t] EXCEPT !.pbase[seg[t]] = paddr(n)]
    OBVIOUS
  <2>4. /\ pc[t] = "load" /\ SpaceOK(as[t]) /\ seg[t] \in 1 .. 3
        /\ n \in Nat /\ n * PAGE_SIZE < WORD /\ getppages(n)
        /\ as' = [as EXCEPT ![t] = b]
        /\ pc' = [pc EXCEPT ![t] = IF paddr(n) = 0 THEN "exit"
                                   ELSE IF seg[t] = 3 THEN "user" ELSE "load"]
    BY <1>0, <1>4, <2>2, <2>3, LoadEffect
  <2>5. as[t].pbase[seg[t]] = 0
    <3>1. \A j \in 1 .. 3 : (as[t].pbase[j] # 0) <=> (j < seg[t])
      BY <1>0, <2>4, AtPlace DEF PlaceOK
    <3>2. ~(seg[t] < seg[t])
      BY <2>4
    <3> QED BY <2>4, <3>1, <3>2
  <2>6. SpaceOK(b)
    <3>1. paddr(n) \in Page
      BY <1>0, <2>4, Grant
    <3> QED BY <2>3, <2>4, <3>1, GivePages
  <2>7. /\ as'[t] = b /\ pc'[t] \in {"load", "exit", "user"}
        /\ \A u \in Thread : u # t => as'[u] = as[u] /\ pc'[u] = pc[u]
    BY <1>0, <2>4 DEF VarsOK
  <2>8. PhaseAt(pc[t], as[t], newas[t]) = "loading"
    <3>1. ~SetUp(as[t])
      BY <2>4, <2>5 DEF SetUp
    <3> QED BY <2>4, <3>1, NotNull DEF PhaseAt, SpaceAt
  <2>9. PhaseAt(pc'[t], as'[t], newas'[t]) \in {"loading", "ready"}
    BY <2>6, <2>7, NotNull DEF PhaseAt
  <2> QED BY <1>c, <2>1, <2>7, <2>8, <2>9, QuietStep
\* Steps of a program's thread between places with the same view.
<1>m. ASSUME NEW t \in Thread, mem' = mem, as' = as,
             \A u \in Thread : u # t => newas'[u] = newas[u] /\ pc'[u] = pc[u],
             pc[t] \notin {"kernel", "forkentry"}, pc'[t] \notin {"kernel", "forkentry"}
      PROVE  Private!PMNext \/ UNCHANGED Private!pmVars
  <2>1. /\ PhaseAt(pc'[t], as'[t], newas'[t]) = PhaseAt(pc[t], as[t], newas[t])
        /\ SpaceAt(pc'[t], as'[t], newas'[t]) = SpaceAt(pc[t], as[t], newas[t])
    BY <1>m DEF PhaseAt, SpaceAt
  <2> QED BY <1>c, <1>m, <2>1, QuietStep
<1>5. ASSUME NEW t \in Thread, as_copy(t)
      PROVE  Private!PMNext \/ UNCHANGED Private!pmVars
  <2>1. /\ mem' = mem /\ as' = as /\ pc[t] = "user" /\ pc'[t] = "copy"
        /\ \A u \in Thread : u # t => newas'[u] = newas[u] /\ pc'[u] = pc[u]
    BY <1>0, <1>5 DEF as_copy, VarsOK
  <2> QED BY <2>1, <1>m
<1>6. ASSUME NEW t \in Thread, as_copy_region(t)
      PROVE  Private!PMNext \/ UNCHANGED Private!pmVars
  <2>1. mem' = mem /\ as' = as /\ pc[t] = "copy"
    BY <1>6 DEF as_copy_region
  <2>2. /\ pc' = pc \/ pc' = [pc EXCEPT ![t] = "user"]
        /\ \E b : newas' = [newas EXCEPT ![t] = b]
    BY <1>0, <1>6, CopyRegionEffect
  <2>3. /\ pc'[t] \in {"copy", "user"}
        /\ \A u \in Thread : u # t => newas'[u] = newas[u] /\ pc'[u] = pc[u]
    BY <1>0, <2>1, <2>2 DEF VarsOK
  <2> QED BY <2>1, <2>3, <1>m
<1>7. ASSUME NEW t \in Thread, NEW c \in Thread, as_copy_move(t, c)
      PROVE  Private!PMNext \/ UNCHANGED Private!pmVars
  BY <1>7, <1>c, CopyStep
<1>8. ASSUME NEW t \in Thread, md_forkentry(t)
      PROVE  Private!PMNext \/ UNCHANGED Private!pmVars
  <2>1. /\ mem' = mem /\ pc[t] = "forkentry" /\ as'[t] = BadAs
        /\ \A u \in Thread : u # t => as'[u] = as[u] /\ newas'[u] = newas[u] /\ pc'[u] = pc[u]
    BY <1>0, <1>8 DEF md_forkentry, VarsOK
  <2>2. as[t] = NULL
    BY <1>0, <2>1, AtPlace DEF PlaceOK
  <2>3. PhaseAt(pc[t], as[t], newas[t]) # "none"
    BY <2>1, <2>2, NotNull DEF PhaseAt
  <2>4. PhaseAt(pc'[t], as'[t], newas'[t]) = "none"
    BY <2>1 DEF PhaseAt
  <2> QED BY <1>c, <2>1, <2>3, <2>4, QuietStep
<1>14. ASSUME NEW t \in Thread, as_activate(t)
      PROVE  Private!PMNext \/ UNCHANGED Private!pmVars
  <2>1. /\ mem' = mem /\ as' = as /\ newas' = newas /\ pc[t] = "activate" /\ pc'[t] = "user"
        /\ \A u \in Thread : u # t => pc'[u] = pc[u]
    BY <1>0, <1>14 DEF as_activate, VarsOK
  <2> QED BY <2>1, <1>m
<1>9. ASSUME NEW t \in Thread, NEW v \in UserPage, NEW x \in Value, store(t, v, x)
      PROVE  Private!PMNext \/ UNCHANGED Private!pmVars
  BY <1>9, <1>0, <1>c, StoreStep
<1>10. ASSUME NEW t \in Thread, NEW a \in TouchAddr, tlb_miss(t, a)
      PROVE  Private!PMNext \/ UNCHANGED Private!pmVars
  <2>1. /\ mem' = mem /\ as' = as /\ newas' = newas /\ pc[t] = "user" /\ pc'[t] = "fault"
        /\ \A u \in Thread : u # t => pc'[u] = pc[u]
    BY <1>0, <1>10 DEF tlb_miss, VarsOK
  <2> QED BY <2>1, <1>m
<1>11. ASSUME NEW t \in Thread, vm_fault(t)
      PROVE  Private!PMNext \/ UNCHANGED Private!pmVars
  <2>1. mem' = mem /\ as' = as /\ newas' = newas /\ pc[t] = "fault"
    BY <1>11 DEF vm_fault
  <2>2. pc' = pc \/ pc' = [pc EXCEPT ![t] = "exit"] \/ pc' = [pc EXCEPT ![t] = "user"]
    BY <1>0, <1>11, FaultEffect
  <2>3. pc'[t] \in {"fault", "exit", "user"} /\ \A u \in Thread : u # t => pc'[u] = pc[u]
    BY <1>0, <2>1, <2>2 DEF VarsOK
  <2> QED BY <2>1, <2>3, <1>m
<1>12. ASSUME NEW t \in Thread, NEW c \in Thread, thread_exit(t, c)
      PROVE  Private!PMNext \/ UNCHANGED Private!pmVars
  <2>1. /\ mem' = mem /\ newas' = newas /\ pc[t] \in {"user", "exit"} /\ as[t] # BadAs
        /\ pc'[t] = "kernel"
        /\ \A u \in Thread : u # t => as'[u] = as[u] /\ pc'[u] = pc[u]
    BY <1>0, <1>12 DEF thread_exit, Running, VarsOK
  <2>2. PhaseAt(pc[t], as[t], newas[t]) # "none"
    BY <2>1 DEF PhaseAt
  <2>3. PhaseAt(pc'[t], as'[t], newas'[t]) = "none"
    BY <2>1 DEF PhaseAt
  <2> QED BY <1>c, <2>1, <2>2, <2>3, QuietStep
<1>13. ASSUME NEW t \in Thread, mi_switch(t)
      PROVE  Private!PMNext \/ UNCHANGED Private!pmVars
  BY <1>13, <1>s DEF mi_switch
<1> QED BY <1>1, <1>2, <1>3, <1>4, <1>5, <1>6, <1>7, <1>8, <1>9, <1>10, <1>11, <1>12, <1>13, <1>14 DEF Next

\* addrspace.h: dumbvm.c keeps the promise for any number of threads and
\* programs and any memory.  Until a request wraps around the word, a process's
\* memory is changed by its own stores only, whoever is preempted, killed or
\* runs out of memory, and a fork starts with an exact copy of the parent's.
THEOREM MemoryStaysPrivate == Spec => MemoryIsPrivate
<1>1. Init => Private!PMInit
  <2> SUFFICES ASSUME Init PROVE Private!PMInit
    OBVIOUS
  <2>1. \A t \in Thread : Phase(t) = "none"
    BY DEF Init, Phase
  <2> QED BY <2>1 DEF Init, Private!PMInit
<1>2. VMInv /\ [Next]_vars => [Private!PMNext]_(Private!pmVars)
  <2> SUFFICES ASSUME VMInv, [Next]_vars PROVE [Private!PMNext]_(Private!pmVars)
    OBVIOUS
  <2>1. CASE Next
    BY <2>1, PrivateStep
  <2>2. CASE UNCHANGED vars
    <3>1. \A t \in Thread : Phase(t)' = Phase(t) /\ Seen(t)' = Seen(t)
      BY <2>2 DEF vars, Phase, Seen, SpaceOf
    <3>2. wrapped' = wrapped
      BY <2>2 DEF vars
    <3> QED BY <3>1, <3>2 DEF Private!pmVars
  <2> QED BY <2>1, <2>2
<1> QED BY <1>1, <1>2, VMInvariant, PTL DEF Spec, MemoryIsPrivate, Private!PMSpec
=============================================================================
