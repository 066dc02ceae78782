--------------------------- MODULE MancalaProofs ----------------------------
(***************************************************************************)
(* Proofs about Mancala, for any number of pits and stones, with and       *)
(* without the two rules, and for every depth of the search.               *)
(***************************************************************************)
EXTENDS Mancala, NaturalsInduction, WellFoundedInduction, FiniteSetTheorems, TLAPS

-----------------------------------------------------------------------------
(* Induction and recursion over an interval. *)

\* Every non-empty set of natural numbers has a least one.
LEMMA LeastNat ==
  ASSUME NEW T \in SUBSET Nat, T # {}
  PROVE  \E n \in T : \A m \in T : n <= m
<1> DEFINE R == OpToRel(<, Nat)
<1>1. IsWellFoundedOn(R, Nat)
  BY NatLessThanWellFounded
<1>2. \A x, y \in Nat : x < y => <<x, y>> \in R
  BY DEF OpToRel
<1> HIDE DEF R
<1>3. PICK n \in T : \A m \in T : ~(<<m, n>> \in R)
  BY <1>1, WFMin
<1>4. \A m \in T : ~(m < n)
  BY <1>2, <1>3
<1>5. \A m \in T : n <= m
  BY <1>4
<1>. QED BY <1>5

\* Induction up to n, for a set instead of a predicate.
LEMMA UpTo ==
  ASSUME NEW n \in Nat, NEW T, 0 \in T, \A i \in 0 .. n - 1 : i \in T => i + 1 \in T
  PROVE  \A i \in 0 .. n : i \in T
<1> DEFINE B == {i \in 0 .. n : i \notin T}
<1> SUFFICES ASSUME B # {} PROVE FALSE
  OBVIOUS
<1>1. B \in SUBSET Nat
  OBVIOUS
<1>2. PICK i \in B : \A m \in B : i <= m
  BY <1>1, LeastNat
<1>3. i - 1 \in 0 .. n - 1 /\ i - 1 \in T
  BY <1>2
<1>. QED BY <1>2, <1>3

\* f is the function that goes from base by the steps of G.
Goes(f, n, base, G) == f[0] = base /\ \A i \in 1 .. n : f[i] = G[i][f[i - 1]]

\* There is such a function, and its values are what the steps preserve.
LEMMA Recursion ==
  ASSUME NEW n \in Nat, NEW V, NEW base \in V, NEW G \in [1 .. n -> [V -> V]]
  PROVE  \E f \in [0 .. n -> V] : Goes(f, n, base, G)
<1> DEFINE T == {k \in 0 .. n : \E f \in [0 .. k -> V] : Goes(f, k, base, G)}
<1>1. 0 \in T
  <2> DEFINE g == [i \in 0 .. 0 |-> base]
  <2>1. Goes(g, 0, base, G)
    BY DEF Goes
  <2>2. g \in [0 .. 0 -> V]
    OBVIOUS
  <2> QED BY <2>1, <2>2
<1>2. ASSUME NEW k \in 0 .. n - 1, k \in T PROVE k + 1 \in T
  <2>1. PICK f \in [0 .. k -> V] : Goes(f, k, base, G)
    BY <1>2
  <2> DEFINE g == [i \in 0 .. k + 1 |-> IF i <= k THEN f[i] ELSE G[i][f[i - 1]]]
  <2>2. \A i \in 0 .. k : g[i] = f[i]
    OBVIOUS
  <2>3. f[0] = base /\ \A i \in 1 .. k : f[i] = G[i][f[i - 1]]
    BY <2>1 DEF Goes
  <2>4. g[k + 1] = G[k + 1][f[k]] /\ f[k] \in V /\ G[k + 1] \in [V -> V]
    OBVIOUS
  <2>5. g \in [0 .. k + 1 -> V]
    BY <2>4
  <2> HIDE DEF g
  <2>7. ASSUME NEW i \in 1 .. k + 1 PROVE g[i] = G[i][g[i - 1]]
    <3>1. CASE i = k + 1
      BY <2>2, <2>4, <3>1
    <3>2. CASE i \in 1 .. k
      <4>1. g[i] = f[i] /\ g[i - 1] = f[i - 1]
        BY <2>2, <3>2
      <4> QED BY <2>3, <3>2, <4>1
    <3> QED BY <3>1, <3>2
  <2>8. Goes(g, k + 1, base, G)
    BY <2>2, <2>3, <2>7 DEF Goes
  <2> QED BY <2>5, <2>8
<1>3. \A i \in 0 .. n : i \in T
  <2> HIDE DEF T
  <2> QED BY <1>1, <1>2, UpTo
<1> QED BY <1>3

-----------------------------------------------------------------------------
(* Sums. *)

Sums(f, n, sum) == sum = [i \in 0 .. n |-> IF i = 0 THEN 0 ELSE sum[i - 1] + f[i - 1]]

\* SumTo(f, n) is the last of the sums of f.
LEMMA SumIs ==
  ASSUME NEW n \in Nat, NEW f \in [0 .. n - 1 -> Int]
  PROVE  \E sum \in [0 .. n -> Int] : Sums(f, n, sum) /\ SumTo(f, n) = sum[n]
<1> DEFINE sum == CHOOSE g : g = [i \in 0 .. n |-> IF i = 0 THEN 0 ELSE g[i - 1] + f[i - 1]]
           G == [i \in 1 .. n |-> [v \in Int |-> v + f[i - 1]]]
<1>1. SumTo(f, n) = sum[n]
  BY DEF SumTo
<1>2. sum = CHOOSE g : Sums(f, n, g)
  BY DEF Sums
<1> HIDE DEF sum
<1>3. G \in [1 .. n -> [Int -> Int]]
  OBVIOUS
<1>4. \A i \in 1 .. n : \A v \in Int : G[i][v] = v + f[i - 1]
  OBVIOUS
<1> HIDE DEF G
<1>5. PICK g \in [0 .. n -> Int] : Goes(g, n, 0, G)
  <2>1. 0 \in Int
    OBVIOUS
  <2> QED BY <1>3, <2>1, Recursion
<1>6. g = [i \in 0 .. n |-> IF i = 0 THEN 0 ELSE g[i - 1] + f[i - 1]]
  <2>1. g[0] = 0 /\ \A i \in 1 .. n : g[i] = g[i - 1] + f[i - 1]
    <3>1. ASSUME NEW i \in 1 .. n PROVE g[i] = g[i - 1] + f[i - 1]
      <4>1. g[i - 1] \in Int
        OBVIOUS
      <4>2. g[i] = G[i][g[i - 1]]
        BY <1>5 DEF Goes
      <4> QED BY <1>4, <4>1, <4>2
    <3> QED BY <1>5, <3>1 DEF Goes
  <2> QED BY <2>1
<1>7. Sums(f, n, g)
  BY <1>6 DEF Sums
<1>8. Sums(f, n, sum)
  BY <1>2, <1>7
<1>9. \A i \in 0 .. n : sum[i] \in Int
  <2> DEFINE T == {i \in 0 .. n : sum[i] \in Int}
  <2>1. \A i \in 0 .. n : sum[i] = IF i = 0 THEN 0 ELSE sum[i - 1] + f[i - 1]
    BY <1>8 DEF Sums
  <2>2. 0 \in T /\ \A i \in 0 .. n - 1 : i \in T => i + 1 \in T
    BY <2>1
  <2> HIDE DEF T
  <2>3. \A i \in 0 .. n : i \in T
    BY <2>2, UpTo
  <2> QED BY <2>3 DEF T
<1>10. sum \in [0 .. n -> Int]
  BY <1>8, <1>9 DEF Sums
<1> QED BY <1>1, <1>8, <1>10

\* A sum, step by step.
LEMMA SumSteps ==
  ASSUME NEW n \in Nat, NEW f \in [0 .. n - 1 -> Int]
  PROVE  \E sum \in [0 .. n -> Int] :
           /\ sum[0] = 0 /\ \A i \in 0 .. n - 1 : sum[i + 1] = sum[i] + f[i]
           /\ SumTo(f, n) = sum[n] /\ SumTo(f, n) \in Int
<1>1. PICK sum \in [0 .. n -> Int] : Sums(f, n, sum) /\ SumTo(f, n) = sum[n]
  BY SumIs
<1>2. \A i \in 0 .. n : sum[i] = IF i = 0 THEN 0 ELSE sum[i - 1] + f[i - 1]
  BY <1>1 DEF Sums
<1>3. sum[0] = 0 /\ \A i \in 0 .. n - 1 : sum[i + 1] = sum[i] + f[i]
  BY <1>2
<1>4. SumTo(f, n) \in Int
  <2>1. sum[n] \in Int
    OBVIOUS
  <2> QED BY <1>1, <2>1
<1> QED BY <1>1, <1>3, <1>4

\* Changing one summand changes the sum by as much.
LEMMA SumUpdate ==
  ASSUME NEW n \in Nat, NEW f \in [0 .. n - 1 -> Int], NEW g \in [0 .. n - 1 -> Int],
         NEW x \in 0 .. n - 1, \A i \in 0 .. n - 1 : i # x => g[i] = f[i]
  PROVE  SumTo(g, n) = SumTo(f, n) - f[x] + g[x]
<1>1. PICK a \in [0 .. n -> Int] :
        /\ a[0] = 0 /\ \A i \in 0 .. n - 1 : a[i + 1] = a[i] + f[i]
        /\ SumTo(f, n) = a[n]
  BY SumSteps
<1>2. PICK b \in [0 .. n -> Int] :
        /\ b[0] = 0 /\ \A i \in 0 .. n - 1 : b[i + 1] = b[i] + g[i]
        /\ SumTo(g, n) = b[n]
  BY SumSteps
<1> DEFINE T == {i \in 0 .. n : b[i] = IF i <= x THEN a[i] ELSE a[i] - f[x] + g[x]}
<1>3. 0 \in T
  BY <1>1, <1>2
<1>4. ASSUME NEW i \in 0 .. n - 1, i \in T PROVE i + 1 \in T
  <2>1. b[i + 1] = b[i] + g[i] /\ a[i + 1] = a[i] + f[i]
    BY <1>1, <1>2
  <2>2. i # x => g[i] = f[i]
    OBVIOUS
  <2>3. b[i] = IF i <= x THEN a[i] ELSE a[i] - f[x] + g[x]
    BY <1>4
  <2>4. a[i] \in Int /\ b[i] \in Int /\ f[i] \in Int /\ g[i] \in Int /\ f[x] \in Int /\ g[x] \in Int
    OBVIOUS
  <2>5. b[i + 1] = IF i + 1 <= x THEN a[i + 1] ELSE a[i + 1] - f[x] + g[x]
    <3>1. CASE i < x
      BY <2>1, <2>2, <2>3, <2>4, <3>1
    <3>2. CASE i = x
      BY <2>1, <2>3, <2>4, <3>2
    <3>3. CASE i > x
      <4>1. b[i + 1] = (a[i] - f[x] + g[x]) + f[i] /\ ~(i + 1 <= x)
        BY <2>1, <2>2, <2>3, <3>3
      <4>2. (a[i] - f[x] + g[x]) + f[i] = (a[i] + f[i]) - f[x] + g[x]
        BY <2>4, SMTT(30)
      <4> QED BY <2>1, <4>1, <4>2
    <3> QED BY <3>1, <3>2, <3>3
  <2> QED BY <2>5
<1>5. n \in T
  <2> HIDE DEF T
  <2>1. \A i \in 0 .. n : i \in T
    BY <1>3, <1>4, UpTo
  <2> QED BY <2>1
<1>6. b[n] = a[n] - f[x] + g[x]
  BY <1>5
<1> QED BY <1>1, <1>2, <1>6

\* A sum of numbers that are not negative is at least each of them, and at most
\* as many times their bound.
LEMMA SumBounds ==
  ASSUME NEW n \in Nat, NEW f \in [0 .. n - 1 -> Int], \A i \in 0 .. n - 1 : f[i] >= 0
  PROVE  /\ SumTo(f, n) \in Nat
         /\ \A x \in 0 .. n - 1 : f[x] <= SumTo(f, n)
         /\ \A c \in Nat : (\A i \in 0 .. n - 1 : f[i] <= c) => SumTo(f, n) <= n * c
<1>1. PICK a \in [0 .. n -> Int] :
        /\ a[0] = 0 /\ \A i \in 0 .. n - 1 : a[i + 1] = a[i] + f[i]
        /\ SumTo(f, n) = a[n]
  BY SumSteps
<1> DEFINE T == {i \in 0 .. n : a[i] >= 0 /\ \A x \in 0 .. i - 1 : f[x] <= a[i]}
<1>2. 0 \in T
  BY <1>1
<1>3. ASSUME NEW i \in 0 .. n - 1, i \in T PROVE i + 1 \in T
  <2>1. a[i + 1] = a[i] + f[i] /\ f[i] >= 0 /\ a[i] >= 0 /\ f[i] \in Int /\ a[i] \in Int
    BY <1>1, <1>3
  <2>2. ASSUME NEW x \in 0 .. i PROVE f[x] <= a[i + 1]
    <3>1. CASE x = i
      BY <2>1, <3>1
    <3>2. CASE x \in 0 .. i - 1
      <4>1. f[x] <= a[i] /\ f[x] \in Int
        BY <1>3, <3>2
      <4> QED BY <2>1, <4>1
    <3> QED BY <3>1, <3>2
  <2>3. a[i + 1] >= 0
    BY <2>1
  <2>4. \A x \in 0 .. (i + 1) - 1 : f[x] <= a[i + 1]
    BY <2>2
  <2> QED BY <2>3, <2>4
<1>4. n \in T
  <2> HIDE DEF T
  <2>1. \A i \in 0 .. n : i \in T
    BY <1>2, <1>3, UpTo
  <2> QED BY <2>1
<1>5. ASSUME NEW c \in Nat, \A i \in 0 .. n - 1 : f[i] <= c PROVE a[n] <= n * c
  <2> DEFINE B == {i \in 0 .. n : a[i] <= i * c}
  <2>1. 0 \in B
    BY <1>1
  <2>2. ASSUME NEW i \in 0 .. n - 1, i \in B PROVE i + 1 \in B
    <3>1. a[i + 1] = a[i] + f[i] /\ f[i] <= c /\ f[i] \in Int /\ a[i] \in Int /\ a[i] <= i * c
      BY <1>1, <1>5, <2>2
    <3>2. (i + 1) * c = i * c + c /\ i * c \in Int
      OBVIOUS
    <3>3. a[i + 1] <= (i + 1) * c
      BY <3>1, <3>2
    <3> QED BY <3>3
  <2>3. n \in B
    <3> HIDE DEF B
    <3>1. \A i \in 0 .. n : i \in B
      BY <2>1, <2>2, UpTo
    <3> QED BY <3>1
  <2> QED BY <2>3
<1>6. a[n] \in Nat /\ \A x \in 0 .. n - 1 : f[x] <= a[n]
  BY <1>4
<1> QED BY <1>1, <1>5, <1>6

-----------------------------------------------------------------------------
(* The board. *)

Board == [Pit -> Nat]
Total == 2 * NumPits * InitialStones
Size == 2 * NumPits + 2

\* The rules' constants.
LEMMA Rules ==
  /\ NumPits \in Nat /\ NumPits >= 1 /\ InitialStones \in Nat /\ Total \in Nat
  /\ MinWins \in Int /\ MaxWins \in Int /\ MaxDepths \subseteq Nat
  /\ GoAgainRule \in BOOLEAN /\ BigWinRule \in BOOLEAN
  /\ Size \in Nat /\ Pit = 0 .. Size - 1
<1>1. /\ NumPits \in Nat /\ NumPits >= 1 /\ InitialStones \in Nat
      /\ MinWins \in Int /\ MaxWins \in Int /\ MaxDepths \subseteq Nat
      /\ GoAgainRule \in BOOLEAN /\ BigWinRule \in BOOLEAN
  BY RulesAssumption
<1>2. Total \in Nat
  BY <1>1 DEF Total
<1>3. Size \in Nat /\ Pit = 0 .. Size - 1
  BY <1>1 DEF Size, Pit
<1> QED BY <1>1, <1>2, <1>3

\* Where the pits of the two players are.
LEMMA Sides ==
  /\ mancala_pit(0) = NumPits /\ mancala_pit(1) = 2 * NumPits + 1
  /\ left_pit(0) = 0 /\ left_pit(1) = NumPits + 1
  /\ other_player(0) = 1 /\ other_player(1) = 0
  /\ \A p \in Player : /\ p = 0 \/ p = 1
                       /\ mancala_pit(p) \in Pit /\ other_player(p) \in Player
                       /\ left_pit(p) + NumPits = mancala_pit(p)
BY Rules DEF mancala_pit, left_pit, other_player, Player, Pit

\* player-owner of a pit is the player on whose side it is.
LEMMA Owner ==
  ASSUME NEW x \in Pit
  PROVE  player_owner(x) = IF x <= NumPits THEN 0 ELSE 1
<1>1. NumPits \in Nat /\ NumPits >= 1 /\ x \in 0 .. 2 * NumPits + 1
  BY Rules DEF Pit
<1>2. PICK d : d = NumPits + 1 /\ d \in Nat /\ d >= 2
  BY <1>1
<1>3. PICK q : q = x \div d
  OBVIOUS
<1>4. q \in Int /\ d * q <= x /\ x < d * q + d
  BY <1>1, <1>2, <1>3
<1>5. CASE x <= NumPits
  <2>1. x < d
    BY <1>1, <1>2, <1>5
  <2>2. q = 0
    BY <1>1, <1>2, <1>4, <2>1
  <2> QED BY <1>2, <1>3, <1>5, <2>2 DEF player_owner
<1>6. CASE x > NumPits
  <2>1. d <= x /\ x < d + d
    BY <1>1, <1>2, <1>6
  <2>2. q = 1
    BY <1>1, <1>2, <1>4, <2>1
  <2> QED BY <1>1, <1>2, <1>3, <1>6, <2>2 DEF player_owner
<1> QED BY <1>1, <1>5, <1>6

\* Sowing never comes to the other player's mancala, and goes straight to the
\* player's own.
LEMMA NextPits ==
  ASSUME NEW p \in Player, NEW pos \in Pit, pos # mancala_pit(other_player(p))
  PROVE  /\ NextPit(pos, p) \in Pit
         /\ NextPit(pos, p) # mancala_pit(other_player(p))
         /\ left_pit(p) <= pos /\ pos < mancala_pit(p) => NextPit(pos, p) = pos + 1
<1>1. CASE p = 0
  BY <1>1, Rules, Sides DEF NextPit, Pit
<1>2. CASE p = 1
  BY <1>2, Rules, Sides DEF NextPit, Pit
<1> QED BY <1>1, <1>2 DEF Player

\* One turn of the loop that sows.
Sown(v, p) == LET q == NextPit(v.pos, p) IN [board |-> [v.board EXCEPT ![q] = @ + 1], pos |-> q]
Sowing(p) == {v \in [board : Board, pos : Pit] : v.pos # mancala_pit(other_player(p))}
Taken(b, from) == [board |-> [b EXCEPT ![from] = 0], pos |-> from]

Sows(f, s, from) ==
  f = [i \in 0 .. s.board[from] |->
         IF i = 0 THEN [board |-> [s.board EXCEPT ![from] = 0], pos |-> from]
         ELSE LET before == f[i - 1]
                  q == NextPit(before.pos, s.turn)
              IN  [board |-> [before.board EXCEPT ![q] = @ + 1], pos |-> q]]

\* A turn of the loop that sows stays on a board.
LEMMA SownIn ==
  ASSUME NEW p \in Player, NEW v \in Sowing(p)
  PROVE  Sown(v, p) \in Sowing(p)
<1>1. v.pos \in Pit /\ v.pos # mancala_pit(other_player(p)) /\ v.board \in Board
  BY DEF Sowing
<1>2. PICK q : q = NextPit(v.pos, p)
  OBVIOUS
<1>3. q \in Pit /\ q # mancala_pit(other_player(p))
  BY <1>1, <1>2, NextPits
<1>4. [v.board EXCEPT ![q] = @ + 1] \in Board
  BY <1>1, <1>3 DEF Board
<1> QED BY <1>2, <1>3, <1>4 DEF Sown, Sowing

\* Sow is the end of the loop, turn by turn.
LEMMA SowSteps ==
  ASSUME NEW s \in State, NEW from \in Pit, from # mancala_pit(other_player(s.turn))
  PROVE  \E f \in [0 .. s.board[from] -> Sowing(s.turn)] :
           /\ f[0] = Taken(s.board, from)
           /\ \A i \in 0 .. s.board[from] - 1 : f[i + 1] = Sown(f[i], s.turn)
           /\ Sow(s, from) = f[s.board[from]]
<1>1. PICK n \in Nat : n = s.board[from]
  BY DEF State
<1>2. PICK p \in Player : p = s.turn
  BY DEF State
<1> DEFINE after == CHOOSE f : f = [i \in 0 .. s.board[from] |->
                      IF i = 0 THEN [board |-> [s.board EXCEPT ![from] = 0], pos |-> from]
                      ELSE LET before == f[i - 1]
                               q == NextPit(before.pos, s.turn)
                           IN  [board |-> [before.board EXCEPT ![q] = @ + 1], pos |-> q]]
           V == Sowing(p)
           G == [i \in 1 .. n |-> [v \in V |-> Sown(v, p)]]
<1>3. Sow(s, from) = after[s.board[from]]
  BY DEF Sow
<1>4. after = CHOOSE f : Sows(f, s, from)
  BY DEF Sows
<1> HIDE DEF after
<1>5. Taken(s.board, from) \in V
  BY <1>2 DEF Taken, Sowing, State, Board
<1>6. G \in [1 .. n -> [V -> V]] /\ \A i \in 1 .. n : \A v \in V : G[i][v] = Sown(v, p)
  BY SownIn
<1> HIDE DEF G, V
<1>7. PICK g \in [0 .. n -> V] : Goes(g, n, Taken(s.board, from), G)
  BY <1>5, <1>6, Recursion
<1>8. \A i \in 1 .. n : g[i] = Sown(g[i - 1], p)
  <2> TAKE i \in 1 .. n
  <2>1. g[i - 1] \in V
    OBVIOUS
  <2>2. g[i] = G[i][g[i - 1]]
    BY <1>7 DEF Goes
  <2> QED BY <1>6, <2>1, <2>2
<1>9. Sows(g, s, from)
  <2>1. g[0] = Taken(s.board, from)
    BY <1>7 DEF Goes
  <2>2. g = [i \in 0 .. n |-> IF i = 0 THEN Taken(s.board, from) ELSE Sown(g[i - 1], p)]
    BY <1>8, <2>1
  <2> QED BY <1>1, <1>2, <2>2 DEF Sows, Taken, Sown
<1>10. Sows(after, s, from)
  BY <1>4, <1>9
<1>11. after = [i \in 0 .. n |-> IF i = 0 THEN Taken(s.board, from) ELSE Sown(after[i - 1], p)]
  BY <1>1, <1>2, <1>10 DEF Sows, Taken, Sown
<1>12. after[0] = Taken(s.board, from) /\ \A i \in 0 .. n - 1 : after[i + 1] = Sown(after[i], p)
  <2>1. \A i \in 0 .. n : after[i] = IF i = 0 THEN Taken(s.board, from) ELSE Sown(after[i - 1], p)
    BY <1>11
  <2>2. after[0] = Taken(s.board, from)
    BY <2>1
  <2>3. ASSUME NEW i \in 0 .. n - 1 PROVE after[i + 1] = Sown(after[i], p)
    <3>1. i + 1 \in 0 .. n /\ i + 1 # 0 /\ (i + 1) - 1 = i
      OBVIOUS
    <3> QED BY <2>1, <3>1
  <2> QED BY <2>2, <2>3
<1>13. \A i \in 0 .. n : after[i] \in V
  <2> DEFINE T == {i \in 0 .. n : after[i] \in V}
  <2>1. 0 \in T
    BY <1>5, <1>12
  <2>2. ASSUME NEW i \in 0 .. n - 1, i \in T PROVE i + 1 \in T
    <3>1. after[i] \in V
      BY <2>2
    <3>2. Sown(after[i], p) \in V
      BY <3>1, SownIn DEF V
    <3> QED BY <1>12, <3>2
  <2> HIDE DEF T
  <2>3. \A i \in 0 .. n : i \in T
    BY <2>1, <2>2, UpTo
  <2> QED BY <2>3 DEF T
<1>14. after \in [0 .. n -> V]
  BY <1>11, <1>13
<1> QED BY <1>1, <1>2, <1>3, <1>12, <1>14 DEF V

-----------------------------------------------------------------------------
(* Stones and their distance. *)

Count(b) == SumTo(b, Size)
Weighted(b, all) == [x \in Pit |-> b[x] * Worth(x, all)]
Dist(b, all) == SumTo(Weighted(b, all), Size)

\* A stone in a pit has at most a round before it.
LEMMA Worths ==
  ASSUME NEW all \in Nat, NEW x \in Pit
  PROVE  /\ Worth(x, all) \in Nat /\ Worth(x, all) <= NumPits * all + 1 + NumPits
         /\ \A p \in Player : x = mancala_pit(p) => Worth(x, all) = 0
         /\ \A p \in Player : left_pit(p) <= x /\ x < mancala_pit(p) =>
              /\ Worth(x, all) = NumPits * all + 1 + mancala_pit(p) - x
              /\ Worth(x, all) >= NumPits * all + 2
<1>1. PICK k \in Nat : k = NumPits * all
  BY Rules
<1>2. x \in 0 .. 2 * NumPits + 1 /\ NumPits \in Nat /\ NumPits >= 1
  BY Rules DEF Pit
<1>3. x \in {mancala_pit(0), mancala_pit(1)} <=> x = NumPits \/ x = 2 * NumPits + 1
  BY Sides
<1>4. mancala_pit(player_owner(x)) = IF x <= NumPits THEN NumPits ELSE 2 * NumPits + 1
  BY Owner, Sides, <1>2
<1>5. Worth(x, all) = IF x = NumPits \/ x = 2 * NumPits + 1 THEN 0
                      ELSE k + 1 + (IF x <= NumPits THEN NumPits ELSE 2 * NumPits + 1) - x
  BY <1>1, <1>3, <1>4 DEF Worth
<1>6. Worth(x, all) \in Nat /\ Worth(x, all) <= k + 1 + NumPits
  BY <1>1, <1>2, <1>5
<1>7. \A p \in Player : x = mancala_pit(p) => Worth(x, all) = 0
  BY <1>2, <1>5, Sides
<1>8. ASSUME NEW p \in Player, left_pit(p) <= x, x < mancala_pit(p)
      PROVE  Worth(x, all) = k + 1 + mancala_pit(p) - x /\ Worth(x, all) >= k + 2
  <2>1. CASE p = 0
    BY <1>1, <1>2, <1>5, <1>8, <2>1, Sides
  <2>2. CASE p = 1
    BY <1>1, <1>2, <1>5, <1>8, <2>2, Sides
  <2> QED BY <2>1, <2>2, Sides
<1> QED BY <1>1, <1>6, <1>7, <1>8

\* The stones of a board, none of whose pits has more than all of them.
LEMMA CountNat ==
  ASSUME NEW b \in Board
  PROVE  Count(b) \in Nat /\ \A x \in Pit : b[x] <= Count(b)
<1>1. Size \in Nat /\ Pit = 0 .. Size - 1
  BY Rules
<1>2. b \in [0 .. Size - 1 -> Int] /\ \A i \in 0 .. Size - 1 : b[i] >= 0
  BY <1>1 DEF Board
<1> QED BY <1>1, <1>2, SumBounds DEF Count

\* What the stones of each pit are worth together.
LEMMA WeightedInt ==
  ASSUME NEW b \in Board, NEW all \in Nat
  PROVE  /\ Weighted(b, all) \in [Pit -> Int] /\ Dist(b, all) \in Int
         /\ \A x \in Pit : Weighted(b, all)[x] = b[x] * Worth(x, all)
<1>1. \A x \in Pit : b[x] * Worth(x, all) \in Int
  BY Worths DEF Board
<1>2. Weighted(b, all) \in [Pit -> Int] /\ \A x \in Pit : Weighted(b, all)[x] = b[x] * Worth(x, all)
  BY <1>1 DEF Weighted
<1>3. Size \in Nat /\ Weighted(b, all) \in [0 .. Size - 1 -> Int]
  BY <1>2, Rules
<1>4. SumTo(Weighted(b, all), Size) \in Int
  BY <1>3, SumSteps
<1> QED BY <1>2, <1>4 DEF Dist

\* Putting v stones into pit x.
IsPut(c, b, x, v) == c = [b EXCEPT ![x] = v]

\* It changes the count by the stones, and the distance by what they are worth.
LEMMA Put ==
  ASSUME NEW b \in Board, NEW x \in Pit, NEW v \in Nat, NEW all \in Nat,
         NEW c, IsPut(c, b, x, v)
  PROVE  /\ c \in Board /\ Count(c) = Count(b) - b[x] + v
         /\ Dist(c, all) = Dist(b, all) - b[x] * Worth(x, all) + v * Worth(x, all)
<1>1. c \in Board /\ c[x] = v /\ \A i \in Pit : i # x => c[i] = b[i]
  BY DEF Board, IsPut
<1>2. Size \in Nat /\ Pit = 0 .. Size - 1
  BY Rules
<1>3. Count(c) = Count(b) - b[x] + v
  <2>1. b \in [0 .. Size - 1 -> Int] /\ c \in [0 .. Size - 1 -> Int]
    BY <1>1, <1>2 DEF Board
  <2> QED BY <1>1, <1>2, <2>1, SumUpdate DEF Count
<1>4. PICK f, g : f = Weighted(b, all) /\ g = Weighted(c, all)
  OBVIOUS
<1>5. /\ f \in [0 .. Size - 1 -> Int] /\ g \in [0 .. Size - 1 -> Int]
      /\ \A i \in Pit : f[i] = b[i] * Worth(i, all)
      /\ \A i \in Pit : g[i] = c[i] * Worth(i, all)
  BY <1>1, <1>2, <1>4, WeightedInt
<1>6. f[x] = b[x] * Worth(x, all) /\ g[x] = v * Worth(x, all)
  BY <1>1, <1>5
<1>7. \A i \in 0 .. Size - 1 : i # x => g[i] = f[i]
  BY <1>1, <1>2, <1>5
<1>8. SumTo(g, Size) = SumTo(f, Size) - f[x] + g[x]
  BY <1>2, <1>5, <1>7, SumUpdate
<1> QED BY <1>1, <1>3, <1>4, <1>6, <1>8 DEF Dist

\* One stone more in pit x.
LEMMA AddOne ==
  ASSUME NEW b \in Board, NEW x \in Pit, NEW all \in Nat, NEW c, c = [b EXCEPT ![x] = @ + 1]
  PROVE  /\ c \in Board /\ Count(c) = Count(b) + 1
         /\ Dist(c, all) = Dist(b, all) + Worth(x, all)
<1>1. PICK v \in Nat : v = b[x]
  BY DEF Board
<1>2. PICK u \in Nat : u = v + 1
  BY <1>1
<1>10. IsPut(c, b, x, u)
  BY <1>1, <1>2 DEF IsPut
<1>3. /\ c \in Board /\ Count(c) = Count(b) - b[x] + u
      /\ Dist(c, all) = Dist(b, all) - b[x] * Worth(x, all) + u * Worth(x, all)
  BY <1>2, <1>10, Put
<1>4. Dist(c, all) = Dist(b, all) - v * Worth(x, all) + (v + 1) * Worth(x, all)
  BY <1>1, <1>2, <1>3
<1>5. PICK w \in Nat : w = Worth(x, all)
  BY Worths
<1>6. (v + 1) * w = v * w + w /\ v * w \in Int
  OBVIOUS
<1>7. Dist(b, all) \in Int /\ Count(b) \in Int
  BY WeightedInt, CountNat
<1>8. Dist(c, all) = Dist(b, all) + w
  BY <1>4, <1>5, <1>6, <1>7
<1>9. Count(c) = Count(b) + 1
  BY <1>1, <1>2, <1>3, <1>7
<1> QED BY <1>3, <1>5, <1>8, <1>9

\* The state of the loop that sows after i of n stones, with v its variables: a
\* stone costs W where it lay; those in hand are counted there.  As long as the
\* player's own mancala is not reached every stone has come nearer; the one that
\* falls into it pays for all the others.
SowInv(i, v, from, own, n, W, D0, all) ==
  /\ Count(v.board) = all - n + i
  /\ \/ /\ v.pos = from + i /\ from + i < own
        /\ Dist(v.board, all) + (n - i) * W + i <= D0
     \/ /\ i >= 1
        /\ Dist(v.board, all) + (n - i) * W + W <= D0 + (i - 1) * (NumPits - 1)

\* A turn of the loop that sows keeps its invariant.
LEMMA SowInvStep ==
  ASSUME NEW p \in Player, NEW all \in Nat, NEW n \in Nat, NEW i \in 0 .. n - 1,
         NEW v \in Sowing(p), NEW u, u = Sown(v, p), NEW D0 \in Int,
         NEW from \in Pit, left_pit(p) <= from, from < mancala_pit(p),
         SowInv(i, v, from, mancala_pit(p), n, Worth(from, all), D0, all)
  PROVE  SowInv(i + 1, u, from, mancala_pit(p), n, Worth(from, all), D0, all)
<1>1. PICK q : q = NextPit(v.pos, p)
  OBVIOUS
<1>2. v.board \in Board /\ v.pos \in Pit /\ v.pos # mancala_pit(other_player(p))
  BY DEF Sowing
<1>3. /\ q \in Pit
      /\ left_pit(p) <= v.pos /\ v.pos < mancala_pit(p) => q = v.pos + 1
  BY <1>1, <1>2, NextPits
<1>4. u.board = [v.board EXCEPT ![q] = @ + 1] /\ u.pos = q
  BY <1>1 DEF Sown
<1>5. /\ u.board \in Board /\ Count(u.board) = Count(v.board) + 1
      /\ Dist(u.board, all) = Dist(v.board, all) + Worth(q, all)
  BY <1>2, <1>3, <1>4, AddOne
<1>6. PICK W \in Nat : W = Worth(from, all)
  BY Worths
<1>7. PICK wq \in Nat : wq = Worth(q, all)
  BY <1>3, Worths
<1>8. PICK k \in Nat : k = NumPits * all
  BY Rules
<1>9. PICK own \in Nat : own = mancala_pit(p)
  BY Sides DEF Pit
<1>10. W >= k + 2 /\ W = k + 1 + own - from
  BY <1>6, <1>8, <1>9, Worths
<1>11. wq <= k + 1 + NumPits
  BY <1>3, <1>7, <1>8, Worths
<1>12. PICK d \in Int, e \in Int : d = Dist(v.board, all) /\ e = Dist(u.board, all) /\ e = d + wq
  BY <1>2, <1>5, <1>7, WeightedInt
<1>13. Count(u.board) = all - n + (i + 1)
  <2>1. Count(v.board) = all - n + i
    BY DEF SowInv
  <2> QED BY <1>5, <2>1
<1>14. (n - (i + 1)) * W = (n - i) * W - W /\ (n - i) * W \in Int /\ (n - (i + 1)) * W \in Int
  OBVIOUS
<1>15. /\ (i + 1 - 1) * (NumPits - 1) = (i - 1) * (NumPits - 1) + (NumPits - 1)
       /\ (i - 1) * (NumPits - 1) \in Int /\ (i + 1 - 1) * (NumPits - 1) >= 0
       /\ NumPits \in Nat /\ NumPits >= 1
  BY Rules
<1>16. PICK h \in Int, g \in Int, y \in Int, z \in Int :
         /\ h = (n - i) * W /\ g = (n - (i + 1)) * W /\ g = h - W
         /\ y = (i - 1) * (NumPits - 1) /\ z = (i + 1 - 1) * (NumPits - 1)
         /\ z = y + (NumPits - 1) /\ z >= 0
  BY <1>14, <1>15
<1>19. from \in Nat
  BY Rules DEF Pit
<1>17. CASE v.pos = from + i /\ from + i < own /\ d + h + i <= D0
  <2>1. left_pit(p) <= v.pos
    BY <1>17, Sides, Rules DEF Pit
  <2>2. q = from + (i + 1)
    <3>1. q = (from + i) + 1
      BY <1>3, <1>9, <1>17, <2>1
    <3> QED BY <1>19, <3>1
  <2>3. CASE from + (i + 1) < own
    <3>1. wq = k + 1 + own - q
      <4>1. left_pit(p) <= q /\ q < mancala_pit(p)
        BY <1>9, <1>17, <2>1, <2>2, <2>3, Sides, Rules DEF Pit
      <4> QED BY <1>3, <1>7, <1>8, <1>9, <4>1, Worths
    <3>2. e + g + (i + 1) <= D0
      <4>1. wq = W - (i + 1)
        BY <1>10, <1>19, <2>2, <3>1
      <4> QED BY <1>12, <1>16, <1>17, <4>1
    <3>3. u.pos = from + (i + 1)
      BY <1>4, <2>2
    <3> QED BY <1>6, <1>9, <1>12, <1>13, <1>16, <2>3, <3>2, <3>3 DEF SowInv
  <2>4. CASE from + (i + 1) >= own
    <3>1. q = mancala_pit(p)
      BY <1>9, <1>17, <2>2, <2>4 DEF Pit
    <3>2. wq = 0
      BY <1>3, <1>7, <3>1, Worths
    <3>3. e + g + W <= D0 + z
      BY <1>12, <1>16, <1>17, <3>2
    <3>4. i + 1 >= 1
      OBVIOUS
    <3> QED BY <1>6, <1>9, <1>12, <1>13, <1>16, <3>3, <3>4 DEF SowInv
  <2> QED BY <1>9, <2>3, <2>4 DEF Pit
<1>18. CASE i >= 1 /\ d + h + W <= D0 + y
  <2>1. wq - W <= NumPits - 1
    BY <1>10, <1>11, <1>15
  <2>2. e + g + W <= D0 + z
    BY <1>12, <1>15, <1>16, <1>18, <2>1
  <2>3. i + 1 >= 1
    OBVIOUS
  <2> QED BY <1>6, <1>9, <1>12, <1>13, <1>16, <2>2, <2>3 DEF SowInv
<1> QED
  <2>1. \/ v.pos = from + i /\ from + i < own /\ d + h + i <= D0
        \/ i >= 1 /\ d + h + W <= D0 + y
    BY <1>6, <1>9, <1>12, <1>16 DEF SowInv
  <2> QED BY <1>17, <1>18, <2>1

\* Sowing loses no stone and brings the stones nearer.
LEMMA SowAdvances ==
  ASSUME NEW s \in State, NEW from \in Pit, left_pit(s.turn) <= from,
         from < mancala_pit(s.turn), s.board[from] # 0
  PROVE  /\ Sow(s, from) \in Sowing(s.turn)
         /\ Count(Sow(s, from).board) = Count(s.board)
         /\ Dist(Sow(s, from).board, Count(s.board)) < Dist(s.board, Count(s.board))
<1>1. PICK p \in Player : p = s.turn
  BY DEF State
<1>2. PICK b \in Board : b = s.board
  BY DEF State, Board
<1>3. PICK all \in Nat : all = Count(b)
  BY CountNat
<1>4. PICK n \in Nat : n = b[from] /\ n >= 1 /\ n <= all
  <2>1. b[from] \in Nat /\ b[from] # 0 /\ b[from] <= all
    BY <1>2, <1>3, CountNat DEF Board
  <2> QED BY <2>1
<1>5. from # mancala_pit(other_player(s.turn))
  <2>1. CASE p = 0
    BY <1>1, <2>1, Sides, Rules DEF Pit
  <2>2. CASE p = 1
    BY <1>1, <2>2, Sides, Rules DEF Pit
  <2> QED BY <2>1, <2>2, Sides
<1>6. PICK f \in [0 .. n -> Sowing(p)] :
        /\ f[0] = Taken(b, from)
        /\ \A i \in 0 .. n - 1 : f[i + 1] = Sown(f[i], p)
        /\ Sow(s, from) = f[n]
  BY <1>1, <1>2, <1>4, <1>5, SowSteps
<1>7. PICK W \in Nat : W = Worth(from, all) /\ W >= NumPits * all + 2
  BY <1>1, Worths
<1>8. PICK D0 \in Int : D0 = Dist(b, all)
  BY WeightedInt
<1>9. PICK own : own = mancala_pit(p)
  OBVIOUS
<1> DEFINE T == {i \in 0 .. n : SowInv(i, f[i], from, own, n, W, D0, all)}
<1>10. 0 \in T
  <2>1. PICK c : c = f[0].board
    OBVIOUS
  <2>2. f[0].pos = from /\ IsPut(c, b, from, 0)
    BY <1>6, <2>1 DEF Taken, IsPut
  <2>3. /\ Count(c) = Count(b) - b[from] + 0
        /\ Dist(c, all) = Dist(b, all) - b[from] * Worth(from, all) + 0 * Worth(from, all)
    <3>1. 0 \in Nat
      OBVIOUS
    <3> QED BY <2>2, <3>1, Put
  <2>4. PICK m \in Int : m = n * W
    OBVIOUS
  <2>5. Count(c) = all - n + 0 /\ Dist(c, all) = D0 - m
    BY <1>3, <1>4, <1>7, <1>8, <2>3, <2>4
  <2>6. (n - 0) * W = m
    BY <2>4
  <2>7. Dist(c, all) + (n - 0) * W + 0 <= D0
    BY <2>5, <2>6
  <2>8. from + 0 = from /\ from < own
    BY <1>1, <1>9 DEF Pit
  <2>9. SowInv(0, f[0], from, own, n, W, D0, all)
    BY <2>1, <2>2, <2>5, <2>7, <2>8 DEF SowInv
  <2> QED BY <2>9
<1>11. ASSUME NEW i \in 0 .. n - 1, i \in T PROVE i + 1 \in T
  <2>1. SowInv(i, f[i], from, mancala_pit(p), n, Worth(from, all), D0, all)
    BY <1>7, <1>9, <1>11
  <2>2. f[i] \in Sowing(p) /\ f[i + 1] = Sown(f[i], p)
    BY <1>6
  <2>3. left_pit(p) <= from /\ from < mancala_pit(p)
    BY <1>1
  <2> HIDE DEF T
  <2>4. SowInv(i + 1, f[i + 1], from, mancala_pit(p), n, Worth(from, all), D0, all)
    BY <2>1, <2>2, <2>3, SowInvStep
  <2> QED BY <1>7, <1>9, <2>4 DEF T
<1>12. SowInv(n, f[n], from, own, n, W, D0, all)
  <2> HIDE DEF T
  <2>1. \A i \in 0 .. n : i \in T
    BY <1>10, <1>11, UpTo
  <2> QED BY <2>1 DEF T
<1>13. f[n] \in Sowing(p)
  OBVIOUS
<1>14. PICK d \in Int : d = Dist(f[n].board, all)
  BY <1>13, WeightedInt DEF Sowing
<1>15. d < D0
  <2>1. (n - n) * W = 0
    OBVIOUS
  <2>2. \/ d + 0 + n <= D0
        \/ d + 0 + W <= D0 + (n - 1) * (NumPits - 1)
    BY <1>12, <1>14, <2>1 DEF SowInv
  <2>3. (n - 1) * (NumPits - 1) <= NumPits * all
    <3>1. NumPits \in Nat /\ NumPits >= 1
      BY Rules
    <3>2. (n - 1) * (NumPits - 1) <= all * (NumPits - 1)
      <4>1. PICK r \in Nat, y \in Nat : r = all - (n - 1) /\ y = NumPits - 1
        BY <1>4, <3>1
      <4>2. (n - 1) + r = all /\ r * y >= 0 /\ r * y \in Int /\ (n - 1) * y \in Int
        BY <4>1
      <4>3. ((n - 1) + r) * y = (n - 1) * y + r * y
        OBVIOUS
      <4> QED BY <4>1, <4>2, <4>3
    <3>3. all * (NumPits - 1) = NumPits * all - all /\ NumPits * all \in Int
      BY <3>1
    <3>4. (n - 1) * (NumPits - 1) \in Int /\ all * (NumPits - 1) \in Int
      BY <3>1
    <3> QED BY <3>2, <3>3, <3>4
  <2>4. (n - 1) * (NumPits - 1) \in Int /\ NumPits * all \in Int
    BY Rules
  <2> QED BY <1>4, <1>7, <2>2, <2>3, <2>4
<1>16. Count(f[n].board) = all
  <2>1. Count(f[n].board) = all - n + n
    BY <1>12 DEF SowInv
  <2> QED BY <2>1
<1> QED BY <1>1, <1>2, <1>3, <1>6, <1>8, <1>13, <1>14, <1>15, <1>16

\* A big win moves stones to a mancala.
LEMMA BigWinKeeps ==
  ASSUME NEW p \in Player, NEW b \in Board, NEW pos \in Pit, NEW all \in Nat
  PROVE  /\ BigWin(b, pos, p) \in Board /\ Count(BigWin(b, pos, p)) = Count(b)
         /\ Dist(BigWin(b, pos, p), all) <= Dist(b, all)
<1>1. Count(b) \in Int /\ Dist(b, all) \in Int
  BY CountNat, WeightedInt
<1>2. CASE BigWin(b, pos, p) = b
  BY <1>1, <1>2
<1>3. CASE player_owner(pos) = p /\ pos # mancala_pit(p) /\ BigWin(b, pos, p) # b
  <2>1. PICK m, o : m = mancala_pit(p) /\ o = pit_opposite(pos)
    OBVIOUS
  <2>2. m \in Pit /\ o \in Pit /\ o # m
    <3>1. p = IF pos <= NumPits THEN 0 ELSE 1
      BY <1>3, Owner
    <3>2. CASE p = 0
      BY <1>3, <2>1, <3>1, <3>2, Sides, Rules DEF Pit, pit_opposite
    <3>3. CASE p = 1
      BY <1>3, <2>1, <3>1, <3>3, Sides, Rules DEF Pit, pit_opposite
    <3> QED BY <3>2, <3>3, Sides
  <2>3. PICK x \in Nat, y \in Nat : x = b[m] /\ y = b[o]
    BY <2>2 DEF Board
  <2>4. PICK z \in Nat : z = x + y
    OBVIOUS
  <2>5. PICK c, d : c = [b EXCEPT ![m] = z] /\ d = [c EXCEPT ![o] = 0]
    OBVIOUS
  <2>6. BigWin(b, pos, p) = d
    BY <1>3, <2>1, <2>3, <2>4, <2>5 DEF BigWin
  <2>7. IsPut(c, b, m, z) /\ IsPut(d, c, o, 0)
    BY <2>5 DEF IsPut
  <2>8. /\ c \in Board /\ Count(c) = Count(b) - b[m] + z
        /\ Dist(c, all) = Dist(b, all) - b[m] * Worth(m, all) + z * Worth(m, all)
    BY <2>2, <2>7, Put
  <2>9. c[o] = y
    BY <2>2, <2>3, <2>5 DEF Board
  <2>10. /\ d \in Board /\ Count(d) = Count(c) - c[o] + 0
         /\ Dist(d, all) = Dist(c, all) - c[o] * Worth(o, all) + 0 * Worth(o, all)
    <3>1. 0 \in Nat
      OBVIOUS
    <3> QED BY <2>2, <2>7, <2>8, <3>1, Put
  <2>11. Worth(m, all) = 0
    BY <2>1, <2>2, Worths
  <2>12. PICK w \in Nat : w = Worth(o, all)
    BY <2>2, Worths
  <2>13. y * w \in Int /\ y * w >= 0
    OBVIOUS
  <2>14. Count(d) = Count(b)
    BY <1>1, <2>3, <2>4, <2>8, <2>9, <2>10
  <2>15. Dist(c, all) = Dist(b, all)
    BY <1>1, <2>3, <2>8, <2>11
  <2>16. Dist(d, all) <= Dist(b, all)
    BY <1>1, <2>9, <2>10, <2>12, <2>13, <2>15
  <2> QED BY <2>6, <2>10, <2>14, <2>16
<1> QED BY <1>2, <1>3 DEF BigWin

\* A state whose pits hold the stones of the game.
Valid == {s \in State : Stones(s) = Total}

\* Stones and Distance of a state are those of its board.
LEMMA StonesCount ==
  ASSUME NEW s \in State
  PROVE  /\ s.board \in Board /\ s.turn \in Player /\ Stones(s) = Count(s.board)
         /\ Distance(s) = Dist(s.board, Stones(s))
BY DEF State, Board, Stones, Count, Size, Distance, Dist, Weighted

\* A move loses no stone and brings the stones nearer to the mancalas.
LEMMA MoveAdvances ==
  ASSUME NEW s \in State, NEW n \in 0 .. NumPits - 1, CanSow(s, n)
  PROVE  /\ state_from_move(s, n) \in State
         /\ Stones(state_from_move(s, n)) = Stones(s)
         /\ Distance(state_from_move(s, n)) < Distance(s)
<1>1. PICK p \in Player : p = s.turn
  BY DEF State
<1>2. PICK from : from = left_pit(p) + n
  OBVIOUS
<1>3. from \in Pit /\ left_pit(p) <= from /\ from < mancala_pit(p)
  <2>1. CASE p = 0
    BY <1>2, <2>1, Sides, Rules DEF Pit
  <2>2. CASE p = 1
    BY <1>2, <2>2, Sides, Rules DEF Pit
  <2> QED BY <2>1, <2>2, Sides
<1>4. s.board[from] # 0
  BY <1>1, <1>2 DEF CanSow
<1>5. PICK b \in Board, all \in Nat : b = s.board /\ all = Count(b) /\ all = Stones(s)
  BY StonesCount, CountNat
<1>6. PICK v : v = Sow(s, from)
  OBVIOUS
<1>7. v \in Sowing(p) /\ Count(v.board) = all /\ Dist(v.board, all) < Dist(b, all)
  BY <1>1, <1>3, <1>4, <1>5, <1>6, SowAdvances
<1>8. v.board \in Board /\ v.pos \in Pit
  BY <1>7 DEF Sowing
<1>9. PICK c : c = BigWin(v.board, v.pos, p)
  OBVIOUS
<1>10. c \in Board /\ Count(c) = all /\ Dist(c, all) <= Dist(v.board, all)
  BY <1>7, <1>8, <1>9, BigWinKeeps
<1>11. PICK t : t = state_from_move(s, n)
  OBVIOUS
<1>12. t.board = c /\ t.turn \in Player /\ t \in State
  <2>1. PICK q : q = IF GoAgainRule /\ v.pos = mancala_pit(p) THEN p ELSE 1 - p
    OBVIOUS
  <2>2. t = [board |-> c, turn |-> q]
    BY <1>1, <1>2, <1>6, <1>9, <1>11, <2>1 DEF state_from_move
  <2>3. q \in Player
    BY <2>1 DEF Player
  <2> QED BY <1>10, <2>2, <2>3 DEF State, Board
<1>13. Stones(t) = all /\ Distance(t) = Dist(c, all) /\ Distance(s) = Dist(b, all)
  BY <1>5, <1>10, <1>12, StonesCount
<1>14. Dist(c, all) \in Int /\ Dist(b, all) \in Int /\ Dist(v.board, all) \in Int
  BY <1>8, <1>10, WeightedInt
<1>15. Distance(t) < Distance(s)
  BY <1>7, <1>10, <1>13, <1>14
<1> QED BY <1>5, <1>11, <1>12, <1>13, <1>15

\* A game begins with as many stones as the pits were filled with.
LEMMA InitialState ==
  ASSUME NEW p \in Player
  PROVE  init_state(p) \in Valid
<1>1. PICK N \in Nat, I \in Nat : N = NumPits /\ I = InitialStones /\ N >= 1
  BY Rules
<1>2. PICK b : b = init_state(p).board
  OBVIOUS
<1>3. b = [x \in Pit |-> IF x = N \/ x = 2 * N + 1 THEN 0 ELSE I]
  BY <1>1, <1>2, Sides DEF init_state
<1>4. b \in Board /\ \A x \in Pit : b[x] = IF x = N \/ x = 2 * N + 1 THEN 0 ELSE I
  BY <1>1, <1>3 DEF Board
<1>5. init_state(p) \in State /\ init_state(p).board = b
  <2>1. init_state(p) = [board |-> b, turn |-> p]
    BY <1>2 DEF init_state
  <2> QED BY <1>4, <2>1 DEF State, Board
<1>6. PICK n \in Nat : n = Size /\ n = 2 * N + 2 /\ Pit = 0 .. n - 1
  BY <1>1, Rules DEF Size
<1>7. b \in [0 .. n - 1 -> Int]
  BY <1>4, <1>6 DEF Board
<1>8. PICK a \in [0 .. n -> Int] :
        /\ a[0] = 0 /\ \A i \in 0 .. n - 1 : a[i + 1] = a[i] + b[i]
        /\ SumTo(b, n) = a[n]
  BY <1>7, SumSteps
<1> DEFINE Filled(i) == IF i <= N THEN i ELSE IF i <= 2 * N + 1 THEN i - 1 ELSE i - 2
           T == {i \in 0 .. n : a[i] = Filled(i) * I}
<1>9. 0 \in T
  BY <1>8
<1>10. ASSUME NEW i \in 0 .. n - 1, i \in T PROVE i + 1 \in T
  <2>1. a[i + 1] = a[i] + b[i] /\ a[i] = Filled(i) * I
    BY <1>8, <1>10
  <2>2. b[i] = IF i = N \/ i = 2 * N + 1 THEN 0 ELSE I
    BY <1>4, <1>6
  <2>3. PICK h \in Int : h = Filled(i)
    OBVIOUS
  <2>4. Filled(i + 1) = IF i = N \/ i = 2 * N + 1 THEN h ELSE h + 1
    BY <1>6, <2>3
  <2>5. (h + 1) * I = h * I + I /\ h * I \in Int
    OBVIOUS
  <2>6. a[i + 1] = Filled(i + 1) * I
    <3> HIDE DEF Filled, T
    <3>1. CASE i = N \/ i = 2 * N + 1
      BY <2>1, <2>2, <2>3, <2>4, <2>5, <3>1
    <3>2. CASE ~(i = N \/ i = 2 * N + 1)
      BY <2>1, <2>2, <2>3, <2>4, <2>5, <3>2
    <3> QED BY <3>1, <3>2
  <2> QED BY <2>6
<1>11. n \in T
  <2> HIDE DEF T
  <2>1. \A i \in 0 .. n : i \in T
    BY <1>9, <1>10, UpTo
  <2> QED BY <2>1
<1>12. Count(b) = 2 * N * I
  BY <1>6, <1>8, <1>11 DEF Count
<1> QED BY <1>1, <1>5, <1>12, StonesCount DEF Valid, Total

\* A move of a whole board leaves a whole board.
LEMMA MoveValid ==
  ASSUME NEW s \in Valid, NEW n \in 0 .. NumPits - 1, CanSow(s, n)
  PROVE  state_from_move(s, n) \in Valid
BY MoveAdvances DEF Valid

-----------------------------------------------------------------------------
(* The values of leaves. *)

Val == [val : Int, err : BOOLEAN]
Evals == {"evaluate", "score"}

\* The records of values.
LEMMA Values ==
  /\ Fails \in Val /\ Fails.err = TRUE
  /\ \A v \in Int : Value(v) \in Val /\ Value(v).val = v /\ Value(v).err = FALSE
  /\ \A v \in Val : v.val \in Int /\ v.err \in BOOLEAN
  /\ \A v \in Val : ~v.err => v = Value(v.val)
BY DEF Val, Value, Fails

\* end-pit is a pit of the board.
LEMMA EndPits ==
  ASSUME NEW s \in State, NEW x \in 0 .. NumPits - 1
  PROVE  end_pit(s, x) \in Pit
<1>1. PICK p \in Player : p = s.turn
  BY DEF State
<1>2. PICK from : from = left_pit(p) + x
  OBVIOUS
<1>3. from \in Pit /\ from # mancala_pit(other_player(p))
  <2>1. CASE p = 0
    BY <1>2, <2>1, Sides, Rules DEF Pit
  <2>2. CASE p = 1
    BY <1>2, <2>2, Sides, Rules DEF Pit
  <2> QED BY <2>1, <2>2, Sides
<1>4. s.board[from] \in Nat
  BY <1>3 DEF State
<1>5. PICK n \in Nat : n = s.board[from]
  BY <1>4
<1>6. PICK f \in [0 .. n -> Sowing(p)] : Sow(s, from) = f[n]
  BY <1>1, <1>3, <1>5, SowSteps
<1>7. f[n] \in Sowing(p)
  OBVIOUS
<1>8. Sow(s, from).pos \in Pit
  BY <1>6, <1>7 DEF Sowing
<1> QED BY <1>1, <1>2, <1>8 DEF end_pit

\* A score is at most all the stones.
LEMMA Scores ==
  ASSUME NEW s \in State, NEW max \in Player
  PROVE  /\ score(s, max) \in Int
         /\ -Count(s.board) <= score(s, max) /\ score(s, max) <= Count(s.board)
<1>1. PICK b \in Board : b = s.board
  BY DEF State, Board
<1>2. PICK x \in Nat, y \in Nat : x = b[mancala_pit(max)] /\ y = b[mancala_pit(other_player(max))]
  BY Sides DEF Board
<1>3. Count(b) \in Nat /\ x <= Count(b) /\ y <= Count(b)
  BY <1>2, Sides, CountNat
<1>4. score(s, max) = x - y
  BY <1>1, <1>2 DEF score
<1> QED BY <1>1, <1>3, <1>4

\* What evaluate adds up stays within what a score, the pits and their stones
\* can be.
Most(c) == 2 * NumPits + (NumPits + 1) * c

\* evaluate fails, says who won, or adds up to no more than Most.
LEMMA Evaluates ==
  ASSUME NEW s \in State, NEW max \in Player
  PROVE  /\ evaluate(s, max) \in Val
         /\ \/ evaluate(s, max).err
            \/ evaluate(s, max).val \in {MinWins, MaxWins}
            \/ /\ -Most(Count(s.board)) <= evaluate(s, max).val
               /\ evaluate(s, max).val <= Most(Count(s.board))
<1> DEFINE sign == IF s.turn = max THEN 1 ELSE -1
           again == {x \in 0 .. NumPits - 1 : end_pit(s, x) = mancala_pit(s.turn)}
           wins == BigWinPits(s)
           across == [x \in 0 .. NumPits - 1 |->
                        IF x \in wins THEN s.board[pit_opposite(end_pit(s, x))] ELSE 0]
           wrong == \/ BigWinRule /\ \E x \in wins : pit_opposite(end_pit(s, x)) < 0
                    \/ score(s, max) > 0
           g == IF GoAgainRule THEN 2 * Cardinality(again) ELSE 0
           a == IF BigWinRule THEN SumTo(across, NumPits) ELSE 0
<1>1. evaluate(s, max) =
        IF game_overp(s) THEN Value(IF score(s, max) > 0 THEN MaxWins ELSE MinWins)
        ELSE IF wrong THEN Fails ELSE Value(score(s, max) + sign * g + sign * a)
  BY DEF evaluate
<1>2. PICK b \in Board, c \in Nat, N \in Nat : b = s.board /\ c = Count(b) /\ N = NumPits /\ N >= 1
  BY CountNat, Rules DEF State, Board
<1>3. g \in Nat /\ g <= 2 * N
  <2>1. again \subseteq 0 .. N - 1
    BY <1>2
  <2>2. IsFiniteSet(0 .. N - 1) /\ Cardinality(0 .. N - 1) = N
    <3>1. PICK z \in Int, m \in Int : z = 0 /\ m = N - 1
      OBVIOUS
    <3>2. IsFiniteSet(z .. m) /\ Cardinality(z .. m) = IF z > m THEN 0 ELSE m - z + 1
      BY FS_Interval
    <3> QED BY <1>2, <3>1, <3>2
  <2>3. IsFiniteSet(again) /\ Cardinality(again) <= N
    BY <2>1, <2>2, FS_Subset
  <2>4. Cardinality(again) \in Nat
    BY <2>3, FS_CardinalityType
  <2> HIDE DEF again
  <2> QED BY <2>3, <2>4
<1>4. ASSUME ~wrong PROVE a \in Nat /\ a <= N * c
  <2>1. CASE ~BigWinRule
    <3>1. a = 0 /\ N * c >= 0
      BY <1>2, <2>1
    <3> QED BY <3>1
  <2>2. CASE BigWinRule
    <3>1. ASSUME NEW x \in 0 .. NumPits - 1
          PROVE  across[x] \in Int /\ across[x] >= 0 /\ across[x] <= c
      <4>1. CASE x \notin wins
        BY <1>2, <4>1
      <4>2. CASE x \in wins
        <5>1. PICK e : e = end_pit(s, x)
          OBVIOUS
        <5>2. e \in Pit
          BY <5>1, EndPits
        <5>3. ~(pit_opposite(e) < 0)
          BY <1>4, <2>2, <4>2, <5>1
        <5>4. pit_opposite(e) \in Pit
          BY <1>2, <5>2, <5>3 DEF pit_opposite, Pit
        <5>5. b[pit_opposite(e)] \in Nat /\ b[pit_opposite(e)] <= c
          BY <1>2, <5>4, CountNat DEF Board
        <5>6. across[x] = b[pit_opposite(e)]
          BY <1>2, <4>2, <5>1
        <5> QED BY <5>5, <5>6
      <4> QED BY <4>1, <4>2
    <3>2. across \in [0 .. N - 1 -> Int] /\ \A i \in 0 .. N - 1 : across[i] >= 0 /\ across[i] <= c
      BY <1>2, <3>1
    <3> HIDE DEF across
    <3>3. SumTo(across, N) \in Nat /\ SumTo(across, N) <= N * c
      BY <3>2, SumBounds
    <3> QED BY <1>2, <2>2, <3>3
  <2> QED BY <2>1, <2>2, Rules
<1>5. PICK k \in Int : k = score(s, max) /\ -c <= k /\ k <= c
  BY <1>2, Scores
<1>6. PICK sg \in {1, -1} : sg = sign
  OBVIOUS
<1> HIDE DEF sign, again, wins, across, wrong, g, a
<1>7. CASE game_overp(s)
  <2>1. PICK m \in {MinWins, MaxWins} : evaluate(s, max) = Value(m)
    BY <1>1, <1>7
  <2> QED BY <2>1, Values, Rules
<1>8. CASE ~game_overp(s) /\ wrong
  BY <1>1, <1>8, Values
<1>9. CASE ~game_overp(s) /\ ~wrong
  <2>1. PICK x \in Int, y \in Int : x = sg * g /\ y = sg * a
    BY <1>3, <1>4, <1>6, <1>9
  <2>2. -(2 * N) <= x /\ x <= 2 * N
    BY <1>2, <1>3, <1>6, <2>1
  <2>3. PICK z \in Int : z = N * c /\ -z <= y /\ y <= z
    <3>1. a \in Nat /\ a <= N * c /\ N * c \in Int
      BY <1>4, <1>9
    <3> QED BY <1>6, <2>1, <3>1
  <2>4. Most(c) = 2 * N + (z + c)
    <3>1. (N + 1) * c = N * c + c
      BY <1>2
    <3> QED BY <1>2, <2>3, <3>1 DEF Most
  <2>5. PICK v \in Int : v = k + x + y
    OBVIOUS
  <2>6. -Most(c) <= v /\ v <= Most(c)
    BY <1>2, <1>5, <2>2, <2>3, <2>4, <2>5
  <2>7. evaluate(s, max) = Value(v)
    BY <1>1, <1>5, <1>6, <1>9, <2>1, <2>5
  <2> QED BY <1>2, <2>6, <2>7, Values
<1> QED BY <1>7, <1>8, <1>9

\* A leaf that does not fail is worth something between *min-wins* and *max-wins*.
LEMMA Leaves ==
  ASSUME NEW s \in State, NEW max \in Player, NEW eval \in Evals
  PROVE  /\ Leaf(eval, s, max) \in Val
         /\ s \in Valid /\ ~Leaf(eval, s, max).err =>
              MinWins <= Leaf(eval, s, max).val /\ Leaf(eval, s, max).val <= MaxWins
<1>1. PICK c \in Nat, m \in Int : c = Count(s.board) /\ m = Most(c) /\ c <= m
  <2>1. PICK c \in Nat : c = Count(s.board)
    BY StonesCount, CountNat
  <2>2. PICK N \in Nat : N = NumPits
    BY Rules
  <2>3. (N + 1) * c = N * c + c /\ N * c >= 0 /\ N * c \in Int
    OBVIOUS
  <2>4. Most(c) \in Int /\ c <= Most(c)
    BY <2>2, <2>3 DEF Most
  <2> QED BY <2>1, <2>4
<1>2. s \in Valid => MinWins < -m /\ m < MaxWins
  <2> SUFFICES ASSUME s \in Valid PROVE MinWins < -m /\ m < MaxWins
    OBVIOUS
  <2>1. c = Total
    BY <1>1, StonesCount DEF Valid
  <2> QED BY <1>1, <2>1, RulesAssumption DEF Most, Total
<1>3. MinWins \in Int /\ MaxWins \in Int
  BY Rules
<1>4. PICK v : v = Leaf(eval, s, max)
  OBVIOUS
<1>5. CASE eval = "score"
  <2>1. PICK k \in Int : k = score(s, max) /\ -c <= k /\ k <= c
    BY <1>1, Scores
  <2>2. v = Value(k)
    BY <1>4, <1>5, <2>1 DEF Leaf
  <2>3. v \in Val /\ v.val = k
    BY <2>2, Values
  <2>4. -m <= k /\ k <= m
    BY <1>1, <2>1
  <2>5. s \in Valid => MinWins <= k /\ k <= MaxWins
    BY <1>1, <1>2, <1>3, <2>4
  <2> QED BY <1>4, <2>3, <2>5
<1>6. CASE eval = "evaluate"
  <2>1. v = evaluate(s, max)
    BY <1>4, <1>6 DEF Leaf
  <2>2. v \in Val /\ (v.err \/ v.val \in {MinWins, MaxWins} \/ (-m <= v.val /\ v.val <= m))
    BY <1>1, <2>1, Evaluates
  <2>3. v.val \in Int
    BY <2>2, Values
  <2>4. ASSUME s \in Valid, ~v.err PROVE MinWins <= v.val /\ v.val <= MaxWins
    <3>1. MinWins < MaxWins
      BY <1>1, <1>2, <1>3, <2>4
    <3> QED BY <1>1, <1>2, <1>3, <2>2, <2>3, <2>4, <3>1
  <2> QED BY <1>4, <2>2, <2>4
<1> QED BY <1>5, <1>6 DEF Evals

-----------------------------------------------------------------------------
(* The loop of alpha-beta. *)

\* The children of a state are the states its moves reach; there is one unless
\* the game is over.
LEMMA MovesAre ==
  ASSUME NEW s \in State
  PROVE  /\ DOMAIN moves(s) \subseteq 1 .. NumPits
         /\ \A i \in DOMAIN moves(s) : moves(s)[i] \in State
         /\ s \in Valid => \A i \in DOMAIN moves(s) : moves(s)[i] \in Valid
         /\ ~game_overp(s) => DOMAIN moves(s) # {}
         /\ \A i \in DOMAIN moves(s) : /\ NumPits - i \in 0 .. NumPits - 1
                                       /\ CanSow(s, NumPits - i)
                                       /\ moves(s)[i] = state_from_move(s, NumPits - i)
<1>1. PICK N \in Nat : N = NumPits /\ N >= 1
  BY Rules
<1>2. DOMAIN moves(s) = {j \in 1 .. N : CanSow(s, N - j)}
  BY <1>1 DEF moves
<1>3. \A i \in DOMAIN moves(s) :
        i \in 1 .. N /\ CanSow(s, N - i) /\ moves(s)[i] = state_from_move(s, N - i)
  BY <1>1, <1>2 DEF moves
<1>4. ASSUME NEW i \in DOMAIN moves(s)
      PROVE  /\ moves(s)[i] \in State /\ (s \in Valid => moves(s)[i] \in Valid)
             /\ N - i \in 0 .. N - 1
  <2>1. i \in 1 .. N /\ CanSow(s, N - i) /\ moves(s)[i] = state_from_move(s, N - i)
    BY <1>3
  <2>2. PICK n : n = N - i
    OBVIOUS
  <2>3. n \in 0 .. NumPits - 1
    BY <1>1, <2>1, <2>2
  <2>4. state_from_move(s, n) \in State /\ (s \in Valid => state_from_move(s, n) \in Valid)
    BY <2>1, <2>2, <2>3, MoveAdvances, MoveValid
  <2> QED BY <1>1, <2>1, <2>2, <2>3, <2>4
<1>5. ASSUME ~game_overp(s) PROVE DOMAIN moves(s) # {}
  <2>1. PICK x \in 0 .. N - 1 : s.board[left_pit(s.turn) + x] # 0
    BY <1>1, <1>5 DEF game_overp
  <2>2. CanSow(s, x)
    BY <2>1 DEF CanSow
  <2>3. N - x \in 1 .. N /\ N - (N - x) = x
    OBVIOUS
  <2> QED BY <1>2, <2>2, <2>3
<1> QED BY <1>1, <1>2, <1>3, <1>4, <1>5

\* Max and Min of two numbers.
LEMMA MaxMinOfTwo ==
  ASSUME NEW x \in Int, NEW y \in Int
  PROVE  /\ Max({x, y}) = IF x >= y THEN x ELSE y
         /\ Min({x, y}) = IF x <= y THEN x ELSE y
<1>1. PICK m \in {x, y} : \A z \in {x, y} : m >= z
  <2>1. CASE x >= y
    BY <2>1
  <2>2. CASE ~(x >= y)
    BY <2>2
  <2> QED BY <2>1, <2>2
<1>2. Max({x, y}) \in {x, y} /\ \A z \in {x, y} : Max({x, y}) >= z
  BY <1>1 DEF Max
<1>3. PICK l \in {x, y} : \A z \in {x, y} : l <= z
  <2>1. CASE x <= y
    BY <2>1
  <2>2. CASE ~(x <= y)
    BY <2>2
  <2> QED BY <2>1, <2>2
<1>4. Min({x, y}) \in {x, y} /\ \A z \in {x, y} : Min({x, y}) <= z
  BY <1>3 DEF Min
<1>5. PICK a, b : a = Max({x, y}) /\ b = Min({x, y})
  OBVIOUS
<1>6. a \in {x, y} /\ a >= x /\ a >= y /\ b \in {x, y} /\ b <= x /\ b <= y
  BY <1>2, <1>4, <1>5
<1>7. a = IF x >= y THEN x ELSE y
  BY <1>6
<1>8. b = IF x <= y THEN x ELSE y
  BY <1>6
<1> QED BY <1>5, <1>7, <1>8

\* What values a child in a window; the loop's variables.
Sub == [State -> [Int -> [Int -> Val]]]
Window == [a : Int, b : Int, stop : BOOLEAN, err : BOOLEAN]
StartWindow(alpha, beta) == [a |-> alpha, b |-> beta, stop |-> FALSE, err |-> FALSE]

Loops(w, s, max, sub, alpha, beta) ==
  w = [i \in 0 .. NumPits |->
        IF i = 0 THEN [a |-> alpha, b |-> beta, stop |-> FALSE, err |-> FALSE]
        ELSE LoopStep(s, max, moves(s), sub, w[i - 1], i)]

\* The window after a child of value v, for the two sides.
LEMMA NarrowedIs ==
  ASSUME NEW u \in Window, NEW v \in Val
  PROVE  /\ Narrowed(TRUE, u, v) \in Window /\ Narrowed(TRUE, u, v).err = v.err
         /\ Narrowed(FALSE, u, v) \in Window /\ Narrowed(FALSE, u, v).err = v.err
         /\ Narrowed(TRUE, u, v).a = (IF u.a >= v.val THEN u.a ELSE v.val)
         /\ Narrowed(TRUE, u, v).b = u.b
         /\ Narrowed(FALSE, u, v).b = (IF u.b <= v.val THEN u.b ELSE v.val)
         /\ Narrowed(FALSE, u, v).a = u.a
         /\ Narrowed(TRUE, u, v).stop <=> (Narrowed(TRUE, u, v).a >= Narrowed(TRUE, u, v).b)
         /\ Narrowed(FALSE, u, v).stop <=> (Narrowed(FALSE, u, v).a >= Narrowed(FALSE, u, v).b)
<1>1. PICK a \in Int, b \in Int, x \in Int, e \in BOOLEAN : a = u.a /\ b = u.b /\ x = v.val /\ e = v.err
  BY DEF Window, Val
<1>2. PICK h \in Int, l \in Int : h = Max({a, x}) /\ l = Min({b, x})
  BY MaxMinOfTwo
<1>3. h = (IF a >= x THEN a ELSE x) /\ l = (IF b <= x THEN b ELSE x)
  BY <1>2, MaxMinOfTwo
<1>4. Narrowed(TRUE, u, v) = [a |-> h, b |-> b, stop |-> h >= b, err |-> e]
  BY <1>1, <1>2 DEF Narrowed
<1>5. Narrowed(FALSE, u, v) = [a |-> a, b |-> l, stop |-> a >= l, err |-> e]
  BY <1>1, <1>2 DEF Narrowed
<1>6. PICK m, n : m = Narrowed(TRUE, u, v) /\ n = Narrowed(FALSE, u, v)
  OBVIOUS
<1>7. m \in Window /\ m.a = h /\ m.b = b /\ (m.stop <=> m.a >= m.b) /\ m.err = e
  <2>1. m = [a |-> h, b |-> b, stop |-> h >= b, err |-> e]
    BY <1>4, <1>6
  <2>2. m.a = h /\ m.b = b /\ (m.stop <=> h >= b) /\ m.err = e
    BY <2>1
  <2>3. m \in Window
    BY <2>1 DEF Window
  <2> QED BY <2>2, <2>3
<1>8. n \in Window /\ n.a = a /\ n.b = l /\ (n.stop <=> n.a >= n.b) /\ n.err = e
  <2>1. n = [a |-> a, b |-> l, stop |-> a >= l, err |-> e]
    BY <1>5, <1>6
  <2>2. n.a = a /\ n.b = l /\ (n.stop <=> a >= l) /\ n.err = e
    BY <2>1
  <2>3. n \in Window
    BY <2>1 DEF Window
  <2> QED BY <2>2, <2>3
<1> QED BY <1>1, <1>3, <1>6, <1>7, <1>8

\* A turn of the loop leaves a window.
LEMMA LoopStepIn ==
  ASSUME NEW s \in State, NEW max \in Player, NEW sub \in Sub, NEW u \in Window, NEW i
  PROVE  LoopStep(s, max, moves(s), sub, u, i) \in Window
<1>1. CASE u.stop \/ u.err \/ i \notin DOMAIN moves(s)
  BY <1>1 DEF LoopStep
<1>2. CASE ~(u.stop \/ u.err \/ i \notin DOMAIN moves(s))
  <2>1. moves(s)[i] \in State /\ u.a \in Int /\ u.b \in Int
    BY <1>2, MovesAre DEF Window
  <2>3. sub[moves(s)[i]][u.a][u.b] \in Val
    BY <2>1 DEF Sub
  <2>4. PICK v \in Val : v = sub[moves(s)[i]][u.a][u.b]
    BY <2>3
  <2>5. CASE s.turn = max
    <3>1. LoopStep(s, max, moves(s), sub, u, i) = Narrowed(TRUE, u, v)
      BY <1>2, <2>4, <2>5 DEF LoopStep, Narrowed
    <3>2. Narrowed(TRUE, u, v) \in Window
      BY NarrowedIs
    <3> QED BY <3>1, <3>2
  <2>6. CASE s.turn # max
    <3>1. LoopStep(s, max, moves(s), sub, u, i) = Narrowed(FALSE, u, v)
      BY <1>2, <2>4, <2>6 DEF LoopStep, Narrowed
    <3>2. Narrowed(FALSE, u, v) \in Window
      BY NarrowedIs
    <3> QED BY <3>1, <3>2
  <2> QED BY <2>5, <2>6
<1> QED BY <1>1, <1>2

\* SearchLoop is the end of the loop, turn by turn.
LEMMA LoopSteps ==
  ASSUME NEW s \in State, NEW max \in Player, NEW sub \in Sub, NEW alpha \in Int, NEW beta \in Int
  PROVE  \E w \in [0 .. NumPits -> Window] :
           /\ w[0] = StartWindow(alpha, beta)
           /\ \A i \in 0 .. NumPits - 1 : w[i + 1] = LoopStep(s, max, moves(s), sub, w[i], i + 1)
           /\ SearchLoop(s, max, sub, alpha, beta) = w[NumPits]
<1>1. PICK n \in Nat : n = NumPits
  BY Rules
<1> DEFINE w == CHOOSE w : w = [i \in 0 .. NumPits |->
                  IF i = 0 THEN [a |-> alpha, b |-> beta, stop |-> FALSE, err |-> FALSE]
                  ELSE LoopStep(s, max, moves(s), sub, w[i - 1], i)]
           G == [i \in 1 .. n |-> [u \in Window |-> LoopStep(s, max, moves(s), sub, u, i)]]
<1>2. SearchLoop(s, max, sub, alpha, beta) = w[NumPits]
  BY DEF SearchLoop
<1>3. w = CHOOSE f : Loops(f, s, max, sub, alpha, beta)
  BY DEF Loops
<1> HIDE DEF w
<1>4. \A f : Loops(f, s, max, sub, alpha, beta) <=>
             f = [i \in 0 .. n |-> IF i = 0 THEN StartWindow(alpha, beta)
                                   ELSE LoopStep(s, max, moves(s), sub, f[i - 1], i)]
  BY <1>1 DEF Loops, StartWindow
<1>5. StartWindow(alpha, beta) \in Window
  BY DEF StartWindow, Window
<1>6. /\ G \in [1 .. n -> [Window -> Window]]
      /\ \A i \in 1 .. n : \A u \in Window : G[i][u] = LoopStep(s, max, moves(s), sub, u, i)
  BY LoopStepIn
<1> HIDE DEF G
<1>7. PICK g \in [0 .. n -> Window] : Goes(g, n, StartWindow(alpha, beta), G)
  BY <1>5, <1>6, Recursion
<1>8. \A i \in 1 .. n : g[i] = LoopStep(s, max, moves(s), sub, g[i - 1], i)
  <2> TAKE i \in 1 .. n
  <2>1. g[i - 1] \in Window
    OBVIOUS
  <2>2. g[i] = G[i][g[i - 1]]
    BY <1>7 DEF Goes
  <2> QED BY <1>6, <2>1, <2>2
<1>9. Loops(g, s, max, sub, alpha, beta)
  <2>1. g[0] = StartWindow(alpha, beta)
    BY <1>7 DEF Goes
  <2>2. g = [i \in 0 .. n |-> IF i = 0 THEN StartWindow(alpha, beta)
                              ELSE LoopStep(s, max, moves(s), sub, g[i - 1], i)]
    BY <1>8, <2>1
  <2> QED BY <1>4, <2>2
<1>10. Loops(w, s, max, sub, alpha, beta)
  BY <1>3, <1>9
<1>11. w = [i \in 0 .. n |-> IF i = 0 THEN StartWindow(alpha, beta)
                             ELSE LoopStep(s, max, moves(s), sub, w[i - 1], i)]
  BY <1>4, <1>10
<1>12. \A i \in 0 .. n : w[i] = IF i = 0 THEN StartWindow(alpha, beta)
                                ELSE LoopStep(s, max, moves(s), sub, w[i - 1], i)
  BY <1>11
<1>13. w[0] = StartWindow(alpha, beta)
  BY <1>12
<1>14. ASSUME NEW i \in 0 .. n - 1 PROVE w[i + 1] = LoopStep(s, max, moves(s), sub, w[i], i + 1)
  <2>1. i + 1 \in 0 .. n /\ i + 1 # 0 /\ (i + 1) - 1 = i
    OBVIOUS
  <2> QED BY <1>12, <2>1
<1>15. \A i \in 0 .. n : w[i] \in Window
  <2> DEFINE T == {i \in 0 .. n : w[i] \in Window}
  <2>1. 0 \in T
    BY <1>5, <1>13
  <2>2. ASSUME NEW i \in 0 .. n - 1, i \in T PROVE i + 1 \in T
    BY <1>14, <2>2, LoopStepIn
  <2> HIDE DEF T
  <2>3. \A i \in 0 .. n : i \in T
    BY <2>1, <2>2, UpTo
  <2> QED BY <2>3 DEF T
<1>16. w \in [0 .. n -> Window]
  BY <1>11, <1>15
<1> QED BY <1>1, <1>2, <1>13, <1>14, <1>16

-----------------------------------------------------------------------------
(* The recursion of alpha-beta. *)

\* What alpha-beta returns, by the side that moves and the way the loop ended.
LEMMA LoopValueIs ==
  ASSUME NEW s \in State, NEW max \in Player, NEW end \in Window
  PROVE  /\ LoopValue(s, max, end) \in Val
         /\ end.err => LoopValue(s, max, end).err
         /\ ~end.err =>
              /\ ~LoopValue(s, max, end).err
              /\ s.turn = max /\ end.stop => LoopValue(s, max, end).val = end.b
              /\ s.turn = max /\ ~end.stop => LoopValue(s, max, end).val = end.a
              /\ s.turn # max /\ end.stop => LoopValue(s, max, end).val = end.a
              /\ s.turn # max /\ ~end.stop => LoopValue(s, max, end).val = end.b
<1>1. end.a \in Int /\ end.b \in Int /\ end.stop \in BOOLEAN /\ end.err \in BOOLEAN
  BY DEF Window
<1>2. CASE end.err
  <2>1. LoopValue(s, max, end) = Fails
    BY <1>2 DEF LoopValue
  <2> QED BY <1>2, <2>1, Values
<1>3. CASE ~end.err
  <2>1. CASE s.turn = max /\ end.stop
    <3>1. LoopValue(s, max, end) = Value(end.b)
      BY <1>1, <1>3, <2>1 DEF LoopValue
    <3> QED BY <1>1, <1>3, <2>1, <3>1, Values
  <2>2. CASE s.turn = max /\ ~end.stop
    <3>1. LoopValue(s, max, end) = Value(end.a)
      BY <1>1, <1>3, <2>2 DEF LoopValue
    <3> QED BY <1>1, <1>3, <2>2, <3>1, Values
  <2>3. CASE s.turn # max /\ end.stop
    <3>1. LoopValue(s, max, end) = Value(end.a)
      BY <1>1, <1>3, <2>3 DEF LoopValue
    <3> QED BY <1>1, <1>3, <2>3, <3>1, Values
  <2>4. CASE s.turn # max /\ ~end.stop
    <3>1. LoopValue(s, max, end) = Value(end.b)
      BY <1>1, <1>3, <2>4 DEF LoopValue
    <3> QED BY <1>1, <1>3, <2>4, <3>1, Values
  <2> QED BY <2>1, <2>2, <2>3, <2>4
<1> QED BY <1>2, <1>3

\* So a node has a value.
LEMMA LoopValueIn ==
  ASSUME NEW s \in State, NEW max \in Player, NEW sub \in Sub, NEW alpha \in Int, NEW beta \in Int
  PROVE  LoopValue(s, max, SearchLoop(s, max, sub, alpha, beta)) \in Val
<1>1. NumPits \in 0 .. NumPits
  BY Rules
<1>2. SearchLoop(s, max, sub, alpha, beta) \in Window
  BY <1>1, LoopSteps
<1>3. PICK end \in Window : end = SearchLoop(s, max, sub, alpha, beta)
  BY <1>2
<1> QED BY <1>3, LoopValueIs

\* A level of alpha-beta over the one below it, and the level of the leaves.
Level(max, eval, k, sub) ==
  [c \in State |-> [x \in Int |-> [y \in Int |->
     IF game_overp(c) \/ k = 0 THEN Leaf(eval, c, max)
     ELSE LoopValue(c, max, SearchLoop(c, max, sub, x, y))]]]
LeafLevel(max, eval) == [c \in State |-> [x \in Int |-> [y \in Int |-> Leaf(eval, c, max)]]]

Levels(ab, maxd, max, eval) == ab = [k \in 0 .. maxd |-> Level(max, eval, k, ab[k - 1])]

\* A level values every state in every window.
LEMMA LevelIn ==
  ASSUME NEW max \in Player, NEW eval \in Evals, NEW k, NEW sub \in Sub
  PROVE  Level(max, eval, k, sub) \in Sub /\ LeafLevel(max, eval) \in Sub
<1>1. \A c \in State : Leaf(eval, c, max) \in Val
  BY Leaves
<1>2. \A c \in State, x, y \in Int : LoopValue(c, max, SearchLoop(c, max, sub, x, y)) \in Val
  BY LoopValueIn
<1> QED BY <1>1, <1>2 DEF Level, LeafLevel, Sub

\* alpha_beta is the top of the levels, each made from the one below it.
LEMMA Searches ==
  ASSUME NEW maxd \in Nat, NEW max \in Player, NEW eval \in Evals
  PROVE  \E ab \in [0 .. maxd -> Sub] :
           /\ \A c \in State, x, y \in Int : ab[0][c][x][y] = Leaf(eval, c, max)
           /\ \A k \in 0 .. maxd - 1 : \A c \in State, x, y \in Int :
                ab[k + 1][c][x][y] = IF game_overp(c) THEN Leaf(eval, c, max)
                                     ELSE LoopValue(c, max, SearchLoop(c, max, ab[k], x, y))
           /\ \A s \in State, alpha, beta \in Int :
                alpha_beta(s, maxd, max, eval, alpha, beta) = ab[maxd][s][alpha][beta]
<1> DEFINE ab == CHOOSE ab : ab = [k \in 0 .. maxd |->
                   [c \in State |-> [x \in Int |-> [y \in Int |->
                      IF game_overp(c) \/ k = 0 THEN Leaf(eval, c, max)
                      ELSE LoopValue(c, max, SearchLoop(c, max, ab[k - 1], x, y))]]]]
           G == [k \in 1 .. maxd |-> [sub \in Sub |-> Level(max, eval, k, sub)]]
<1>1. \A s \in State, alpha, beta \in Int :
        alpha_beta(s, maxd, max, eval, alpha, beta) = ab[maxd][s][alpha][beta]
  BY DEF alpha_beta
<1>2. ab = CHOOSE f : Levels(f, maxd, max, eval)
  BY DEF Levels, Level
<1> HIDE DEF ab
<1>3. LeafLevel(max, eval) \in Sub
  <2>1. \A c \in State : Leaf(eval, c, max) \in Val
    BY Leaves
  <2> QED BY <2>1 DEF LeafLevel, Sub
<1>4. /\ G \in [1 .. maxd -> [Sub -> Sub]]
      /\ \A k \in 1 .. maxd : \A sub \in Sub : G[k][sub] = Level(max, eval, k, sub)
  <2>1. \A k \in 1 .. maxd, sub \in Sub : Level(max, eval, k, sub) \in Sub
    BY LevelIn
  <2> QED BY <2>1
<1> HIDE DEF G
<1>5. PICK g \in [0 .. maxd -> Sub] : Goes(g, maxd, LeafLevel(max, eval), G)
  BY <1>3, <1>4, Recursion
<1>6. \A k \in 1 .. maxd : g[k] = Level(max, eval, k, g[k - 1])
  <2> TAKE k \in 1 .. maxd
  <2>1. g[k - 1] \in Sub
    OBVIOUS
  <2>2. g[k] = G[k][g[k - 1]]
    BY <1>5 DEF Goes
  <2> QED BY <1>4, <2>1, <2>2
<1>7. \A sub : Level(max, eval, 0, sub) = LeafLevel(max, eval)
  BY DEF Level, LeafLevel
<1>8. Levels(g, maxd, max, eval)
  <2>1. g[0] = Level(max, eval, 0, g[0 - 1])
    BY <1>5, <1>7 DEF Goes
  <2>2. \A k \in 0 .. maxd : g[k] = Level(max, eval, k, g[k - 1])
    BY <1>6, <2>1
  <2> QED BY <2>2 DEF Levels
<1>9. Levels(ab, maxd, max, eval)
  BY <1>2, <1>8
<1>10. \A k \in 0 .. maxd : ab[k] = Level(max, eval, k, ab[k - 1])
  BY <1>9 DEF Levels
<1>11. ab[0] = LeafLevel(max, eval)
  BY <1>7, <1>10
<1>12. ASSUME NEW k \in 0 .. maxd - 1 PROVE ab[k + 1] = Level(max, eval, k + 1, ab[k])
  <2>1. k + 1 \in 0 .. maxd /\ (k + 1) - 1 = k
    OBVIOUS
  <2> QED BY <1>10, <2>1
<1>13. \A k \in 0 .. maxd : ab[k] \in Sub
  <2> DEFINE T == {k \in 0 .. maxd : ab[k] \in Sub}
  <2>1. 0 \in T
    BY <1>3, <1>11
  <2>2. ASSUME NEW k \in 0 .. maxd - 1, k \in T PROVE k + 1 \in T
    BY <1>12, <2>2, LevelIn
  <2> HIDE DEF T
  <2>3. \A k \in 0 .. maxd : k \in T
    BY <2>1, <2>2, UpTo
  <2> QED BY <2>3 DEF T
<1>14. ab \in [0 .. maxd -> Sub]
  BY <1>9, <1>13 DEF Levels
<1>15. \A c \in State, x, y \in Int : ab[0][c][x][y] = Leaf(eval, c, max)
  BY <1>11 DEF LeafLevel
<1>16. ASSUME NEW k \in 0 .. maxd - 1, NEW c \in State, NEW x \in Int, NEW y \in Int
       PROVE  ab[k + 1][c][x][y] = IF game_overp(c) THEN Leaf(eval, c, max)
                                   ELSE LoopValue(c, max, SearchLoop(c, max, ab[k], x, y))
  <2>1. PICK sub \in Sub : sub = ab[k]
    BY <1>13
  <2>2. k + 1 # 0
    OBVIOUS
  <2>3. Level(max, eval, k + 1, sub)[c][x][y] =
          IF game_overp(c) THEN Leaf(eval, c, max)
          ELSE LoopValue(c, max, SearchLoop(c, max, sub, x, y))
    BY <2>2 DEF Level
  <2> QED BY <1>12, <2>1, <2>3
<1> QED BY <1>1, <1>14, <1>15, <1>16

-----------------------------------------------------------------------------
(* The reference: the minimax value. *)

\* One of finitely many values is the greatest, and one the least.
LEMMA Greatest ==
  ASSUME NEW n \in Nat, NEW D \in SUBSET (1 .. n), D # {}, NEW f \in [D -> Int]
  PROVE  \E i \in D : \A j \in D : f[j] <= f[i]
<1> DEFINE T == {k \in 0 .. n : (\E j \in D : j <= k) =>
                    \E i \in D : i <= k /\ \A j \in D : j <= k => f[j] <= f[i]}
<1>1. 0 \in T
  OBVIOUS
<1>2. ASSUME NEW k \in 0 .. n - 1, k \in T PROVE k + 1 \in T
  <2>1. CASE ~(\E j \in D : j <= k)
    <3>1. \A j \in D : j <= k + 1 => j = k + 1
      BY <2>1
    <3> QED BY <3>1
  <2>2. CASE \E j \in D : j <= k
    <3>1. PICK i \in D : i <= k /\ \A j \in D : j <= k => f[j] <= f[i]
      BY <1>2, <2>2
    <3>2. CASE k + 1 \in D /\ f[k + 1] > f[i]
      <4>1. \A j \in D : j <= k + 1 => f[j] <= f[k + 1]
        <5> TAKE j \in D
        <5>1. f[j] \in Int /\ f[i] \in Int /\ f[k + 1] \in Int
          BY <3>2
        <5>2. j <= k + 1 => j <= k \/ j = k + 1
          OBVIOUS
        <5> QED BY <3>1, <3>2, <5>1, <5>2
      <4> QED BY <3>2, <4>1
    <3>3. CASE ~(k + 1 \in D /\ f[k + 1] > f[i])
      <4>1. \A j \in D : j <= k + 1 => f[j] <= f[i]
        <5> TAKE j \in D
        <5>1. f[j] \in Int /\ f[i] \in Int
          OBVIOUS
        <5>2. j <= k + 1 => j <= k \/ j = k + 1
          OBVIOUS
        <5> QED BY <3>1, <3>3, <5>1, <5>2
      <4>2. i <= k + 1
        BY <3>1
      <4>3. k + 1 \in 0 .. n
        OBVIOUS
      <4> QED BY <4>1, <4>2, <4>3
    <3> QED BY <3>2, <3>3
  <2> QED BY <2>1, <2>2
<1>3. n \in T
  <2> HIDE DEF T
  <2>1. \A k \in 0 .. n : k \in T
    BY <1>1, <1>2, UpTo
  <2> QED BY <2>1
<1>4. \A j \in D : j <= n
  OBVIOUS
<1>5. \E j \in D : j <= n
  BY <1>4
<1>6. PICK i \in D : \A j \in D : j <= n => f[j] <= f[i]
  BY <1>3, <1>5
<1> QED BY <1>4, <1>6

\* The least is the greatest of the opposites.
LEMMA Least ==
  ASSUME NEW n \in Nat, NEW D \in SUBSET (1 .. n), D # {}, NEW f \in [D -> Int]
  PROVE  \E i \in D : \A j \in D : f[i] <= f[j]
<1>1. PICK g : g = [j \in D |-> -f[j]]
  OBVIOUS
<1>2. g \in [D -> Int] /\ \A j \in D : g[j] = -f[j] /\ f[j] \in Int
  BY <1>1
<1>3. PICK i \in D : \A j \in D : g[j] <= g[i]
  BY <1>2, Greatest
<1> QED BY <1>2, <1>3

\* A level of the values of the whole tree over the one below it.
LeafValues(max, eval) == [c \in State |-> Leaf(eval, c, max)]
Vals(c, m) == {m[x] : x \in Range(moves(c))}
NodeValue(c, max, m) ==
  IF \E v \in Vals(c, m) : v.err THEN Fails
  ELSE Value(IF c.turn = max THEN Max({v.val : v \in Vals(c, m)})
                             ELSE Min({v.val : v \in Vals(c, m)}))
ValueLevel(max, eval, k, m) ==
  [c \in State |-> IF game_overp(c) \/ k = 0 THEN Leaf(eval, c, max) ELSE NodeValue(c, max, m)]
ValueLevels(mm, d, max, eval) == mm = [k \in 0 .. d |-> ValueLevel(max, eval, k, mm[k - 1])]
Table == [State -> Val]

\* The minimax value of a node is that of a child, which no other beats.
LEMMA NodeValueIs ==
  ASSUME NEW c \in State, NEW max \in Player, NEW m \in Table, ~game_overp(c)
  PROVE  /\ NodeValue(c, max, m) \in Val
         /\ ~NodeValue(c, max, m).err =>
              /\ \A i \in DOMAIN moves(c) : ~m[moves(c)[i]].err
              /\ \E i \in DOMAIN moves(c) : m[moves(c)[i]].val = NodeValue(c, max, m).val
              /\ c.turn = max =>
                   \A i \in DOMAIN moves(c) : m[moves(c)[i]].val <= NodeValue(c, max, m).val
              /\ c.turn # max =>
                   \A i \in DOMAIN moves(c) : m[moves(c)[i]].val >= NodeValue(c, max, m).val
<1>1. PICK N \in Nat : N = NumPits
  BY Rules
<1>2. PICK D \in SUBSET (1 .. N) : D = DOMAIN moves(c) /\ D # {}
  BY <1>1, MovesAre
<1>3. \A i \in D : moves(c)[i] \in State
  BY <1>2, MovesAre
<1>4. PICK f : f = [i \in D |-> m[moves(c)[i]].val]
  OBVIOUS
<1>5. \A i \in D : m[moves(c)[i]] \in Val
  BY <1>3 DEF Table
<1>6. f \in [D -> Int] /\ \A i \in D : f[i] = m[moves(c)[i]].val
  BY <1>4, <1>5, Values
<1>7. Vals(c, m) = {m[moves(c)[i]] : i \in D}
  BY <1>2 DEF Vals, Range
<1>8. PICK A : A = {v.val : v \in Vals(c, m)}
  OBVIOUS
<1>9. A = {f[i] : i \in D}
  BY <1>6, <1>7, <1>8
<1>10. PICK u : u = NodeValue(c, max, m)
  OBVIOUS
<1>11. CASE \E v \in Vals(c, m) : v.err
  <2>1. u = Fails
    BY <1>10, <1>11 DEF NodeValue
  <2> QED BY <1>10, <2>1, Values
<1>12. CASE ~(\E v \in Vals(c, m) : v.err)
  <2>1. \A i \in D : ~m[moves(c)[i]].err
    BY <1>7, <1>12
  <2>2. CASE c.turn = max
    <3>1. PICK i \in D : \A j \in D : f[j] <= f[i]
      BY <1>2, <1>6, Greatest
    <3>2. f[i] \in A /\ \A a \in A : f[i] >= a
      BY <1>6, <1>9, <3>1
    <3>3. Max(A) \in A /\ \A a \in A : Max(A) >= a
      BY <3>2 DEF Max
    <3>4. PICK x \in Int : x = Max(A)
      BY <1>6, <1>9, <3>3
    <3>5. u = Value(x)
      BY <1>8, <1>10, <1>12, <2>2, <3>4 DEF NodeValue
    <3>6. u \in Val /\ u.val = x /\ ~u.err
      BY <3>5, Values
    <3>7. (\E j \in D : f[j] = x) /\ \A j \in D : f[j] <= x
      BY <1>6, <1>9, <3>3, <3>4
    <3> QED BY <1>2, <1>6, <1>10, <2>1, <2>2, <3>6, <3>7
  <2>3. CASE c.turn # max
    <3>1. PICK i \in D : \A j \in D : f[i] <= f[j]
      BY <1>2, <1>6, Least
    <3>2. f[i] \in A /\ \A a \in A : f[i] <= a
      BY <1>6, <1>9, <3>1
    <3>3. Min(A) \in A /\ \A a \in A : Min(A) <= a
      BY <3>2 DEF Min
    <3>4. PICK x \in Int : x = Min(A)
      BY <1>6, <1>9, <3>3
    <3>5. u = Value(x)
      BY <1>8, <1>10, <1>12, <2>3, <3>4 DEF NodeValue
    <3>6. u \in Val /\ u.val = x /\ ~u.err
      BY <3>5, Values
    <3>7. (\E j \in D : f[j] = x) /\ \A j \in D : f[j] >= x
      BY <1>6, <1>9, <3>3, <3>4
    <3> QED BY <1>2, <1>6, <1>10, <2>1, <2>3, <3>6, <3>7
  <2> QED BY <2>2, <2>3
<1> QED BY <1>11, <1>12

\* A level of the values values every state.
LEMMA ValueLevelIn ==
  ASSUME NEW max \in Player, NEW eval \in Evals, NEW k, NEW m \in Table
  PROVE  ValueLevel(max, eval, k, m) \in Table /\ LeafValues(max, eval) \in Table
<1>1. \A c \in State : Leaf(eval, c, max) \in Val
  BY Leaves
<1>2. \A c \in State : ~game_overp(c) => NodeValue(c, max, m) \in Val
  BY NodeValueIs
<1> QED BY <1>1, <1>2 DEF ValueLevel, LeafValues, Table

\* Minimax is the top of the levels of values.
LEMMA Minimaxes ==
  ASSUME NEW d \in Nat, NEW max \in Player, NEW eval \in Evals
  PROVE  \E mm \in [0 .. d -> Table] :
           /\ \A c \in State : mm[0][c] = Leaf(eval, c, max)
           /\ \A k \in 0 .. d - 1 : \A c \in State :
                mm[k + 1][c] = IF game_overp(c) THEN Leaf(eval, c, max)
                               ELSE NodeValue(c, max, mm[k])
           /\ \A s \in State : Minimax(s, d, max, eval) = mm[d][s]
<1> DEFINE mm == CHOOSE mm : mm = [k \in 0 .. d |->
                   [c \in State |->
                     IF game_overp(c) \/ k = 0 THEN Leaf(eval, c, max)
                     ELSE LET vals == {mm[k - 1][x] : x \in Range(moves(c))}
                          IN  IF \E v \in vals : v.err THEN Fails
                              ELSE Value(IF c.turn = max THEN Max({v.val : v \in vals})
                                                         ELSE Min({v.val : v \in vals}))]]
           G == [k \in 1 .. d |-> [m \in Table |-> ValueLevel(max, eval, k, m)]]
<1>1. \A s \in State : Minimax(s, d, max, eval) = mm[d][s]
  BY DEF Minimax
<1>2. mm = CHOOSE f : ValueLevels(f, d, max, eval)
  BY DEF ValueLevels, ValueLevel, NodeValue, Vals
<1> HIDE DEF mm
<1>3. LeafValues(max, eval) \in Table
  <2>1. \A c \in State : Leaf(eval, c, max) \in Val
    BY Leaves
  <2> QED BY <2>1 DEF LeafValues, Table
<1>4. /\ G \in [1 .. d -> [Table -> Table]]
      /\ \A k \in 1 .. d : \A m \in Table : G[k][m] = ValueLevel(max, eval, k, m)
  <2>1. \A k \in 1 .. d, m \in Table : ValueLevel(max, eval, k, m) \in Table
    BY ValueLevelIn
  <2> QED BY <2>1
<1> HIDE DEF G
<1>5. PICK g \in [0 .. d -> Table] : Goes(g, d, LeafValues(max, eval), G)
  BY <1>3, <1>4, Recursion
<1>6. \A k \in 1 .. d : g[k] = ValueLevel(max, eval, k, g[k - 1])
  <2> TAKE k \in 1 .. d
  <2>1. g[k - 1] \in Table
    OBVIOUS
  <2>2. g[k] = G[k][g[k - 1]]
    BY <1>5 DEF Goes
  <2> QED BY <1>4, <2>1, <2>2
<1>7. \A m : ValueLevel(max, eval, 0, m) = LeafValues(max, eval)
  BY DEF ValueLevel, LeafValues
<1>8. ValueLevels(g, d, max, eval)
  <2>1. g[0] = ValueLevel(max, eval, 0, g[0 - 1])
    BY <1>5, <1>7 DEF Goes
  <2>2. \A k \in 0 .. d : g[k] = ValueLevel(max, eval, k, g[k - 1])
    BY <1>6, <2>1
  <2> QED BY <2>2 DEF ValueLevels
<1>9. ValueLevels(mm, d, max, eval)
  BY <1>2, <1>8
<1>10. \A k \in 0 .. d : mm[k] = ValueLevel(max, eval, k, mm[k - 1])
  BY <1>9 DEF ValueLevels
<1>11. mm[0] = LeafValues(max, eval)
  BY <1>7, <1>10
<1>12. ASSUME NEW k \in 0 .. d - 1 PROVE mm[k + 1] = ValueLevel(max, eval, k + 1, mm[k])
  <2>1. k + 1 \in 0 .. d /\ (k + 1) - 1 = k
    OBVIOUS
  <2> QED BY <1>10, <2>1
<1>13. \A k \in 0 .. d : mm[k] \in Table
  <2> DEFINE T == {k \in 0 .. d : mm[k] \in Table}
  <2>1. 0 \in T
    BY <1>3, <1>11
  <2>2. ASSUME NEW k \in 0 .. d - 1, k \in T PROVE k + 1 \in T
    BY <1>12, <2>2, ValueLevelIn
  <2> HIDE DEF T
  <2>3. \A k \in 0 .. d : k \in T
    BY <2>1, <2>2, UpTo
  <2> QED BY <2>3 DEF T
<1>14. mm \in [0 .. d -> Table]
  BY <1>9, <1>13 DEF ValueLevels
<1>15. \A c \in State : mm[0][c] = Leaf(eval, c, max)
  BY <1>11 DEF LeafValues
<1>16. ASSUME NEW k \in 0 .. d - 1, NEW c \in State
       PROVE  mm[k + 1][c] = IF game_overp(c) THEN Leaf(eval, c, max)
                             ELSE NodeValue(c, max, mm[k])
  <2>1. PICK m \in Table : m = mm[k]
    BY <1>13
  <2>2. k + 1 # 0
    OBVIOUS
  <2>3. ValueLevel(max, eval, k + 1, m)[c] =
          IF game_overp(c) THEN Leaf(eval, c, max) ELSE NodeValue(c, max, m)
    BY <2>2 DEF ValueLevel
  <2> QED BY <1>12, <2>1, <2>3
<1> QED BY <1>1, <1>14, <1>15, <1>16

-----------------------------------------------------------------------------
(* The window: what alpha-beta finds instead of the minimax value.         *)

\* v stands for the minimax value m in the window from alpha to beta: it is m
\* where m is inside, and says on which side of the window m is otherwise.
Found(v, m, alpha, beta) ==
  /\ ~v.err
  /\ m.val <= alpha => v.val <= alpha
  /\ m.val >= beta => v.val >= beta
  /\ alpha < m.val /\ m.val < beta => v.val = m.val
  /\ v.val = m.val \/ (alpha <= v.val /\ v.val <= beta)

Finds(sub, m) ==
  \A c \in Valid, x, y \in Int : x < y /\ ~m[c].err => Found(sub[c][x][y], m[c], x, y)

\* The loop at a node where max moves: a is the best so far, unless a child was
\* worth beta, which ends it.
MaxLoop(u, i, D, f, alpha, beta) ==
  /\ ~u.err /\ u.b = beta /\ alpha <= u.a
  /\ ~u.stop => /\ u.a < beta
                /\ \A j \in D : j <= i => f[j] <= u.a
                /\ u.a = alpha \/ \E j \in D : f[j] = u.a
  /\ u.stop => \E j \in D : f[j] >= beta

\* A turn of the loop keeps this: a child's value is found in the window left.
LEMMA MaxTurn ==
  ASSUME NEW s \in Valid, NEW max \in Player, s.turn = max, NEW sub \in Sub, NEW m \in Table,
         Finds(sub, m), NEW alpha \in Int, NEW beta \in Int,
         NEW D, D = DOMAIN moves(s), NEW f \in [D -> Int],
         \A j \in D : j \in Nat /\ f[j] = m[moves(s)[j]].val /\ ~m[moves(s)[j]].err,
         NEW i \in Nat, NEW u \in Window, MaxLoop(u, i, D, f, alpha, beta)
  PROVE  MaxLoop(LoopStep(s, max, moves(s), sub, u, i + 1), i + 1, D, f, alpha, beta)
<1>1. s \in State
  BY DEF Valid
<1>2. \A j \in D : j <= i + 1 => j <= i \/ j = i + 1
  OBVIOUS
<1>3. CASE u.stop \/ i + 1 \notin D
  <2>1. LoopStep(s, max, moves(s), sub, u, i + 1) = u
    BY <1>3 DEF LoopStep
  <2>2. CASE u.stop
    BY <2>1, <2>2 DEF MaxLoop
  <2>3. CASE ~u.stop
    <3>1. i + 1 \notin D
      BY <1>3, <2>3
    <3>2. \A j \in D : j <= i + 1 => j <= i
      BY <1>2, <3>1
    <3> QED BY <2>1, <2>3, <3>2 DEF MaxLoop
  <2> QED BY <2>2, <2>3
<1>4. CASE ~u.stop /\ i + 1 \in D
  <2>1. PICK c \in Valid : c = moves(s)[i + 1] /\ c \in State
    BY <1>1, <1>4, MovesAre
  <2>2. PICK a \in Int : a = u.a /\ alpha <= a /\ a < beta
    BY <1>4 DEF MaxLoop, Window
  <2>3. u.b = beta /\ ~u.err
    BY DEF MaxLoop
  <2>4. PICK v \in Val : v = sub[c][a][beta]
    BY <2>1, <2>2 DEF Sub
  <2>5. PICK x \in Int : x = v.val
    BY Values
  <2>6. PICK y \in Int : y = f[i + 1] /\ y = m[c].val
    BY <1>4, <2>1
  <2>7. Found(v, m[c], a, beta)
    <3>1. ~m[c].err
      BY <1>4, <2>1
    <3> QED BY <2>1, <2>2, <2>4, <3>1 DEF Finds
  <2>8. /\ ~v.err /\ (y <= a => x <= a) /\ (y >= beta => x >= beta)
        /\ a < y /\ y < beta => x = y
    BY <2>5, <2>6, <2>7 DEF Found
  <2>9. LoopStep(s, max, moves(s), sub, u, i + 1) = Narrowed(TRUE, u, v)
    BY <1>4, <2>1, <2>2, <2>3, <2>4 DEF LoopStep, Narrowed
  <2>10. PICK w \in Window : w = Narrowed(TRUE, u, v)
    BY NarrowedIs
  <2>11. /\ w.err = v.err /\ w.b = u.b /\ (w.stop <=> w.a >= w.b)
         /\ w.a = IF u.a >= v.val THEN u.a ELSE v.val
    BY <2>10, NarrowedIs
  <2>12. /\ w = LoopStep(s, max, moves(s), sub, u, i + 1)
         /\ ~w.err /\ w.b = beta /\ (w.stop <=> w.a >= beta)
         /\ w.a = IF a >= x THEN a ELSE x
    BY <2>2, <2>3, <2>5, <2>8, <2>9, <2>10, <2>11
  <2>13. \A j \in D : j <= i => f[j] <= a
    BY <1>4, <2>2 DEF MaxLoop
  <2>14. CASE y <= a
    <3>1. w.a = a /\ ~w.stop
      BY <2>2, <2>8, <2>12, <2>14
    <3>2. \A j \in D : j <= i + 1 => f[j] <= a
      BY <1>2, <2>6, <2>13, <2>14
    <3>3. a = alpha \/ \E j \in D : f[j] = a
      BY <1>4, <2>2 DEF MaxLoop
    <3> QED BY <2>2, <2>12, <3>1, <3>2, <3>3 DEF MaxLoop
  <2>15. CASE a < y /\ y < beta
    <3>1. w.a = y /\ ~w.stop /\ alpha <= y
      BY <2>2, <2>8, <2>12, <2>15
    <3>2. \A j \in D : j <= i + 1 => f[j] <= y
      <4> TAKE j \in D
      <4>1. f[j] \in Int
        OBVIOUS
      <4>2. j <= i => f[j] <= y
        BY <2>2, <2>13, <2>15, <4>1
      <4>3. j = i + 1 => f[j] = y
        BY <2>6
      <4> QED BY <1>2, <4>2, <4>3
    <3>3. \E j \in D : f[j] = y
      BY <1>4, <2>6
    <3> QED BY <2>12, <2>15, <3>1, <3>2, <3>3 DEF MaxLoop
  <2>16. CASE y >= beta
    <3>1. w.a >= beta /\ w.stop /\ alpha <= w.a
      BY <2>2, <2>8, <2>12, <2>16
    <3>2. \E j \in D : f[j] >= beta
      BY <1>4, <2>6, <2>16
    <3> QED BY <2>12, <3>1, <3>2 DEF MaxLoop
  <2> QED BY <2>2, <2>14, <2>15, <2>16
<1> QED BY <1>3, <1>4

\* So a node where max moves finds its value in its window.
LEMMA MaxNode ==
  ASSUME NEW s \in Valid, NEW max \in Player, s.turn = max, ~game_overp(s),
         NEW sub \in Sub, NEW m \in Table, Finds(sub, m), ~NodeValue(s, max, m).err,
         NEW alpha \in Int, NEW beta \in Int, alpha < beta
  PROVE  Found(LoopValue(s, max, SearchLoop(s, max, sub, alpha, beta)),
               NodeValue(s, max, m), alpha, beta)
<1>1. s \in State
  BY DEF Valid
<1>2. PICK N \in Nat : N = NumPits
  BY Rules
<1>3. PICK D \in SUBSET (1 .. N) : D = DOMAIN moves(s)
  BY <1>1, <1>2, MovesAre
<1>4. \A j \in D : moves(s)[j] \in State /\ m[moves(s)[j]] \in Val
  BY <1>1, <1>3, MovesAre DEF Table
<1>5. PICK f : f = [j \in D |-> m[moves(s)[j]].val]
  OBVIOUS
<1>6. f \in [D -> Int] /\ \A j \in D : f[j] = m[moves(s)[j]].val
  BY <1>4, <1>5, Values
<1>7. \A j \in D : j \in Nat /\ ~m[moves(s)[j]].err
  BY <1>1, <1>3, NodeValueIs
<1>8. PICK M \in Int : /\ M = NodeValue(s, max, m).val
                       /\ (\E j \in D : f[j] = M) /\ \A j \in D : f[j] <= M
  <2>1. NodeValue(s, max, m) \in Val
    BY <1>1, NodeValueIs
  <2>2. NodeValue(s, max, m).val \in Int
    BY <2>1, Values
  <2> QED BY <1>1, <1>3, <1>6, <2>2, NodeValueIs
<1>9. PICK w \in [0 .. N -> Window] :
        /\ w[0] = StartWindow(alpha, beta)
        /\ \A i \in 0 .. N - 1 : w[i + 1] = LoopStep(s, max, moves(s), sub, w[i], i + 1)
        /\ SearchLoop(s, max, sub, alpha, beta) = w[N]
  <2>1. \E w \in [0 .. NumPits -> Window] :
           /\ w[0] = StartWindow(alpha, beta)
           /\ \A i \in 0 .. NumPits - 1 : w[i + 1] = LoopStep(s, max, moves(s), sub, w[i], i + 1)
           /\ SearchLoop(s, max, sub, alpha, beta) = w[NumPits]
    BY <1>1, LoopSteps
  <2> QED BY <1>2, <2>1
<1>10. \A i \in 0 .. N : MaxLoop(w[i], i, D, f, alpha, beta)
  <2> DEFINE T == {i \in 0 .. N : MaxLoop(w[i], i, D, f, alpha, beta)}
  <2>1. 0 \in T
    <3>1. w[0].a = alpha /\ w[0].b = beta /\ ~w[0].err /\ ~w[0].stop
      BY <1>9 DEF StartWindow
    <3>2. \A j \in D : ~(j <= 0)
      OBVIOUS
    <3> QED BY <3>1, <3>2 DEF MaxLoop
  <2>2. ASSUME NEW i \in 0 .. N - 1, i \in T PROVE i + 1 \in T
    <3>1. i \in Nat /\ i + 1 \in 0 .. N /\ w[i] \in Window
      OBVIOUS
    <3>2. MaxLoop(w[i], i, D, f, alpha, beta)
      BY <2>2
    <3>3. MaxLoop(LoopStep(s, max, moves(s), sub, w[i], i + 1), i + 1, D, f, alpha, beta)
      BY <1>3, <1>6, <1>7, <3>1, <3>2, MaxTurn
    <3> QED BY <1>9, <3>1, <3>3
  <2> HIDE DEF T
  <2>3. \A i \in 0 .. N : i \in T
    BY <2>1, <2>2, UpTo
  <2> QED BY <2>3 DEF T
<1>11. PICK u \in Window : u = w[N] /\ MaxLoop(u, N, D, f, alpha, beta)
  BY <1>10
<1>12. PICK v \in Val : v = LoopValue(s, max, SearchLoop(s, max, sub, alpha, beta))
  BY <1>1, LoopValueIn
<1>13. v = LoopValue(s, max, u)
  BY <1>9, <1>11, <1>12
<1>14. u.a \in Int /\ u.b = beta /\ ~u.err
  BY <1>11 DEF MaxLoop, Window
<1>15. CASE u.stop
  <2>1. v.val = beta /\ ~v.err
    BY <1>1, <1>13, <1>14, <1>15, LoopValueIs
  <2>2. PICK j \in D : f[j] >= beta
    BY <1>11, <1>15 DEF MaxLoop
  <2>3. M >= beta
    BY <1>6, <1>8, <2>2
  <2> QED BY <1>8, <1>12, <2>1, <2>3 DEF Found
<1>16. CASE ~u.stop
  <2>1. v.val = u.a /\ ~v.err
    BY <1>1, <1>13, <1>14, <1>16, LoopValueIs
  <2>2. PICK a \in Int : a = u.a /\ alpha <= a /\ a < beta
    BY <1>11, <1>14, <1>16 DEF MaxLoop
  <2>3. \A j \in D : f[j] <= a
    BY <1>11, <1>16, <2>2 DEF MaxLoop
  <2>4. M <= a
    BY <1>8, <2>3
  <2>5. a = alpha \/ M = a
    <3>1. a = alpha \/ \E j \in D : f[j] = a
      BY <1>11, <1>16, <2>2 DEF MaxLoop
    <3>2. (\E j \in D : f[j] = a) => a <= M
      BY <1>8
    <3> QED BY <2>4, <3>1, <3>2
  <2> QED BY <1>8, <1>12, <2>1, <2>2, <2>4, <2>5 DEF Found
<1> QED BY <1>15, <1>16

\* The loop at a node where the other player moves: b is the best so far for
\* him, unless a child was worth alpha, which ends it.
MinLoop(u, i, D, f, alpha, beta) ==
  /\ ~u.err /\ u.a = alpha /\ u.b <= beta
  /\ ~u.stop => /\ alpha < u.b
                /\ \A j \in D : j <= i => f[j] >= u.b
                /\ u.b = beta \/ \E j \in D : f[j] = u.b
  /\ u.stop => \E j \in D : f[j] <= alpha

\* A turn of the loop keeps this.
LEMMA MinTurn ==
  ASSUME NEW s \in Valid, NEW max \in Player, s.turn # max, NEW sub \in Sub, NEW m \in Table,
         Finds(sub, m), NEW alpha \in Int, NEW beta \in Int,
         NEW D, D = DOMAIN moves(s), NEW f \in [D -> Int],
         \A j \in D : j \in Nat /\ f[j] = m[moves(s)[j]].val /\ ~m[moves(s)[j]].err,
         NEW i \in Nat, NEW u \in Window, MinLoop(u, i, D, f, alpha, beta)
  PROVE  MinLoop(LoopStep(s, max, moves(s), sub, u, i + 1), i + 1, D, f, alpha, beta)
<1>1. s \in State
  BY DEF Valid
<1>2. \A j \in D : j <= i + 1 => j <= i \/ j = i + 1
  OBVIOUS
<1>3. CASE u.stop \/ i + 1 \notin D
  <2>1. LoopStep(s, max, moves(s), sub, u, i + 1) = u
    BY <1>3 DEF LoopStep
  <2>2. CASE u.stop
    BY <2>1, <2>2 DEF MinLoop
  <2>3. CASE ~u.stop
    <3>1. i + 1 \notin D
      BY <1>3, <2>3
    <3>2. \A j \in D : j <= i + 1 => j <= i
      BY <1>2, <3>1
    <3> QED BY <2>1, <2>3, <3>2 DEF MinLoop
  <2> QED BY <2>2, <2>3
<1>4. CASE ~u.stop /\ i + 1 \in D
  <2>1. PICK c \in Valid : c = moves(s)[i + 1] /\ c \in State
    BY <1>1, <1>4, MovesAre
  <2>2. PICK b \in Int : b = u.b /\ b <= beta /\ alpha < b
    BY <1>4 DEF MinLoop, Window
  <2>3. u.a = alpha /\ ~u.err
    BY DEF MinLoop
  <2>4. PICK v \in Val : v = sub[c][alpha][b]
    BY <2>1, <2>2 DEF Sub
  <2>5. PICK x \in Int : x = v.val
    BY Values
  <2>6. PICK y \in Int : y = f[i + 1] /\ y = m[c].val
    BY <1>4, <2>1
  <2>7. Found(v, m[c], alpha, b)
    <3>1. ~m[c].err
      BY <1>4, <2>1
    <3> QED BY <2>1, <2>2, <2>4, <3>1 DEF Finds
  <2>8. /\ ~v.err /\ (y >= b => x >= b) /\ (y <= alpha => x <= alpha)
        /\ alpha < y /\ y < b => x = y
    BY <2>5, <2>6, <2>7 DEF Found
  <2>9. LoopStep(s, max, moves(s), sub, u, i + 1) = Narrowed(FALSE, u, v)
    BY <1>4, <2>1, <2>2, <2>3, <2>4 DEF LoopStep, Narrowed
  <2>10. PICK w \in Window : w = Narrowed(FALSE, u, v)
    BY NarrowedIs
  <2>11. /\ w.err = v.err /\ w.a = u.a /\ (w.stop <=> w.a >= w.b)
         /\ w.b = IF u.b <= v.val THEN u.b ELSE v.val
    BY <2>10, NarrowedIs
  <2>12. /\ w = LoopStep(s, max, moves(s), sub, u, i + 1)
         /\ ~w.err /\ w.a = alpha /\ (w.stop <=> alpha >= w.b)
         /\ w.b = IF b <= x THEN b ELSE x
    BY <2>2, <2>3, <2>5, <2>8, <2>9, <2>10, <2>11
  <2>13. \A j \in D : j <= i => f[j] >= b
    BY <1>4, <2>2 DEF MinLoop
  <2>14. CASE y >= b
    <3>1. w.b = b /\ ~w.stop
      BY <2>2, <2>8, <2>12, <2>14
    <3>2. \A j \in D : j <= i + 1 => f[j] >= b
      BY <1>2, <2>6, <2>13, <2>14
    <3>3. b = beta \/ \E j \in D : f[j] = b
      BY <1>4, <2>2 DEF MinLoop
    <3> QED BY <2>2, <2>12, <3>1, <3>2, <3>3 DEF MinLoop
  <2>15. CASE alpha < y /\ y < b
    <3>1. w.b = y /\ ~w.stop /\ y <= beta
      BY <2>2, <2>8, <2>12, <2>15
    <3>2. \A j \in D : j <= i + 1 => f[j] >= y
      <4> TAKE j \in D
      <4>1. f[j] \in Int
        OBVIOUS
      <4>2. j <= i => f[j] >= y
        BY <2>2, <2>13, <2>15, <4>1
      <4>3. j = i + 1 => f[j] = y
        BY <2>6
      <4> QED BY <1>2, <4>2, <4>3
    <3>3. \E j \in D : f[j] = y
      BY <1>4, <2>6
    <3> QED BY <2>12, <2>15, <3>1, <3>2, <3>3 DEF MinLoop
  <2>16. CASE y <= alpha
    <3>1. w.b <= alpha /\ w.stop /\ w.b <= beta
      BY <2>2, <2>8, <2>12, <2>16
    <3>2. \E j \in D : f[j] <= alpha
      BY <1>4, <2>6, <2>16
    <3> QED BY <2>12, <3>1, <3>2 DEF MinLoop
  <2> QED BY <2>2, <2>14, <2>15, <2>16
<1> QED BY <1>3, <1>4

\* So a node where the other player moves finds its value in its window.
LEMMA MinNode ==
  ASSUME NEW s \in Valid, NEW max \in Player, s.turn # max, ~game_overp(s),
         NEW sub \in Sub, NEW m \in Table, Finds(sub, m), ~NodeValue(s, max, m).err,
         NEW alpha \in Int, NEW beta \in Int, alpha < beta
  PROVE  Found(LoopValue(s, max, SearchLoop(s, max, sub, alpha, beta)),
               NodeValue(s, max, m), alpha, beta)
<1>1. s \in State
  BY DEF Valid
<1>2. PICK N \in Nat : N = NumPits
  BY Rules
<1>3. PICK D \in SUBSET (1 .. N) : D = DOMAIN moves(s)
  BY <1>1, <1>2, MovesAre
<1>4. \A j \in D : moves(s)[j] \in State /\ m[moves(s)[j]] \in Val
  BY <1>1, <1>3, MovesAre DEF Table
<1>5. PICK f : f = [j \in D |-> m[moves(s)[j]].val]
  OBVIOUS
<1>6. f \in [D -> Int] /\ \A j \in D : f[j] = m[moves(s)[j]].val
  BY <1>4, <1>5, Values
<1>7. \A j \in D : j \in Nat /\ ~m[moves(s)[j]].err
  BY <1>1, <1>3, NodeValueIs
<1>8. PICK M \in Int : /\ M = NodeValue(s, max, m).val
                       /\ (\E j \in D : f[j] = M) /\ \A j \in D : f[j] >= M
  <2>1. NodeValue(s, max, m) \in Val
    BY <1>1, NodeValueIs
  <2>2. NodeValue(s, max, m).val \in Int
    BY <2>1, Values
  <2> QED BY <1>1, <1>3, <1>6, <2>2, NodeValueIs
<1>9. PICK w \in [0 .. N -> Window] :
        /\ w[0] = StartWindow(alpha, beta)
        /\ \A i \in 0 .. N - 1 : w[i + 1] = LoopStep(s, max, moves(s), sub, w[i], i + 1)
        /\ SearchLoop(s, max, sub, alpha, beta) = w[N]
  <2>1. \E w \in [0 .. NumPits -> Window] :
           /\ w[0] = StartWindow(alpha, beta)
           /\ \A i \in 0 .. NumPits - 1 : w[i + 1] = LoopStep(s, max, moves(s), sub, w[i], i + 1)
           /\ SearchLoop(s, max, sub, alpha, beta) = w[NumPits]
    BY <1>1, LoopSteps
  <2> QED BY <1>2, <2>1
<1>10. \A i \in 0 .. N : MinLoop(w[i], i, D, f, alpha, beta)
  <2> DEFINE T == {i \in 0 .. N : MinLoop(w[i], i, D, f, alpha, beta)}
  <2>1. 0 \in T
    <3>1. w[0].a = alpha /\ w[0].b = beta /\ ~w[0].err /\ ~w[0].stop
      BY <1>9 DEF StartWindow
    <3>2. \A j \in D : ~(j <= 0)
      OBVIOUS
    <3> QED BY <3>1, <3>2 DEF MinLoop
  <2>2. ASSUME NEW i \in 0 .. N - 1, i \in T PROVE i + 1 \in T
    <3>1. i \in Nat /\ i + 1 \in 0 .. N /\ w[i] \in Window
      OBVIOUS
    <3>2. MinLoop(w[i], i, D, f, alpha, beta)
      BY <2>2
    <3>3. MinLoop(LoopStep(s, max, moves(s), sub, w[i], i + 1), i + 1, D, f, alpha, beta)
      BY <1>3, <1>6, <1>7, <3>1, <3>2, MinTurn
    <3> QED BY <1>9, <3>1, <3>3
  <2> HIDE DEF T
  <2>3. \A i \in 0 .. N : i \in T
    BY <2>1, <2>2, UpTo
  <2> QED BY <2>3 DEF T
<1>11. PICK u \in Window : u = w[N] /\ MinLoop(u, N, D, f, alpha, beta)
  BY <1>10
<1>12. PICK v \in Val : v = LoopValue(s, max, SearchLoop(s, max, sub, alpha, beta))
  BY <1>1, LoopValueIn
<1>13. v = LoopValue(s, max, u)
  BY <1>9, <1>11, <1>12
<1>14. u.b \in Int /\ u.a = alpha /\ ~u.err
  BY <1>11 DEF MinLoop, Window
<1>15. CASE u.stop
  <2>1. v.val = alpha /\ ~v.err
    BY <1>1, <1>13, <1>14, <1>15, LoopValueIs
  <2>2. PICK j \in D : f[j] <= alpha
    BY <1>11, <1>15 DEF MinLoop
  <2>3. M <= alpha
    BY <1>6, <1>8, <2>2
  <2> QED BY <1>8, <1>12, <2>1, <2>3 DEF Found
<1>16. CASE ~u.stop
  <2>1. v.val = u.b /\ ~v.err
    BY <1>1, <1>13, <1>14, <1>16, LoopValueIs
  <2>2. PICK b \in Int : b = u.b /\ b <= beta /\ alpha < b
    BY <1>11, <1>14, <1>16 DEF MinLoop
  <2>3. \A j \in D : f[j] >= b
    BY <1>11, <1>16, <2>2 DEF MinLoop
  <2>4. M >= b
    BY <1>8, <2>3
  <2>5. b = beta \/ M = b
    <3>1. b = beta \/ \E j \in D : f[j] = b
      BY <1>11, <1>16, <2>2 DEF MinLoop
    <3>2. (\E j \in D : f[j] = b) => b >= M
      BY <1>8
    <3> QED BY <2>4, <3>1, <3>2
  <2> QED BY <1>8, <1>12, <2>1, <2>2, <2>4, <2>5 DEF Found
<1> QED BY <1>15, <1>16

\* Down the whole tree: in any window alpha-beta finds what stands for the
\* minimax value, and that value is between *min-wins* and *max-wins*.
Bounded(m) == \A c \in Valid : ~m[c].err => MinWins <= m[c].val /\ m[c].val <= MaxWins

\* By induction on the moves left, at all nodes.
LEMMA Finding ==
  ASSUME NEW d \in Nat, NEW max \in Player, NEW eval \in Evals
  PROVE  \E sub \in Sub, m \in Table :
           /\ Finds(sub, m) /\ Bounded(m)
           /\ \A s \in State, alpha, beta \in Int :
                alpha_beta(s, d, max, eval, alpha, beta) = sub[s][alpha][beta]
           /\ \A s \in State : Minimax(s, d, max, eval) = m[s]
<1>1. PICK ab \in [0 .. d -> Sub] :
        /\ \A c \in State, x, y \in Int : ab[0][c][x][y] = Leaf(eval, c, max)
        /\ \A k \in 0 .. d - 1 : \A c \in State, x, y \in Int :
             ab[k + 1][c][x][y] = IF game_overp(c) THEN Leaf(eval, c, max)
                                  ELSE LoopValue(c, max, SearchLoop(c, max, ab[k], x, y))
        /\ \A s \in State, alpha, beta \in Int :
             alpha_beta(s, d, max, eval, alpha, beta) = ab[d][s][alpha][beta]
  BY Searches
<1>2. PICK mm \in [0 .. d -> Table] :
        /\ \A c \in State : mm[0][c] = Leaf(eval, c, max)
        /\ \A k \in 0 .. d - 1 : \A c \in State :
             mm[k + 1][c] = IF game_overp(c) THEN Leaf(eval, c, max)
                            ELSE NodeValue(c, max, mm[k])
        /\ \A s \in State : Minimax(s, d, max, eval) = mm[d][s]
  BY Minimaxes
<1>3. \A c \in Valid : c \in State
  BY DEF Valid
<1>4. ASSUME NEW c \in Valid, NEW x \in Int, NEW y \in Int, x < y, ~Leaf(eval, c, max).err
      PROVE  Found(Leaf(eval, c, max), Leaf(eval, c, max), x, y)
  BY <1>4 DEF Found
<1>5. \A c \in Valid : ~Leaf(eval, c, max).err =>
        MinWins <= Leaf(eval, c, max).val /\ Leaf(eval, c, max).val <= MaxWins
  BY <1>3, Leaves
<1> DEFINE T == {k \in 0 .. d : Finds(ab[k], mm[k]) /\ Bounded(mm[k])}
<1>6. 0 \in T
  <2>1. Finds(ab[0], mm[0])
    BY <1>1, <1>2, <1>3, <1>4 DEF Finds
  <2>2. Bounded(mm[0])
    BY <1>2, <1>3, <1>5 DEF Bounded
  <2> QED BY <2>1, <2>2
<1>7. ASSUME NEW k \in 0 .. d - 1, k \in T PROVE k + 1 \in T
  <2>1. PICK sub \in Sub, m \in Table : sub = ab[k] /\ m = mm[k] /\ Finds(sub, m) /\ Bounded(m)
    BY <1>7
  <2>2. ASSUME NEW c \in Valid, NEW x \in Int, NEW y \in Int, x < y, ~mm[k + 1][c].err
        PROVE  Found(ab[k + 1][c][x][y], mm[k + 1][c], x, y)
    <3>1. CASE game_overp(c)
      <4>1. ab[k + 1][c][x][y] = Leaf(eval, c, max) /\ mm[k + 1][c] = Leaf(eval, c, max)
        BY <1>1, <1>2, <1>3, <3>1
      <4> QED BY <1>4, <2>2, <4>1
    <3>2. CASE ~game_overp(c)
      <4>1. /\ ab[k + 1][c][x][y] = LoopValue(c, max, SearchLoop(c, max, sub, x, y))
            /\ mm[k + 1][c] = NodeValue(c, max, m)
        BY <1>1, <1>2, <1>3, <2>1, <3>2
      <4>2. ~NodeValue(c, max, m).err
        BY <2>2, <4>1
      <4>3. CASE c.turn = max
        BY <2>1, <2>2, <3>2, <4>1, <4>2, <4>3, MaxNode
      <4>4. CASE c.turn # max
        BY <2>1, <2>2, <3>2, <4>1, <4>2, <4>4, MinNode
      <4> QED BY <4>3, <4>4
    <3> QED BY <3>1, <3>2
  <2>3. ASSUME NEW c \in Valid, ~mm[k + 1][c].err
        PROVE  MinWins <= mm[k + 1][c].val /\ mm[k + 1][c].val <= MaxWins
    <3>1. CASE game_overp(c)
      BY <1>2, <1>3, <1>5, <2>3, <3>1
    <3>2. CASE ~game_overp(c)
      <4>1. c \in State /\ mm[k + 1][c] = NodeValue(c, max, m)
        BY <1>2, <1>3, <2>1, <3>2
      <4>2. PICK i \in DOMAIN moves(c) :
              m[moves(c)[i]].val = NodeValue(c, max, m).val /\ ~m[moves(c)[i]].err
        BY <2>3, <3>2, <4>1, NodeValueIs
      <4>3. moves(c)[i] \in Valid
        BY <4>1, MovesAre
      <4>4. MinWins <= m[moves(c)[i]].val /\ m[moves(c)[i]].val <= MaxWins
        BY <2>1, <4>2, <4>3 DEF Bounded
      <4> QED BY <4>1, <4>2, <4>4
    <3> QED BY <3>1, <3>2
  <2>4. Finds(ab[k + 1], mm[k + 1])
    BY <2>2 DEF Finds
  <2>5. Bounded(mm[k + 1])
    BY <2>3 DEF Bounded
  <2> QED BY <2>4, <2>5
<1>8. d \in T
  <2> HIDE DEF T
  <2>1. \A k \in 0 .. d : k \in T
    BY <1>6, <1>7, UpTo
  <2> QED BY <2>1
<1>9. ab[d] \in Sub /\ mm[d] \in Table
  OBVIOUS
<1> QED BY <1>1, <1>2, <1>8, <1>9

\* With the whole window the search from the top is exact.
LEMMA SearchFinds ==
  ASSUME NEW s \in Valid, NEW d \in Nat, NEW max \in Player, NEW eval \in Evals,
         ~Minimax(s, d, max, eval).err
  PROVE  /\ Search(s, d, max, eval) = Minimax(s, d, max, eval)
         /\ Minimax(s, d, max, eval) \in Val
         /\ MinWins <= Minimax(s, d, max, eval).val /\ Minimax(s, d, max, eval).val <= MaxWins
<1>1. s \in State
  BY DEF Valid
<1>2. PICK sub \in Sub, m \in Table :
        /\ Finds(sub, m) /\ Bounded(m)
        /\ \A c \in State, alpha, beta \in Int :
             alpha_beta(c, d, max, eval, alpha, beta) = sub[c][alpha][beta]
        /\ \A c \in State : Minimax(c, d, max, eval) = m[c]
  BY Finding
<1>3. MinWins \in Int /\ MaxWins \in Int
  BY Rules
<1>4. PICK u \in Val, v \in Val : u = m[s] /\ v = sub[s][MinWins][MaxWins]
  BY <1>1, <1>3 DEF Sub, Table
<1>5. u = Minimax(s, d, max, eval) /\ v = Search(s, d, max, eval)
  BY <1>1, <1>2, <1>3, <1>4 DEF Search
<1>6. PICK x \in Int, y \in Int : x = u.val /\ y = v.val
  BY Values
<1>7. ~u.err /\ MinWins <= x /\ x <= MaxWins
  <2>1. ~u.err
    BY <1>5
  <2>2. ~m[s].err => MinWins <= m[s].val /\ m[s].val <= MaxWins
    BY <1>2 DEF Bounded
  <2> QED BY <1>4, <1>6, <2>1, <2>2
<1>8. MinWins < MaxWins
  <2>1. PICK c \in Nat : c = 2 * NumPits * InitialStones
    BY Rules
  <2>2. PICK N \in Nat : N = NumPits
    BY Rules
  <2>3. (N + 1) * c = N * c + c /\ N * c >= 0 /\ N * c \in Int
    OBVIOUS
  <2>4. MinWins < -(2 * N + (N + 1) * c) /\ MaxWins > 2 * N + (N + 1) * c
    BY <2>1, <2>2, RulesAssumption
  <2> QED BY <1>3, <2>3, <2>4
<1>9. Found(v, u, MinWins, MaxWins)
  BY <1>2, <1>3, <1>4, <1>7, <1>8 DEF Finds
<1>10. ~v.err /\ x = y
  <2>1. PICK lo \in Int, hi \in Int : lo = MinWins /\ hi = MaxWins
    BY <1>3
  <2>2. /\ ~v.err /\ (x <= lo => y <= lo) /\ (x >= hi => y >= hi)
        /\ (lo < x /\ x < hi => y = x) /\ (y = x \/ (lo <= y /\ y <= hi))
    BY <1>6, <1>9, <2>1 DEF Found
  <2> QED BY <1>7, <1>8, <2>1, <2>2
<1>11. u = v
  <2>1. u = Value(u.val) /\ v = Value(v.val)
    BY <1>7, <1>10, Values
  <2> QED BY <1>6, <1>10, <2>1
<1> QED BY <1>5, <1>6, <1>7, <1>11

-----------------------------------------------------------------------------
(* The computer's move. *)

Best == [kind : {"nil", "state", "error"}, s : State, val : Int]
Nothing(s) == [kind |-> "nil", s |-> s, val |-> MinWins]

\* One turn of the loop of computer-make-move.
BestStep(s, maxd, b, i) ==
  IF b.kind = "error" \/ i \notin DOMAIN moves(s) THEN b
  ELSE LET v == Search(moves(s)[i], maxd, s.turn, "evaluate")
       IN  IF v.err THEN [b EXCEPT !.kind = "error"]
           ELSE IF v.val > b.val THEN [kind |-> "state", s |-> moves(s)[i], val |-> v.val]
           ELSE b

Bests(f, s, maxd) ==
  f = [i \in 0 .. NumPits |-> IF i = 0 THEN Nothing(s) ELSE BestStep(s, maxd, f[i - 1], i)]

\* The search of a child has a value.
LEMMA SearchIn ==
  ASSUME NEW s \in State, NEW d \in Nat, NEW max \in Player
  PROVE  Search(s, d, max, "evaluate") \in Val
<1>1. PICK eval \in Evals : eval = "evaluate"
  BY DEF Evals
<1>2. PICK sub \in Sub : \A alpha, beta \in Int : alpha_beta(s, d, max, eval, alpha, beta) = sub[s][alpha][beta]
  BY Finding
<1>3. MinWins \in Int /\ MaxWins \in Int
  BY Rules
<1>4. sub[s][MinWins][MaxWins] \in Val
  BY <1>3 DEF Sub
<1> QED BY <1>1, <1>2, <1>3, <1>4 DEF Search

\* A turn of the loop keeps a best child.
LEMMA BestStepIn ==
  ASSUME NEW s \in State, NEW maxd \in Nat, NEW b \in Best, NEW i
  PROVE  BestStep(s, maxd, b, i) \in Best
<1>1. CASE b.kind = "error" \/ i \notin DOMAIN moves(s)
  BY <1>1 DEF BestStep
<1>2. CASE ~(b.kind = "error" \/ i \notin DOMAIN moves(s))
  <2>1. PICK c \in State : c = moves(s)[i]
    BY <1>2, MovesAre
  <2>2. s.turn \in Player
    BY DEF State
  <2>3. PICK v \in Val : v = Search(c, maxd, s.turn, "evaluate")
    BY <2>2, SearchIn
  <2>4. v.val \in Int
    BY Values
  <2>5. [b EXCEPT !.kind = "error"] \in Best
    BY DEF Best
  <2>6. [kind |-> "state", s |-> c, val |-> v.val] \in Best
    BY <2>4 DEF Best
  <2>7. BestStep(s, maxd, b, i) \in {[b EXCEPT !.kind = "error"], b,
                                     [kind |-> "state", s |-> c, val |-> v.val]}
    BY <1>2, <2>1, <2>3 DEF BestStep
  <2> QED BY <2>5, <2>6, <2>7
<1> QED BY <1>1, <1>2

\* BestChild is the end of the loop, turn by turn.
LEMMA BestSteps ==
  ASSUME NEW s \in State, NEW maxd \in Nat
  PROVE  \E f \in [0 .. NumPits -> Best] :
           /\ f[0] = Nothing(s)
           /\ \A i \in 0 .. NumPits - 1 : f[i + 1] = BestStep(s, maxd, f[i], i + 1)
           /\ BestChild(s, maxd) = f[NumPits]
<1>1. PICK n \in Nat : n = NumPits
  BY Rules
<1> DEFINE f == CHOOSE best : best = [i \in 0 .. NumPits |->
                  IF i = 0 THEN [kind |-> "nil", s |-> s, val |-> MinWins]
                  ELSE LET b == best[i - 1]
                       IN  IF b.kind = "error" \/ i \notin DOMAIN moves(s) THEN b
                           ELSE LET v == Search(moves(s)[i], maxd, s.turn, "evaluate")
                                IN  IF v.err THEN [b EXCEPT !.kind = "error"]
                                    ELSE IF v.val > b.val
                                         THEN [kind |-> "state", s |-> moves(s)[i], val |-> v.val]
                                         ELSE b]
           G == [i \in 1 .. n |-> [b \in Best |-> BestStep(s, maxd, b, i)]]
<1>2. BestChild(s, maxd) = f[NumPits]
  BY DEF BestChild
<1>3. f = CHOOSE g : Bests(g, s, maxd)
  BY DEF Bests, Nothing, BestStep
<1> HIDE DEF f
<1>4. Nothing(s) \in Best
  BY Rules DEF Nothing, Best
<1>5. /\ G \in [1 .. n -> [Best -> Best]]
      /\ \A i \in 1 .. n : \A b \in Best : G[i][b] = BestStep(s, maxd, b, i)
  <2>1. \A i \in 1 .. n, b \in Best : BestStep(s, maxd, b, i) \in Best
    BY BestStepIn
  <2> QED BY <2>1
<1> HIDE DEF G
<1>6. PICK g \in [0 .. n -> Best] : Goes(g, n, Nothing(s), G)
  BY <1>4, <1>5, Recursion
<1>7. \A i \in 1 .. n : g[i] = BestStep(s, maxd, g[i - 1], i)
  <2> TAKE i \in 1 .. n
  <2>1. g[i - 1] \in Best
    OBVIOUS
  <2>2. g[i] = G[i][g[i - 1]]
    BY <1>6 DEF Goes
  <2> QED BY <1>5, <2>1, <2>2
<1>8. Bests(g, s, maxd)
  <2>1. g[0] = Nothing(s)
    BY <1>6 DEF Goes
  <2> QED BY <1>1, <1>7, <2>1 DEF Bests
<1>9. Bests(f, s, maxd)
  BY <1>3, <1>8
<1>10. \A i \in 0 .. n : f[i] = IF i = 0 THEN Nothing(s) ELSE BestStep(s, maxd, f[i - 1], i)
  BY <1>1, <1>9 DEF Bests
<1>11. f[0] = Nothing(s)
  BY <1>10
<1>12. ASSUME NEW i \in 0 .. n - 1 PROVE f[i + 1] = BestStep(s, maxd, f[i], i + 1)
  <2>1. i + 1 \in 0 .. n /\ i + 1 # 0 /\ (i + 1) - 1 = i
    OBVIOUS
  <2> QED BY <1>10, <2>1
<1>13. \A i \in 0 .. n : f[i] \in Best
  <2> DEFINE T == {i \in 0 .. n : f[i] \in Best}
  <2>1. 0 \in T
    BY <1>4, <1>11
  <2>2. ASSUME NEW i \in 0 .. n - 1, i \in T PROVE i + 1 \in T
    BY <1>12, <2>2, BestStepIn
  <2> HIDE DEF T
  <2>3. \A i \in 0 .. n : i \in T
    BY <2>1, <2>2, UpTo
  <2> QED BY <2>3 DEF T
<1>14. f \in [0 .. n -> Best]
  BY <1>1, <1>9, <1>13 DEF Bests
<1> QED BY <1>1, <1>2, <1>11, <1>12, <1>14

\* Where it moves, it moves to a child.
LEMMA MovesToChild ==
  ASSUME NEW s \in State, NEW maxd \in Nat, computer_make_move(s, maxd).kind = "state"
  PROVE  \E i \in DOMAIN moves(s) : computer_make_move(s, maxd).s = moves(s)[i]
<1>1. PICK n \in Nat : n = NumPits
  BY Rules
<1>2. ~game_overp(s) /\ computer_make_move(s, maxd) = BestChild(s, maxd)
  BY DEF computer_make_move
<1>3. PICK f \in [0 .. n -> Best] :
        /\ f[0] = Nothing(s)
        /\ \A i \in 0 .. n - 1 : f[i + 1] = BestStep(s, maxd, f[i], i + 1)
        /\ BestChild(s, maxd) = f[n]
  <2>1. \E f \in [0 .. NumPits -> Best] :
           /\ f[0] = Nothing(s)
           /\ \A i \in 0 .. NumPits - 1 : f[i + 1] = BestStep(s, maxd, f[i], i + 1)
           /\ BestChild(s, maxd) = f[NumPits]
    BY BestSteps
  <2> QED BY <1>1, <2>1
<1> DEFINE T == {k \in 0 .. n : f[k].kind = "state" =>
                                  \E i \in DOMAIN moves(s) : f[k].s = moves(s)[i]}
<1>4. 0 \in T
  BY <1>3 DEF Nothing
<1>5. ASSUME NEW k \in 0 .. n - 1, k \in T PROVE k + 1 \in T
  <2>1. PICK b \in Best : b = f[k]
    OBVIOUS
  <2>2. PICK c : c = BestStep(s, maxd, b, k + 1) /\ c = f[k + 1]
    BY <1>3, <2>1
  <2>3. b.kind = "state" => \E i \in DOMAIN moves(s) : b.s = moves(s)[i]
    BY <1>5, <2>1
  <2>4. c.kind = "state" => \E i \in DOMAIN moves(s) : c.s = moves(s)[i]
    <3>1. PICK v : v = Search(moves(s)[k + 1], maxd, s.turn, "evaluate")
      OBVIOUS
    <3>2. \/ c = b
          \/ c = [b EXCEPT !.kind = "error"]
          \/ k + 1 \in DOMAIN moves(s) /\ c = [kind |-> "state", s |-> moves(s)[k + 1], val |-> v.val]
      BY <2>2, <3>1 DEF BestStep
    <3>3. CASE c = b
      BY <2>3, <3>3
    <3>4. CASE c = [b EXCEPT !.kind = "error"]
      BY <3>4 DEF Best
    <3>5. CASE k + 1 \in DOMAIN moves(s) /\ c = [kind |-> "state", s |-> moves(s)[k + 1], val |-> v.val]
      BY <3>5
    <3> QED BY <3>2, <3>3, <3>4, <3>5
  <2> QED BY <2>2, <2>4
<1>6. n \in T
  <2> HIDE DEF T
  <2>1. \A k \in 0 .. n : k \in T
    BY <1>4, <1>5, UpTo
  <2> QED BY <2>1
<1> QED BY <1>2, <1>3, <1>6

\* The loop where no leaf fails: the best child so far, which is not lost, and
\* none better before it; while there is none, all the children were lost.
BestLoop(b, i, D, s, f) ==
  /\ b.kind # "error"
  /\ b.kind = "nil" => b.val = MinWins /\ \A j \in D : j <= i => f[j] = MinWins
  /\ b.kind = "state" => /\ MinWins < b.val
                         /\ \E j \in D : b.s = moves(s)[j] /\ b.val = f[j]
                         /\ \A j \in D : j <= i => f[j] <= b.val

\* A turn of the loop keeps this.
LEMMA BestTurn ==
  ASSUME NEW s \in State, NEW maxd \in Nat, NEW D, D = DOMAIN moves(s), NEW f \in [D -> Int],
         \A j \in D : /\ j \in Nat /\ MinWins <= f[j]
                      /\ Search(moves(s)[j], maxd, s.turn, "evaluate") = Value(f[j]),
         NEW i \in Nat, NEW b \in Best, BestLoop(b, i, D, s, f)
  PROVE  BestLoop(BestStep(s, maxd, b, i + 1), i + 1, D, s, f)
<1>1. \A j \in D : j <= i + 1 => j <= i \/ j = i + 1
  OBVIOUS
<1>2. PICK c : c = BestStep(s, maxd, b, i + 1)
  OBVIOUS
<1>3. PICK lo \in Int, z \in Int : lo = MinWins /\ z = b.val
  BY Rules DEF Best
<1>4. b.kind \in {"nil", "state"}
  BY DEF BestLoop, Best
<1>5. CASE i + 1 \notin D
  <2>1. c = b
    BY <1>2, <1>5 DEF BestStep
  <2>2. \A j \in D : j <= i + 1 => j <= i
    BY <1>1, <1>5
  <2> QED BY <1>2, <2>1, <2>2 DEF BestLoop
<1>6. CASE i + 1 \in D
  <2>1. PICK x \in Int : x = f[i + 1]
    BY <1>6
  <2>2. Search(moves(s)[i + 1], maxd, s.turn, "evaluate") = Value(x) /\ lo <= x
    BY <1>3, <1>6, <2>1
  <2>3. Value(x).val = x /\ ~Value(x).err
    BY Values
  <2>4. CASE x > z
    <3>1. c = [kind |-> "state", s |-> moves(s)[i + 1], val |-> x]
      BY <1>2, <1>3, <1>4, <1>6, <2>2, <2>3, <2>4 DEF BestStep
    <3>2. \A j \in D : j <= i => f[j] <= z
      <4>1. CASE b.kind = "nil"
        BY <1>3, <4>1 DEF BestLoop
      <4>2. CASE b.kind = "state"
        BY <1>3, <4>2 DEF BestLoop
      <4> QED BY <1>4, <4>1, <4>2
    <3>3. \A j \in D : j <= i + 1 => f[j] <= x
      <4> TAKE j \in D
      <4>1. f[j] \in Int
        OBVIOUS
      <4>2. j <= i => f[j] <= x
        BY <2>4, <3>2, <4>1
      <4>3. j = i + 1 => f[j] = x
        BY <2>1
      <4> QED BY <1>1, <4>2, <4>3
    <3>4. c.kind = "state" /\ c.s = moves(s)[i + 1] /\ c.val = x
      BY <3>1
    <3>5. lo <= z
      <4>1. CASE b.kind = "nil"
        BY <1>3, <4>1 DEF BestLoop
      <4>2. CASE b.kind = "state"
        BY <1>3, <4>2 DEF BestLoop
      <4> QED BY <1>4, <4>1, <4>2
    <3>6. MinWins < x
      BY <1>3, <2>4, <3>5
    <3> QED BY <1>2, <1>6, <2>1, <3>3, <3>4, <3>6 DEF BestLoop
  <2>5. CASE ~(x > z)
    <3>1. c = b
      BY <1>2, <1>3, <1>4, <1>6, <2>2, <2>3, <2>5 DEF BestStep
    <3>2. CASE b.kind = "nil"
      <4>1. z = lo /\ \A j \in D : j <= i => f[j] = lo
        BY <1>3, <3>2 DEF BestLoop
      <4>2. x = lo
        BY <2>2, <2>5, <4>1
      <4>3. \A j \in D : j <= i + 1 => f[j] = lo
        BY <1>1, <2>1, <4>1, <4>2
      <4> QED BY <1>2, <1>3, <3>1, <3>2, <4>1, <4>3 DEF BestLoop
    <3>3. CASE b.kind = "state"
      <4>1. \A j \in D : j <= i => f[j] <= z
        BY <1>3, <3>3 DEF BestLoop
      <4>2. \A j \in D : j = i + 1 => f[j] <= z
        BY <2>1, <2>5
      <4>3. \A j \in D : j <= i + 1 => f[j] <= z
        BY <1>1, <4>1, <4>2
      <4>4. MinWins < b.val /\ \E j \in D : b.s = moves(s)[j] /\ b.val = f[j]
        BY <3>3 DEF BestLoop
      <4> QED BY <1>2, <1>3, <3>1, <3>3, <4>3, <4>4 DEF BestLoop
    <3> QED BY <1>4, <3>2, <3>3
  <2> QED BY <2>4, <2>5
<1> QED BY <1>5, <1>6

\* At its end: a best child; nil exactly where all are lost or there is none.
LEMMA BestMove ==
  ASSUME NEW s \in Valid, NEW d \in Nat,
         \A c \in Range(moves(s)) : ~Minimax(c, d, s.turn, "evaluate").err
  PROVE  LET o == computer_make_move(s, d)
         IN  /\ o.kind = "nil" <=>
                  \/ game_overp(s)
                  \/ \A c \in Range(moves(s)) : Minimax(c, d, s.turn, "evaluate").val = MinWins
             /\ o.kind # "nil" =>
                  /\ o.kind = "state" /\ o.s \in Range(moves(s))
                  /\ \A c \in Range(moves(s)) : Minimax(c, d, s.turn, "evaluate").val
                                                  <= Minimax(o.s, d, s.turn, "evaluate").val
<1>1. s \in State /\ s.turn \in Player
  BY DEF Valid, State
<1>2. PICK N \in Nat : N = NumPits
  BY Rules
<1>3. PICK D \in SUBSET (1 .. N) : D = DOMAIN moves(s)
  BY <1>1, <1>2, MovesAre
<1>4. Range(moves(s)) = {moves(s)[j] : j \in D}
  BY <1>3 DEF Range
<1>5. PICK o : o = computer_make_move(s, d)
  OBVIOUS
<1>6. CASE game_overp(s)
  <2>1. o = Nothing(s)
    BY <1>5, <1>6 DEF computer_make_move, Nothing
  <2>2. o.kind = "nil"
    BY <2>1 DEF Nothing
  <2> QED BY <1>5, <1>6, <2>2
<1>7. CASE ~game_overp(s)
  <2>1. o = BestChild(s, d)
    BY <1>5, <1>7 DEF computer_make_move
  <2>2. PICK w \in [0 .. N -> Best] :
          /\ w[0] = Nothing(s)
          /\ \A i \in 0 .. N - 1 : w[i + 1] = BestStep(s, d, w[i], i + 1)
          /\ BestChild(s, d) = w[N]
    <3>1. \E w \in [0 .. NumPits -> Best] :
             /\ w[0] = Nothing(s)
             /\ \A i \in 0 .. NumPits - 1 : w[i + 1] = BestStep(s, d, w[i], i + 1)
             /\ BestChild(s, d) = w[NumPits]
      BY <1>1, BestSteps
    <3> QED BY <1>2, <3>1
  <2>3. PICK f : f = [j \in D |-> Minimax(moves(s)[j], d, s.turn, "evaluate").val]
    OBVIOUS
  <2>4. ASSUME NEW j \in D
        PROVE  /\ f[j] \in Int /\ f[j] = Minimax(moves(s)[j], d, s.turn, "evaluate").val
               /\ j \in Nat /\ MinWins <= f[j]
               /\ Search(moves(s)[j], d, s.turn, "evaluate") = Value(f[j])
    <3>1. PICK c \in Valid, p \in Player, e \in Evals :
            c = moves(s)[j] /\ p = s.turn /\ e = "evaluate"
      BY <1>1, <1>3, MovesAre DEF Evals
    <3>2. PICK v : v = Minimax(c, d, p, e)
      OBVIOUS
    <3>3. ~v.err
      BY <1>4, <3>1, <3>2
    <3>4. ~Minimax(c, d, p, e).err
      BY <3>2, <3>3
    <3>5. Search(c, d, p, e) = v /\ v \in Val /\ MinWins <= v.val
      BY <3>2, <3>4, SearchFinds
    <3>6. f[j] = v.val /\ v.val \in Int /\ v = Value(v.val)
      BY <2>3, <3>1, <3>2, <3>3, <3>5, Values
    <3> QED BY <3>1, <3>2, <3>5, <3>6
  <2>5. f \in [D -> Int]
    BY <2>3, <2>4
  <2>6. \A i \in 0 .. N : BestLoop(w[i], i, D, s, f)
    <3> DEFINE T == {i \in 0 .. N : BestLoop(w[i], i, D, s, f)}
    <3>1. 0 \in T
      <4>1. w[0].kind = "nil" /\ w[0].val = MinWins
        BY <2>2 DEF Nothing
      <4>2. \A j \in D : ~(j <= 0)
        OBVIOUS
      <4> QED BY <4>1, <4>2 DEF BestLoop
    <3>2. ASSUME NEW i \in 0 .. N - 1, i \in T PROVE i + 1 \in T
      <4>1. i \in Nat /\ i + 1 \in 0 .. N
        OBVIOUS
      <4>2. PICK b \in Best : b = w[i] /\ BestLoop(b, i, D, s, f)
        BY <3>2
      <4>3. BestLoop(BestStep(s, d, b, i + 1), i + 1, D, s, f)
        BY <1>1, <1>3, <2>4, <2>5, <4>1, <4>2, BestTurn
      <4> QED BY <2>2, <4>1, <4>2, <4>3
    <3> HIDE DEF T
    <3>3. \A i \in 0 .. N : i \in T
      BY <3>1, <3>2, UpTo
    <3> QED BY <3>3 DEF T
  <2>7. PICK b \in Best : b = o /\ BestLoop(b, N, D, s, f)
    BY <2>1, <2>2, <2>6
  <2>8. \A j \in D : j <= N
    OBVIOUS
  <2>9. CASE o.kind = "state"
    <3>1. PICK j \in D : b.s = moves(s)[j] /\ b.val = f[j]
      BY <2>7, <2>9 DEF BestLoop
    <3>2. \A i \in D : f[i] <= b.val
      BY <2>7, <2>8, <2>9 DEF BestLoop
    <3>3. b.val = Minimax(o.s, d, s.turn, "evaluate").val
      BY <2>4, <2>7, <3>1
    <3>4. o.s \in Range(moves(s))
      BY <1>4, <2>7, <3>1
    <3>5. \A c \in Range(moves(s)) : Minimax(c, d, s.turn, "evaluate").val
                                       <= Minimax(o.s, d, s.turn, "evaluate").val
      BY <1>4, <2>4, <3>2, <3>3
    <3>6. Minimax(o.s, d, s.turn, "evaluate").val # MinWins
      <4>1. b.val \in Int /\ MinWins < b.val
        BY <2>7, <2>9, Rules DEF BestLoop, Best
      <4>2. b.val # MinWins
        BY <4>1, Rules
      <4> QED BY <3>3, <4>2
    <3> QED BY <1>5, <1>7, <2>9, <3>4, <3>5, <3>6
  <2>10. CASE o.kind # "state"
    <3>1. o.kind = "nil" /\ \A j \in D : f[j] = MinWins
      BY <2>7, <2>8, <2>10 DEF BestLoop, Best
    <3>2. \A c \in Range(moves(s)) : Minimax(c, d, s.turn, "evaluate").val = MinWins
      BY <1>4, <2>4, <3>1
    <3> QED BY <1>5, <3>1, <3>2
  <2> QED BY <2>9, <2>10
<1> QED BY <1>6, <1>7

-----------------------------------------------------------------------------
(* What holds in every game. *)

\* In every reachable state all the stones of the game are on the board, and
\* each player searches to one of the depths.
GameInv ==
  /\ st \in Valid /\ depth \in [Player -> MaxDepths] /\ game \in {0, 1, 2}

\* The distance is a natural number: it cannot go down for ever.
LEMMA DistanceNat ==
  ASSUME NEW s \in State
  PROVE  Distance(s) \in Nat
<1>1. PICK b \in Board, all \in Nat : b = s.board /\ all = Stones(s)
  BY StonesCount, CountNat
<1>2. \A x \in Pit : b[x] \in Nat /\ Worth(x, all) \in Nat
  BY Worths DEF Board
<1>3. \A x \in Pit : Weighted(b, all)[x] >= 0
  <2> TAKE x \in Pit
  <2>1. PICK v \in Nat, w \in Nat : v = b[x] /\ w = Worth(x, all)
    BY <1>2
  <2>2. v * w >= 0
    OBVIOUS
  <2> QED BY <2>1, <2>2, WeightedInt
<1>4. Size \in Nat /\ Pit = 0 .. Size - 1
  BY Rules
<1>5. Weighted(b, all) \in [0 .. Size - 1 -> Int] /\ \A i \in 0 .. Size - 1 : Weighted(b, all)[i] >= 0
  BY <1>3, <1>4, WeightedInt
<1>6. SumTo(Weighted(b, all), Size) \in Nat
  BY <1>4, <1>5, SumBounds
<1> QED BY <1>1, <1>6, StonesCount DEF Dist

\* Any move: the stones stay and the distance goes down to a smaller number.
LEMMA MoveBrings ==
  ASSUME NEW s \in Valid, NEW n \in 0 .. NumPits - 1, CanSow(s, n)
  PROVE  /\ state_from_move(s, n) \in Valid
         /\ Stones(state_from_move(s, n)) = Stones(s)
         /\ Distance(state_from_move(s, n)) \in 0 .. Distance(s) - 1
<1>1. s \in State
  BY DEF Valid
<1>2. PICK c \in State : c = state_from_move(s, n)
  BY <1>1, MoveAdvances
<1>3. PICK x \in Nat, y \in Nat : x = Distance(s) /\ y = Distance(c)
  BY <1>1, DistanceNat
<1>4. y < x /\ Stones(c) = Stones(s) /\ c \in Valid
  BY <1>1, <1>2, <1>3, MoveAdvances, MoveValid
<1>5. y \in 0 .. x - 1
  BY <1>4
<1> QED BY <1>2, <1>3, <1>4, <1>5

\* So does the computer's.
LEMMA MovesToValid ==
  ASSUME NEW s \in Valid, NEW d \in Nat, computer_make_move(s, d).kind = "state"
  PROVE  /\ computer_make_move(s, d).s \in Valid
         /\ Stones(computer_make_move(s, d).s) = Stones(s)
         /\ Distance(computer_make_move(s, d).s) \in 0 .. Distance(s) - 1
<1>1. s \in State
  BY DEF Valid
<1>2. PICK i \in DOMAIN moves(s) : computer_make_move(s, d).s = moves(s)[i]
  BY <1>1, MovesToChild
<1>3. PICK n \in 0 .. NumPits - 1 :
        CanSow(s, n) /\ computer_make_move(s, d).s = state_from_move(s, n)
  BY <1>1, <1>2, MovesAre
<1> QED BY <1>3, MoveBrings

\* What each step does to the state of the game (the whole of Next): a move, or
\* the start of the second game of a tournament.
LEMMA StepOfGame ==
  ASSUME GameInv, [Next]_vars
  PROVE  /\ GameInv'
         /\ st' # st /\ game' = game =>
              Stones(st') = Stones(st) /\ Distance(st') \in 0 .. Distance(st) - 1
<1>1. st.turn \in Player /\ depth[st.turn] \in Nat
  <2>1. st.turn \in Player
    BY DEF GameInv, Valid, State
  <2> QED BY <2>1, Rules DEF GameInv
<1>2. CASE human_make_move
  <2>1. depth' = depth /\ game' = game
    BY <1>2 DEF human_make_move
  <2>2. ASSUME NEW n \in 0 .. NumPits - 1, CanSow(st, n), st' = state_from_move(st, n)
        PROVE  /\ GameInv'
               /\ Stones(st') = Stones(st) /\ Distance(st') \in 0 .. Distance(st) - 1
    BY <2>1, <2>2, MoveBrings DEF GameInv
  <2>3. CASE st' = st
    BY <2>1, <2>3 DEF GameInv
  <2> QED BY <1>2, <2>2, <2>3 DEF human_make_move
<1>3. CASE other_make_move
  <2>1. PICK n \in 0 .. NumPits - 1 : CanSow(st, n) /\ st' = state_from_move(st, n)
    BY <1>3 DEF other_make_move
  <2>2. depth' = depth /\ game' = game
    BY <1>3 DEF other_make_move
  <2> QED BY <2>1, <2>2, MoveBrings DEF GameInv
<1>4. CASE computer_moves
  <2>1. depth' = depth /\ game' = game
    BY <1>4 DEF computer_moves
  <2>2. CASE /\ computer_make_move(st, depth[st.turn]).kind = "state"
             /\ st' = computer_make_move(st, depth[st.turn]).s
    BY <1>1, <2>1, <2>2, MovesToValid DEF GameInv
  <2>3. CASE st' = st
    BY <2>1, <2>3 DEF GameInv
  <2> QED BY <1>4, <2>2, <2>3 DEF computer_moves
<1>5. CASE end_of_game
  <2>1. depth' = depth
    BY <1>5 DEF end_of_game
  <2>2. CASE game = 0
    BY <1>5, <2>1, <2>2 DEF end_of_game, GameInv
  <2>3. CASE game = 1
    <3>1. st' = init_state(1) /\ game' = 2
      BY <1>5, <2>3 DEF end_of_game
    <3>2. init_state(1) \in Valid
      BY InitialState DEF Player
    <3> QED BY <2>1, <2>3, <3>1, <3>2 DEF GameInv
  <2>4. CASE game = 2
    BY <1>5, <2>1, <2>4 DEF end_of_game, GameInv
  <2> QED BY <2>2, <2>3, <2>4 DEF GameInv
<1>6. CASE Stopped \/ UNCHANGED vars
  BY <1>6 DEF Stopped, vars, GameInv
<1> QED BY <1>2, <1>3, <1>4, <1>5, <1>6 DEF Next

\* Every game is played with all of its stones (init-state, state-from-move).
THEOREM StonesStay == Spec => []GameInv
<1>1. Init => GameInv
  <2> SUFFICES ASSUME Init PROVE GameInv
    OBVIOUS
  <2>1. \A p \in Player : init_state(p) \in Valid
    BY InitialState
  <2>2. 0 \in Player
    BY DEF Player
  <2> QED BY <2>1, <2>2 DEF Init, GameInv
<1>2. GameInv /\ [Next]_vars => GameInv'
  BY StepOfGame
<1> QED BY <1>1, <1>2, PTL DEF Spec

\* Every move keeps the stones and carries them nearer to the mancalas, by any
\* rules, with any player: so no game goes on for ever (state-from-move).
THEOREM GamesAdvance == Spec => MovesAdvance
<1>1. GameInv /\ [Next]_vars =>
        [st' # st /\ game' = game =>
           Stones(st') = Stones(st) /\ Distance(st') \in 0 .. Distance(st) - 1]_vars
  BY StepOfGame
<1> QED BY <1>1, StonesStay, PTL DEF Spec, MovesAdvance

\* alpha-beta from the top finds the minimax value, for every board, with both
\* ways to value a leaf, to every depth, wherever no leaf of the tree fails.
THEOREM SearchIsMinimax == Spec => []AlphaBetaIsMinimax
<1>1. GameInv => AlphaBetaIsMinimax
  <2> SUFFICES ASSUME GameInv, NEW d \in MaxDepths, NEW p \in Player,
                      NEW eval \in {"evaluate", "score"}, ~Minimax(st, d, p, eval).err
               PROVE  Search(st, d, p, eval) = Minimax(st, d, p, eval)
    BY DEF AlphaBetaIsMinimax
  <2>1. st \in Valid /\ d \in Nat /\ eval \in Evals
    BY Rules DEF GameInv, Evals
  <2> QED BY <2>1, SearchFinds
<1> QED BY <1>1, StonesStay, PTL

\* computer-make-move returns nil exactly where the game is over or every
\* child is lost, and otherwise plays a child that no other beats.
THEOREM ComputerPlaysBest == Spec => []PlaysBest
<1>1. GameInv => PlaysBest
  <2> SUFFICES ASSUME GameInv, NEW d \in MaxDepths,
                      \A c \in Range(moves(st)) : ~Minimax(c, d, st.turn, "evaluate").err
               PROVE  LET o == computer_make_move(st, d)
                      IN  /\ o.kind = "nil" <=>
                               \/ game_overp(st)
                               \/ \A c \in Range(moves(st)) :
                                    Minimax(c, d, st.turn, "evaluate").val = MinWins
                          /\ o.kind # "nil" =>
                               /\ o.kind = "state" /\ o.s \in Range(moves(st))
                               /\ \A c \in Range(moves(st)) :
                                    Minimax(c, d, st.turn, "evaluate").val
                                      <= Minimax(o.s, d, st.turn, "evaluate").val
    BY DEF PlaysBest
  <2>1. st \in Valid /\ d \in Nat
    BY Rules DEF GameInv
  <2> QED BY <2>1, BestMove
<1> QED BY <1>1, StonesStay, PTL
=============================================================================
