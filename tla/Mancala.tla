------------------------------ MODULE Mancala ------------------------------
(***************************************************************************)
(* The mancala game of Projects/Mancala: the rules and the drivers of      *)
(* mancala.lisp (play-game, tournament) and the computer player of         *)
(* Nick-Wilfong.lisp (evaluate, alpha-beta, computer-make-move).           *)
(*                                                                         *)
(* A state of the game is a record [board, turn] as in the code; a board   *)
(* is a function on 0 .. board-size - 1.  A Lisp error (a symbol with no   *)
(* value, an index out of range) is an outcome of its own: it leaves the   *)
(* loop that plays the game.  The functions that tournament is given are   *)
(* parameters of it: "other" is any of them that returns a move while      *)
(* there is one.                                                           *)
(***************************************************************************)
EXTENDS Integers, FiniteSetsExt

CONSTANTS
    NumPits,            \* *num-pits*
    InitialStones,      \* *initial-stones-per-pit*
    GoAgainRule,        \* *go-again-rule*
    BigWinRule,         \* *big-win-rule*
    MaxWins, MinWins,   \* *max-wins*, *min-wins*
    MaxDepths           \* the depths that the player is called with

\* *min-wins* and *max-wins* are beyond anything evaluate adds up: a score, two
\* for each pit, and for each pit all the stones there are.
ASSUME RulesAssumption ==
    /\ NumPits \in Nat \ {0} /\ InitialStones \in Nat
    /\ GoAgainRule \in BOOLEAN /\ BigWinRule \in BOOLEAN
    /\ MaxDepths \subseteq Nat /\ MinWins \in Int /\ MaxWins \in Int
    /\ MinWins < -(2 * NumPits + (NumPits + 1) * (2 * NumPits * InitialStones))
    /\ MaxWins > 2 * NumPits + (NumPits + 1) * (2 * NumPits * InitialStones)

VARIABLES
    st,       \* the state of the game in play
    funcs,    \* who chooses the moves of player 0 and of player 1
    depth,    \* the depth to which each player's function is to search
    game,     \* 0 in play-game, 1 and 2 in the games of a tournament
    total,    \* the score of game 1 of a tournament, then of both
    result    \* "playing", "done" or "error"

vars == <<st, funcs, depth, game, total, result>>

Player == {0, 1}
Pit == 0 .. 2 * NumPits + 1
State == [board : [Pit -> Nat], turn : Player]

\* f[0] + ... + f[n - 1]
SumTo(f, n) == LET sum[i \in 0 .. n] == IF i = 0 THEN 0 ELSE sum[i - 1] + f[i - 1] IN sum[n]

---------------------------------------------------------------------------
(* The rules. *)

mancala_pit(p) == IF p = 0 THEN NumPits ELSE 2 * NumPits + 1
left_pit(p) == IF p = 0 THEN 0 ELSE NumPits + 1
pit_opposite(pit) == 2 * NumPits - pit
player_owner(pit) == pit \div (NumPits + 1)
other_player(p) == 1 - p
score(s, p) == s.board[mancala_pit(p)] - s.board[mancala_pit(other_player(p))]

\* Only the side of the player to move is looked at.
game_overp(s) == \A x \in 0 .. NumPits - 1 : s.board[left_pit(s.turn) + x] = 0

init_state(first) ==
    [board |-> [x \in Pit |-> IF x \in {mancala_pit(0), mancala_pit(1)}
                              THEN 0 ELSE InitialStones],
     turn |-> first]

\* The next pit to sow: the other player's mancala is passed over, and the
\* index comes back to 0 only after that test.
NextPit(pos, p) ==
    LET q == IF pos + 1 = mancala_pit(other_player(p)) THEN pos + 2 ELSE pos + 1
    IN  IF q = 2 * NumPits + 2 THEN 0 ELSE q

\* The loop that sows the stones of pit from: the board and the last pit.
Sow(s, from) ==
    LET after[i \in 0 .. s.board[from]] ==
            IF i = 0 THEN [board |-> [s.board EXCEPT ![from] = 0], pos |-> from]
            ELSE LET before == after[i - 1]
                     q == NextPit(before.pos, s.turn)
                 IN  [board |-> [before.board EXCEPT ![q] = @ + 1], pos |-> q]
    IN  after[s.board[from]]

BigWin_kept(board, pos, p) ==
    IF BigWinRule /\ player_owner(pos) = p /\ board[pos] = 1 /\ pos # mancala_pit(p)
    THEN [board EXCEPT ![mancala_pit(p)] = @ + board[pit_opposite(pos)]]
    ELSE board

\* A big win: the last stone reached an empty pit of the player who sowed.
\* The stones opposite go to the mancala; the last stone stays.
BigWin(board, pos, p) ==
    IF /\ BigWinRule /\ player_owner(pos) = p
       /\ board[pos] = 1 /\ pos # mancala_pit(p)
    THEN [board EXCEPT ![mancala_pit(p)] = @ + board[pit_opposite(pos)],
                       ![pit_opposite(pos)] = 0]
    ELSE board

CanSow(s, n) == s.board[left_pit(s.turn) + n] # 0

\* state-from-move where it does not return nil, that is where CanSow(s, n).
state_from_move(s, n) ==
    LET sown == Sow(s, left_pit(s.turn) + n)
    IN  [board |-> BigWin(sown.board, sown.pos, s.turn),
         turn |-> IF GoAgainRule /\ sown.pos = mancala_pit(s.turn)
                  THEN s.turn ELSE 1 - s.turn]

\* The list that moves pushes: the rightmost pit comes first.  A pit that cannot
\* be sown keeps its place and has no child: loops over the list pass it over.
moves(s) ==
    [i \in {j \in 1 .. NumPits : CanSow(s, NumPits - j)} |-> state_from_move(s, NumPits - i)]

---------------------------------------------------------------------------
(* The computer player.  A value is a record [val, err]: err is that its   *)
(* computation stopped with a Lisp error.                                  *)

Value(v) == [val |-> v, err |-> FALSE]
Fails == [val |-> 0, err |-> TRUE]

end_pit(s, pit) == Sow(s, left_pit(s.turn) + pit).pos

\* The pits of the player to move that evaluate takes for a big win.  The
\* upper bound it tests compares one number with nothing, which is true.
BigWinPits(s) ==
    {x \in 0 .. NumPits - 1 :
        end_pit(s, x) >= left_pit(s.turn) /\ s.board[end_pit(s, x)] = 1}

\* evaluate.  It fails on the index -1 opposite the mancala of player 1, and
\* on the symbol s, which has no value, when max is ahead in mid-game.
evaluate(s, max) ==
    LET sign == IF s.turn = max THEN 1 ELSE -1
        again == {x \in 0 .. NumPits - 1 : end_pit(s, x) = mancala_pit(s.turn)}
        wins == BigWinPits(s)
        across == [x \in 0 .. NumPits - 1 |->
                     IF x \in wins THEN s.board[pit_opposite(end_pit(s, x))] ELSE 0]
    IN  CASE game_overp(s) ->
               Value(IF score(s, max) > 0 THEN MaxWins ELSE MinWins)
          [] OTHER ->
               IF \/ BigWinRule /\ \E x \in wins : pit_opposite(end_pit(s, x)) < 0
                  \/ score(s, max) > 0
               THEN Fails
               ELSE Value(score(s, max)
                          + sign * (IF GoAgainRule THEN 2 * Cardinality(again) ELSE 0)
                          + sign * (IF BigWinRule THEN SumTo(across, NumPits) ELSE 0))

\* alpha-beta is given the function that evaluates a leaf: the player gives
\* it evaluate; score is the plain one that the rules come with.
Leaf(eval, s, max) ==
    IF eval = "evaluate" THEN evaluate(s, max) ELSE Value(score(s, max))

\* The window after a child of value v.
Narrowed(isMax, u, v) ==
    LET a == IF isMax THEN Max({u.a, v.val}) ELSE u.a
        b == IF isMax THEN u.b ELSE Min({u.b, v.val})
    IN  [a |-> a, b |-> b, stop |-> a >= b, err |-> v.err]

\* One turn of the loop of alpha-beta over the children of s, valued by sub in
\* the window that is left.
LoopStep(s, max, children, sub, u, i) ==
    IF u.stop \/ u.err \/ i \notin DOMAIN children THEN u
    ELSE Narrowed(s.turn = max, u, sub[children[i]][u.a][u.b])

\* The loop ends when the window is empty or a child fails.
SearchLoop(s, max, sub, alpha, beta) ==
    LET w[i \in 0 .. NumPits] ==
            IF i = 0 THEN [a |-> alpha, b |-> beta, stop |-> FALSE, err |-> FALSE]
            ELSE LoopStep(s, max, moves(s), sub, w[i - 1], i)
    IN  w[NumPits]

\* What alpha-beta returns after the loop.
LoopValue(s, max, end) ==
    IF end.err THEN Fails
    ELSE Value(IF (s.turn = max) = end.stop THEN end.b ELSE end.a)

\* alpha-beta, by k, the number of moves that max-depth leaves.
alpha_beta(s, maxd, max, eval, alpha, beta) ==
    LET ab[k \in 0 .. maxd] ==
            [c \in State |-> [x \in Int |-> [y \in Int |->
                IF game_overp(c) \/ k = 0 THEN Leaf(eval, c, max)
                ELSE LoopValue(c, max, SearchLoop(c, max, ab[k - 1], x, y))]]]
    IN  ab[maxd][s][alpha][beta]

\* The call from the top: the whole window.
Search_zero(c, maxd, max, eval) == alpha_beta(c, maxd, max, eval, 0, MaxWins)
Search(c, maxd, max, eval) == alpha_beta(c, maxd, max, eval, MinWins, MaxWins)

\* Mutant of BestChild: the best score is not kept.
BestChild_last(s, maxd) ==
    LET children == moves(s)
        best[i \in 0 .. NumPits] ==
            IF i = 0 THEN [kind |-> "nil", s |-> s, val |-> MinWins]
            ELSE LET b == best[i - 1]
                 IN  IF b.kind = "error" \/ i \notin DOMAIN children THEN b
                     ELSE LET v == Search(children[i], maxd, s.turn, "evaluate")
                          IN  IF v.err THEN [b EXCEPT !.kind = "error"]
                              ELSE IF v.val > MinWins
                                   THEN [kind |-> "state", s |-> children[i], val |-> v.val]
                                   ELSE b
    IN  best[NumPits]

\* The best child so far after i turns of the loop of computer-make-move: a
\* child replaces it only when it scores more.
BestChild(s, maxd) ==
    LET children == moves(s)
        best[i \in 0 .. NumPits] ==
            IF i = 0 THEN [kind |-> "nil", s |-> s, val |-> MinWins]
            ELSE LET b == best[i - 1]
                 IN  IF b.kind = "error" \/ i \notin DOMAIN children THEN b
                     ELSE LET v == Search(children[i], maxd, s.turn, "evaluate")
                          IN  IF v.err THEN [b EXCEPT !.kind = "error"]
                              ELSE IF v.val > b.val
                                   THEN [kind |-> "state", s |-> children[i], val |-> v.val]
                                   ELSE b
    IN  best[NumPits]

\* computer-make-move: [kind, s, val] with kind "state", "nil" or "error".
computer_make_move(s, maxd) ==
    IF game_overp(s) THEN [kind |-> "nil", s |-> s, val |-> MinWins] ELSE BestChild(s, maxd)

---------------------------------------------------------------------------
(* The drivers. *)

Mover == funcs[st.turn]

\* play-game, to one depth, with the human or the computer first; tournament
\* between two functions, each the player above or any other, with a depth each.
Init ==
    /\ depth \in [Player -> MaxDepths]
    /\ total = 0 /\ result = "playing"
    /\ \/ /\ game = 0
          /\ funcs = [p \in Player |-> IF p = 0 THEN "human" ELSE "computer"]
          /\ depth[0] = depth[1]
          /\ \E first \in Player : st = init_state(first)
       \/ /\ game = 1
          /\ funcs \in [Player -> {"computer", "other"}]
          /\ st = init_state(0)

\* A human types a pit that valid-movep accepts; another number is asked for
\* again, and what is no number cannot be added to left-pit: an error.  Player
\* 0 is the human, so the index of the board is the pit.
human_make_move ==
    /\ result = "playing" /\ Mover = "human" /\ ~game_overp(st)
    /\ \/ /\ \E n \in 0 .. NumPits - 1 : CanSow(st, n) /\ st' = state_from_move(st, n)
          /\ UNCHANGED result
       \/ result' = "error" /\ UNCHANGED st
    /\ UNCHANGED <<funcs, depth, game, total>>

\* Another move function returns one of the children.
other_make_move ==
    /\ result = "playing" /\ Mover = "other"
    /\ \E n \in 0 .. NumPits - 1 : CanSow(st, n) /\ st' = state_from_move(st, n)
    /\ UNCHANGED <<funcs, depth, game, total, result>>

\* The computer moves, or its error ends the game and the driver with it.
computer_moves ==
    /\ result = "playing" /\ Mover = "computer"
    /\ LET o == computer_make_move(st, depth[st.turn])
       IN  \/ /\ o.kind = "state"
              /\ st' = o.s /\ result' = result
           \/ /\ o.kind = "error"
              /\ result' = "error" /\ st' = st
    /\ UNCHANGED <<funcs, depth, game, total>>

\* The move function returned nil: at the end of the game, and for the
\* computer also where every child scores *min-wins*.
NoMove ==
    IF Mover = "computer" THEN computer_make_move(st, depth[st.turn]).kind = "nil"
                          ELSE game_overp(st)

\* The loop is left: play-game prints the result; tournament adds the score
\* and plays its second game, with player 1 first.
end_of_game ==
    /\ result = "playing" /\ NoMove
    /\ CASE game = 0 -> result' = "done" /\ UNCHANGED <<st, game, total>>
         [] game = 1 -> /\ total' = score(st, 0)
                        /\ st' = init_state(1) /\ game' = 2
                        /\ UNCHANGED result
         [] game = 2 -> /\ total' = total + score(st, 0)
                        /\ result' = "done" /\ UNCHANGED <<st, game>>
    /\ UNCHANGED <<funcs, depth>>

Stopped == result # "playing" /\ UNCHANGED vars

Next == human_make_move \/ other_make_move \/ computer_moves \/ end_of_game \/ Stopped

Spec == Init /\ [][Next]_vars

---------------------------------------------------------------------------
(* What must hold. *)

\* The stones of a state, and the moves they could still make: a stone in a
\* pit is worth its distance to the mancala of its side, and a stone that is
\* in no mancala yet is worth more than all the distances together.
Stones(s) == SumTo(s.board, 2 * NumPits + 2)
Worth(x, all) == IF x \in {mancala_pit(0), mancala_pit(1)} THEN 0
                 ELSE NumPits * all + 1 + mancala_pit(player_owner(x)) - x
Distance(s) == SumTo([x \in Pit |-> s.board[x] * Worth(x, Stones(s))], 2 * NumPits + 2)

\* Whoever moves, and however laps around the board, big wins and go-again
\* moves follow one another (state-from-move), a move neither makes nor loses
\* a stone and carries the stones nearer to the mancalas: so no game goes on
\* for ever, though play-game and tournament loop until a move is nil.
MovesAdvance ==
    [][st' # st /\ game' = game =>
          Stones(st') = Stones(st) /\ Distance(st') \in 0 .. Distance(st) - 1]_vars

\* The value alpha-beta is to compute, without a window: the reference.
Minimax(s, d, max, eval) ==
    LET mm[k \in 0 .. d] ==
            [c \in State |->
                IF game_overp(c) \/ k = 0 THEN Leaf(eval, c, max)
                ELSE LET vals == {mm[k - 1][x] : x \in Range(moves(c))}
                     IN  IF \E v \in vals : v.err THEN Fails
                         ELSE Value(IF c.turn = max THEN Max({v.val : v \in vals})
                                                    ELSE Min({v.val : v \in vals}))]
    IN  mm[d][s]

\* In every state of every game, for both players, every depth and both ways
\* to value a leaf, the search that cuts off (alpha-beta), in which a player
\* who goes again moves twice in a row, finds exactly the minimax value of
\* the state wherever no leaf of the whole tree fails.
AlphaBetaIsMinimax ==
    \A d \in MaxDepths, p \in Player, eval \in {"evaluate", "score"} :
        LET whole == Minimax(st, d, p, eval)
        IN  ~whole.err => Search(st, d, p, eval) = whole

\* computer-make-move returns nil exactly when the game is over or every child
\* is lost (scores *min-wins*), by the values of the whole trees, and otherwise
\* a child that no other child beats: whatever the search skipped, and in
\* whatever order it met the children.  Where a leaf fails nothing is said.
\* The comment of the function, and mancala.lisp, have nil for the end of the
\* game only: the second reason is the code's, and ends a game that is not over.
PlaysBest ==
    \A d \in MaxDepths :
        LET o == computer_make_move(st, d)
            Worthy(c) == Minimax(c, d, st.turn, "evaluate")
            children == Range(moves(st))
        IN  (\A c \in children : ~Worthy(c).err) =>
              /\ o.kind = "nil" <=> \/ game_overp(st)
                                    \/ \A c \in children : Worthy(c).val = MinWins
              /\ o.kind # "nil" => /\ o.kind = "state" /\ o.s \in children
                                   /\ \A c \in children : Worthy(c).val <= Worthy(o.s).val
=============================================================================
