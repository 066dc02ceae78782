----------------------------- MODULE MCMancala -----------------------------
(* Two pits a side and the four stones of the code: laps, big wins and     *)
(* go-again moves all happen, and a search of three moves is cut off.      *)
EXTENDS Mancala

MCMinWins == -10000
MCMaxDepths == {1, 3}
=============================================================================
