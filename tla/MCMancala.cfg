SPECIFICATION Spec
CONSTANTS
    NumPits = 2
    InitialStones = 4
    GoAgainRule = TRUE
    BigWinRule = TRUE
    MaxWins = 10000
    MinWins <- MCMinWins
    MaxDepths <- MCMaxDepths
INVARIANTS AlphaBetaIsMinimax PlaysBest
PROPERTIES MovesAdvance
