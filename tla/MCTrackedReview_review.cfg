SPECIFICATION Spec
CONSTANTS
    Prices = {2, 4, 6, 8, 10}
    Marks = {2, 6, 8}
    Cases <- Separately
    Gates = {"ok", "wait", "close"}
    MaxPrints = 4
INVARIANTS ExitJustified NoMissedExit CandleAgreesWithTrades Tp1IsNoLoss
PROPERTIES StopNeverWidens
CHECK_DEADLOCK FALSE
