SPECIFICATION LegSpec
CONSTANTS
    Prices = {1, 7, 11, 13, 18}
    OpenPrice = 7
    FirstBars <- WithWick
    EntryLo = 6  EntryHi = 10
    InitialStop = 2  TP1 = 12  TP2 = 18
    MinTrail = 3
    TrailDists = {1, 6}
    RiskDist = 6
    MinRatchet = 1
    EarlyFrom = 1  EarlyBuf = 1
    Tp1Bufs = {1, 4}
    StallMfe = 2
    HoldMfe = 3
    Tiers = {"armed", "triggered"}
    Structural = TRUE
    Reversal = FALSE
INVARIANTS RunnerNeverLoses LevelExitWasTraded
PROPERTIES StopNeverLoosens PollEndsBeyondStop
CHECK_DEADLOCK FALSE
