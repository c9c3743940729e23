SPECIFICATION Spec
CONSTANTS
    s1 = s1  s2 = s2  btc = btc  eth = eth
    Tasks = {t1, t2}
    Signals = {s1, s2}
    Symbols = {btc}
    Setups = {trend}
    SymbolOf <- OneSymbol
    SetupOf <- OneSetup
    None = None
    Ops = {"trade", "review", "deliver", "supersede"}
    Exits = {"tp1_hit", "tp2_hit"}
    Faults = {"crash"}
    MaxBatch = 2
SYMMETRY TaskSymmetry
INVARIANTS LockMatchesHolder SnapshotCurrent ClosedOnce OutcomeNotLost
PROPERTIES ImplementsLifecycle
