SPECIFICATION Spec
CONSTANTS
    s1 = s1  s2 = s2  btc = btc  eth = eth
    Tasks = {t1, t2}
    Signals = {s1}
    Symbols = {btc}
    Setups = {trend}
    SymbolOf <- OneSymbol
    SetupOf <- OneSetup
    None = None
    Ops = {"trade", "review", "deliver", "supersede", "sweep", "force", "link", "cancel"}
    Exits = {"tp2_hit"}
    Faults = {"crash", "timeout", "cycle", "save_fails"}
    MaxBatch = 1
SYMMETRY TaskSymmetry
INVARIANTS TypeOK CleanedRowsVisible
