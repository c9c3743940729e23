SPECIFICATION FairSpec
CONSTANTS
    s1 = s1  s2 = s2  btc = btc  eth = eth
    Tasks = {t1, t2}
    Signals = {s1}
    Symbols = {btc, eth}
    Setups = {trend}
    SymbolOf <- TwoSymbols
    SetupOf <- OneSetup
    None = None
    Ops = {"review", "deliver", "supersede", "sweep"}
    Exits = {"stop_loss"}
    Faults = {}
    MaxBatch = 1
PROPERTIES OperationsEnd
