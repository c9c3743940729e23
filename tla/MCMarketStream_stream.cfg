SPECIFICATION Spec
CONSTANTS
    x = x  y = y  c1 = c1  c2 = c2
    Symbols = {x, y}
    Listed = {x}
    Lists = {{x}, {y}, {x, y}}
    Callers = {c1, c2}
    LastCandle = 3  StaleAfter = 1  StreamCap = 1
    MaxCalls = 2  MaxFaults = 1
SYMMETRY Alike
INVARIANTS CacheOrdered HoleUnderRepair StreamsFollowList
CHECK_DEADLOCK FALSE
