SPECIFICATION Spec
CONSTANTS
    x1 = x1  x2 = x2  y = y  c1 = c1  c2 = c2
    None = None
    Texts = {x1, x2, y}
    Clients = {c1, c2}
    Setup <- SetupOf  Symbol <- SymbolOf  Direction <- DirectionOf  Content <- ContentOf
    Kinds <- ReadOrder
    SessionCap = 1  BurstCap = 1  MaxUpsets = 1  MaxReviews = 1
    Faults = {"arm_timeout", "send_timeout", "cycle_timeout", "supersede_fails"}
SYMMETRY Alike
INVARIANTS JournalAgreesWithChannel ContentArmedOnce
CHECK_DEADLOCK FALSE
