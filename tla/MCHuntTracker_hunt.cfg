SPECIFICATION FairSpec
CONSTANTS
    btc = btc  eth = eth
    Symbols = {btc}
    None = None
    Faults = {"crash", "tick_fails", "scan_fails", "append_fails", "search_fails",
              "torn_write", "read_fails", "delisted"}
    MaxHistory = 1
    MaxLegs = 2
    MaxScans = 1
    MaxUpsets = 2

INVARIANTS ArchivedOnce ClosedIsArchived
PROPERTIES NothingErased AgedAreResolved
