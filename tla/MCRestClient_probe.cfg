SPECIFICATION FairSpec
CONSTANTS
    klines = klines  oi = oi  p1 = p1  p2 = p2
    Calls = {c1, c2, c3}
    Ops = {klines}
    ClassOf <- Quotas
    Threshold <- OneThenTwo
    Proxies = {}
    Direct = Direct
    StartProxy = Direct
    Faults = {"transport"}
PROPERTIES HalfOpenResolves
