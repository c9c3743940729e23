SPECIFICATION Spec
CONSTANTS
    klines = klines  oi = oi  p1 = p1  p2 = p2
    Calls = {c1, c2}
    Ops = {klines}
    ClassOf <- Quotas
    Threshold <- TwoThenOne
    Proxies = {p1}
    Direct = Direct
    StartProxy = p1
    Faults = {"cancel", "ban", "limit", "transport", "discovery"}
INVARIANTS TypeOK HalfOpenIsExpired OpensAtThreshold
PROPERTIES FallbacksBounded ProbeLostUnrecordedOnly
