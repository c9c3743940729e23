SPECIFICATION FairSpec
CONSTANTS
    c1 = c1  c2 = c2  c3 = c3  q1 = q1  q2 = q2  r1 = r1
    Keys = {c1, c2, q1, r1}
    KindOf <- TypeOfKey
    MaxSize = 2
    MaxVersion <- TwoOfMost
INVARIANTS QueueMatchesPending PerKeyOrder
PROPERTIES NothingVanishes ImplementsMailbox BacklogDrains ShutdownEnds
CHECK_DEADLOCK FALSE
