\* Two shards, rotated one after the other; edges aggregated while a flush runs.
CONSTANTS
    w1 = w1
    w2 = w2
    k1 = k1
    k2 = k2
    NoKey = NoKey
    NoPeer = NoPeer
    None = None
    Workers <- MCWorkers
    Keys <- MCKeys
    LatencyBounds <- MCBounds
    Placed <- MCPlaced
    Views <- MCViews
    Spans <- MixedSpans
    NumShards = 2
    ShardOf <- TwoShards
    MaxPendingPerShard = 1
SPECIFICATION FairSpec
CHECK_DEADLOCK FALSE
INVARIANTS
    
    AggregatesExact
    
PROPERTIES
    ClientsSettle
    EdgesReachSink
