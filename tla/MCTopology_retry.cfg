\* One shard with room for one record per generation: every arrival can meet a
\* full table, a duplicate, a rotation between its two ends, or the goroutine's end.
CONSTANTS
    w1 = w1
    w2 = w2
    k1 = k1
    k2 = k2
    NoKey = NoKey
    NoPeer = NoPeer
    None = None
    Workers <- MCWorkers
    Keys <- MCKeys
    LatencyBounds <- MCBounds
    Placed <- MCPlaced
    Views <- MCViews
    Spans <- RetrySpans
    NumShards = 1
    ShardOf <- OneShard
    MaxPendingPerShard = 1
SYMMETRY WorkerSymmetry
SPECIFICATION Spec
CHECK_DEADLOCK FALSE
INVARIANTS
    KeyHeldOnce
    CountedOnce
    EdgeNotLost
PROPERTIES
    SurvivesOneRotation
    LedgerSpec
