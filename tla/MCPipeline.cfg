\* Three chunks of one to three spans, a channel of two chunks: arrivals find it
\* full, empty and closed, and batches fill by size or wait for the timer.
CONSTANTS
    h1 = h1
    h2 = h2
    w1 = w1
    w2 = w2
    c1 = c1
    c2 = c2
    c3 = c3
    None = None
    Handlers <- MCHandlers
    Workers <- MCWorkers
    Processors = 2
    Chunks <- MCChunks
    Size <- MCSize
    QueueSize = 2
    BatchSize = 4
    MinChunks = 1
SPECIFICATION FairSpec
CHECK_DEADLOCK FALSE
INVARIANTS
    ChunkInOnePlace
    EachProcessorOnce
    
    CountersBalance
PROPERTIES
    StopTerminates
    AcceptedIsDispatched
    ChunkLedgerSpec
