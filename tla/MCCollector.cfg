\* Every way down: a listener that cannot be opened, a server that fails, a
\* signal, and a signal during a shutdown.  The process stops at exit.
CONSTANTS
    g = g
    h = h
    w1 = w1
    w2 = w2
    c1 = c1
    c2 = c2
    None = None
    Handlers <- MCHandlers
    Grpc <- MCGrpc
    Workers <- TwoWorkers
    Chunks <- TwoChunks
    Size <- TwoSizes
    Processors = 2
    QueueSize = 1
    BatchSize = 2
    MinChunks = 1
CHECK_DEADLOCK FALSE
SPECIFICATION FairCollectorSpec
INVARIANTS
    
    GrpcMeetsNoClosedQueue
PROPERTY ShutdownEnds
