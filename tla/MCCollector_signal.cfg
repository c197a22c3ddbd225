\* What is left behind at exit when a signal brings the collector down.
CONSTANTS
    g = g
    h = h
    w1 = w1
    w2 = w2
    c1 = c1
    c2 = c2
    None = None
    Handlers <- MCHandlers
    Grpc <- MCGrpc
    Workers <- OneWorker
    Chunks <- TwoChunks
    Size <- TwoSizes
    Processors = 2
    QueueSize = 1
    BatchSize = 2
    MinChunks = 1
CHECK_DEADLOCK FALSE
SPECIFICATION CollectorSpec
INVARIANT DrainedThenWritten
