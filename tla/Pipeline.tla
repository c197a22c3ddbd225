------------------------------ MODULE Pipeline ------------------------------
(***************************************************************************)
(* The bounded queue between the receiver and the processors,              *)
(* internal/pipeline/pipeline.go.                                          *)
(*                                                                         *)
(* Receiver goroutines offer chunks of spans and never block; workers      *)
(* gather chunks into batches and hand every batch to each processor in    *)
(* turn.  A channel operation is one step; the atomic counters a goroutine *)
(* updates after it are a later step where another goroutine can see the   *)
(* difference.  The processors are outside this module: a call to one      *)
(* returns, with or without an error.                                      *)
(***************************************************************************)
EXTENDS Integers, Sequences, FiniteSets, Sums

CONSTANTS Handlers,    \* receiver goroutines calling Accept
          Workers,     \* Config.Workers of them
          Chunks,      \* the chunks that may be offered, none of them empty
          Size,        \* Size[c]: the number of spans in c
          None,        \* no chunk
          QueueSize,   \* Config.QueueSize
          BatchSize,   \* Config.BatchSize
          MinChunks,   \* the least channel capacity, 64 in the code
          Processors   \* the number of processors

ASSUME PipelineAssumption ==
    /\ Size \in [Chunks -> Nat \ {0}]
    /\ Workers # {}
    /\ None \notin Chunks
    /\ QueueSize \in Nat \ {0}
    /\ BatchSize \in Nat
    /\ MinChunks \in Nat \ {0}
    /\ Processors \in Nat \ {0}

VARIABLES
    queue,     \* the channel
    closed,    \* the channel has been closed
    sent,      \* sent[h]: the chunk h has sent and not yet counted, or None
    batch,     \* batch[w]: the chunks in w's slice, and the slice's length
    worker,    \* worker[w]: where w is, the processor it is at, its last flush
    ctxDone,   \* the context given to Start is cancelled
    stopped,   \* Stop has returned
    counts,    \* the counters of Stats
    (* History, read by no action *)
    offered,   \* the chunks given to Accept so far
    refused,   \* the chunks Accept dropped
    panicked,  \* the chunks whose Accept found the channel closed
    handed,    \* handed[c][p]: how often processor p was given chunk c
    done       \* the chunks whose dispatch is complete

history == <<offered, refused, panicked, handed, done>>
vars == <<queue, closed, sent, batch, worker, ctxDone, stopped, counts,
          offered, refused, panicked, handed, done>>

Procs == 1 .. Processors

atLeast(a, b) == IF a > b THEN a ELSE b

(* New: the channel carries chunks, on the assumption that a chunk holds   *)
(* a quarter of a batch.                                                   *)
chunkCap == atLeast(QueueSize \div atLeast(BatchSize \div 4, 1), MinChunks)

EmptyBatch == [chunks |-> {}, len |-> 0]

-----------------------------------------------------------------------------
Init ==
    /\ queue = <<>>
    /\ closed = FALSE
    /\ sent = [h \in Handlers |-> None]
    /\ batch = [w \in Workers |-> EmptyBatch]
    /\ worker = [w \in Workers |-> [pc |-> "select", proc |-> 1, leaving |-> FALSE]]
    /\ ctxDone = FALSE
    /\ stopped = FALSE
    /\ counts = [enqueued |-> 0, dropped |-> 0, processed |-> 0, failed |-> 0, depth |-> 0]
    /\ offered = {}
    /\ refused = {}
    /\ panicked = {}
    /\ handed = [c \in Chunks |-> [p \in Procs |-> 0]]
    /\ done = {}

-----------------------------------------------------------------------------
(* Accept *)

Offer(h, c) ==
    /\ sent[h] = None
    /\ c \in Chunks \ offered
    /\ offered' = offered \cup {c}
    /\ UNCHANGED <<closed, batch, worker, ctxDone, stopped, handed, done>>

(* There is room in the channel. *)
HasRoom == Len(queue) < chunkCap

Send(h, c) ==
    /\ Offer(h, c)
    /\ ~closed
    /\ HasRoom
    /\ queue' = Append(queue, c)
    /\ sent' = [sent EXCEPT ![h] = c]
    /\ UNCHANGED <<counts, refused, panicked>>

(* The sender, after the send: a worker may have the chunk already. *)
CountSent(h) ==
    /\ sent[h] # None
    /\ counts' = [counts EXCEPT !.enqueued = @ + Size[sent[h]],
                                !.depth = @ + Size[sent[h]]]
    /\ sent' = [sent EXCEPT ![h] = None]
    /\ UNCHANGED <<queue, closed, batch, worker, ctxDone, stopped, history>>

(* No room: the default case of the select. *)
Drop(h, c) ==
    /\ Offer(h, c)
    /\ ~closed
    /\ ~HasRoom
    /\ counts' = [counts EXCEPT !.dropped = @ + Size[c]]
    /\ refused' = refused \cup {c}
    /\ UNCHANGED <<queue, sent, panicked>>

(* A send on a closed channel panics, full or not. *)
Panic(h, c) ==
    /\ Offer(h, c)
    /\ closed
    /\ panicked' = panicked \cup {c}
    /\ UNCHANGED <<queue, sent, counts, refused>>

-----------------------------------------------------------------------------
(* worker *)

AtSelect(w) == worker[w].pc = "select"

(* Mutant: a worker on its way out does not flush. *)
FlushUnlessLeaving(w, b, leaving) ==
    worker' = [worker EXCEPT ![w] =
        [pc |-> IF leaving THEN "done" ELSE IF b.len # 0 THEN "dispatch" ELSE "select",
         proc |-> 1,
         leaving |-> leaving]]

(* flush, and on the way out return: an empty batch is not dispatched. *)
Flush(w, b, leaving) ==
    worker' = [worker EXCEPT ![w] =
        [pc |-> IF b.len # 0 THEN "dispatch" ELSE IF leaving THEN "done" ELSE "select",
         proc |-> 1,
         leaving |-> leaving]]

(* append; in the mutant the chunk replaces what the batch held. *)
AddOverwrites(b, c) == [chunks |-> {c}, len |-> Size[c]]
Add(b, c) == [chunks |-> b.chunks \cup {c}, len |-> b.len + Size[c]]

(* The queue depth after chunk c has come out; not updated in the mutant. *)
DepthStays(c) == counts
DepthLess(c)  == [counts EXCEPT !.depth = @ - Size[c]]

(* A chunk comes out of the channel; a full batch is flushed. *)
Receive(w) ==
    /\ AtSelect(w)
    /\ queue # <<>>
    /\ LET c == Head(queue)
           b == Add(batch[w], c)
       IN  /\ counts' = DepthLess(c)
           /\ batch' = [batch EXCEPT ![w] = b]
           /\ IF b.len >= BatchSize THEN Flush(w, b, FALSE) ELSE UNCHANGED worker
    /\ queue' = Tail(queue)
    /\ UNCHANGED <<closed, sent, ctxDone, stopped, history>>

(* Mutant: the closed channel is taken for one more empty read. *)
SeeClosedGoesOn(w) ==
    /\ AtSelect(w)
    /\ closed
    /\ queue = <<>>
    /\ Flush(w, batch[w], FALSE)
    /\ UNCHANGED <<queue, closed, sent, batch, ctxDone, stopped, counts, history>>

(* A closed channel is seen as closed once it is empty. *)
SeeClosed(w) ==
    /\ AtSelect(w)
    /\ closed
    /\ queue = <<>>
    /\ Flush(w, batch[w], TRUE)
    /\ UNCHANGED <<queue, closed, sent, batch, ctxDone, stopped, counts, history>>

(* Something to flush at a tick of the timer; a full batch in the mutant. *)
TickFlushesFull(w) == batch[w].len >= BatchSize
TickFlushes(w)     == batch[w].len # 0

Tick(w) ==
    /\ AtSelect(w)
    /\ TickFlushes(w)
    /\ Flush(w, batch[w], FALSE)
    /\ UNCHANGED <<queue, closed, sent, batch, ctxDone, stopped, counts, history>>

(* A cancelled context ends the worker, whatever is in the channel. *)
SeeDone(w) ==
    /\ AtSelect(w)
    /\ ctxDone
    /\ Flush(w, batch[w], TRUE)
    /\ UNCHANGED <<queue, closed, sent, batch, ctxDone, stopped, counts, history>>

-----------------------------------------------------------------------------
(* dispatch *)

(* Mutant: the first error ends the dispatch. *)
NextProcStops(w, ok) == IF ok THEN worker[w].proc + 1 ELSE Processors + 1

(* The processor the worker turns to after one that failed, or did not. *)
NextProc(w, ok) == worker[w].proc + 1

(* One processor is given the batch; its error is counted, no more. *)
Process(w, ok) ==
    /\ worker[w].pc = "dispatch"
    /\ worker[w].proc \in Procs
    /\ counts' = IF ok THEN counts ELSE [counts EXCEPT !.failed = @ + batch[w].len]
    /\ handed' = [c \in Chunks |->
                    IF c \in batch[w].chunks THEN [handed[c] EXCEPT ![worker[w].proc] = @ + 1]
                    ELSE handed[c]]
    /\ worker' = [worker EXCEPT ![w].proc = NextProc(w, ok)]
    /\ UNCHANGED <<queue, closed, sent, batch, ctxDone, stopped,
                   offered, refused, panicked, done>>

(* The batch is counted, span by span; as one in the mutant. *)
ProcessedOne(w)  == [counts EXCEPT !.processed = @ + 1]
ProcessedMore(w) == [counts EXCEPT !.processed = @ + batch[w].len]

(* All have had it: the batch is counted and emptied. *)
EndDispatch(w) ==
    /\ worker[w].pc = "dispatch"
    /\ worker[w].proc \notin Procs
    /\ counts' = ProcessedMore(w)
    /\ done' = done \cup batch[w].chunks
    /\ batch' = [batch EXCEPT ![w] = EmptyBatch]
    /\ worker' = [worker EXCEPT ![w] =
         [pc |-> IF worker[w].leaving THEN "done" ELSE "select",
          proc |-> 1, leaving |-> worker[w].leaving]]
    /\ UNCHANGED <<queue, closed, sent, ctxDone, stopped,
                   offered, refused, panicked, handed>>

-----------------------------------------------------------------------------
(* Stop, and the cancellation of the context *)

Close ==
    /\ ~closed
    /\ closed' = TRUE
    /\ UNCHANGED <<queue, sent, batch, worker, ctxDone, stopped, counts, history>>

StopReturns ==
    /\ closed
    /\ ~stopped
    /\ \A w \in Workers : worker[w].pc = "done"
    /\ stopped' = TRUE
    /\ UNCHANGED <<queue, closed, sent, batch, worker, ctxDone, counts, history>>

Cancel ==
    /\ ~ctxDone
    /\ ctxDone' = TRUE
    /\ UNCHANGED <<queue, closed, sent, batch, worker, stopped, counts, history>>

WorkerStep(w) ==
    \/ Receive(w) \/ SeeClosed(w) \/ Tick(w) \/ SeeDone(w)
    \/ (\E ok \in BOOLEAN : Process(w, ok))
    \/ EndDispatch(w)

Next ==
    \/ \E h \in Handlers, c \in Chunks : Send(h, c) \/ Drop(h, c) \/ Panic(h, c)
    \/ \E h \in Handlers : CountSent(h)
    \/ \E w \in Workers : WorkerStep(w)
    \/ Close \/ StopReturns \/ Cancel

Spec == Init /\ [][Next]_vars

-----------------------------------------------------------------------------
(* Properties *)

(* Every variable has its type, and the channel keeps to its capacity. *)
TypeOK ==
    /\ queue \in Seq(Chunks) /\ Len(queue) <= chunkCap
    /\ closed \in BOOLEAN /\ ctxDone \in BOOLEAN /\ stopped \in BOOLEAN
    /\ sent \in [Handlers -> Chunks \cup {None}]
    /\ batch \in [Workers -> [chunks : SUBSET Chunks, len : Nat]]
    /\ worker \in [Workers -> [pc : {"select", "dispatch", "done"},
                               proc : 1 .. Processors + 1, leaving : BOOLEAN]]
    /\ counts \in [enqueued : Nat, dropped : Nat, processed : Nat, failed : Nat, depth : Int]
    /\ offered \subseteq Chunks /\ refused \subseteq Chunks
    /\ panicked \subseteq Chunks /\ done \subseteq Chunks
    /\ handed \in [Chunks -> [Procs -> Nat]]

Queued  == {queue[i] : i \in DOMAIN queue}
Batched == UNION {batch[w].chunks : w \in Workers}

(* From Accept to the end of dispatch, a chunk is in exactly one place: it *)
(* is neither lost nor duplicated on the way through the channel, the      *)
(* workers' slices and the reuse of those slices after a flush.            *)
ChunkInOnePlace ==
    /\ \A i, j \in DOMAIN queue : i # j => queue[i] # queue[j]
    /\ \A w, v \in Workers : w # v => batch[w].chunks \cap batch[v].chunks = {}
    /\ Queued \cap Batched = {}
    /\ (Queued \cup Batched) \cap (done \cup refused \cup panicked) = {}
    /\ offered = Queued \cup Batched \cup done \cup refused \cup panicked

(* "If one processor fails, the others still run": whatever errors occur,  *)
(* a dispatched chunk has been given to every processor once, and no chunk *)
(* is ever given to a processor twice.                                     *)
EachProcessorOnce ==
    /\ \A c \in done, p \in Procs : handed[c][p] = 1
    /\ \A c \in Chunks, p \in Procs : handed[c][p] <= 1

(* "Stop closes the queue and waits for the workers to flush their         *)
(* batches": no batch is left, and unless the context was cancelled        *)
(* nothing that was accepted is left in the channel either.                *)
StopDrains ==
    stopped => /\ Batched = {}
               /\ ~ctxDone => offered = done \cup refused \cup panicked

(* The spans of a set of chunks. *)
SizeOf(C) == SumOver(Size, C)

Uncounted == {sent[h] : h \in Handlers} \ {None}

(* The queue_depth gauge differs from what is in the channel by exactly    *)
(* the chunks whose senders have not got round to counting them; it may be *)
(* negative for a moment, but it never drifts.                             *)
DepthNeverDrifts == counts.depth = SizeOf(Queued) - SizeOf(Uncounted)

(* The chunks processor p has been given, and the spans of all those       *)
(* deliveries together.                                                    *)
Given(p)   == {c \in Chunks : handed[c][p] > 0}
SpansGiven == SumOver([p \in Procs |-> SizeOf(Given(p))], Procs)

(* The counters balance: what was enqueued is in the channel, in a batch   *)
(* or processed, what was dropped was refused, and a failed span has       *)
(* failed at one of the processors it was given to.                        *)
CountersBalance ==
    /\ counts.enqueued + SizeOf(Uncounted) = SizeOf(Queued) + SizeOf(Batched) + counts.processed
    /\ counts.dropped = SizeOf(refused)
    /\ counts.processed = SizeOf(done)
    /\ counts.failed <= SpansGiven
    /\ \A w \in Workers : batch[w].len = SizeOf(batch[w].chunks)

-----------------------------------------------------------------------------
(* The ledger of chunks, and what the pipeline's state says in it. *)
Status ==
    [c \in Chunks |-> IF c \notin offered THEN "unseen"
                      ELSE IF c \in refused \cup panicked THEN "refused"
                      ELSE IF c \in done THEN "done"
                      ELSE "accepted"]

HadBy == [c \in Chunks |-> {p \in Procs : handed[c][p] > 0}]
Phase == IF stopped THEN "stopped" ELSE IF closed THEN "closed" ELSE "open"

Ledger == INSTANCE ChunkLedger WITH
              status <- Status, given <- HadBy, phase <- Phase, cancelled <- ctxDone

(* Accept "never blocks", "if one processor fails, the others still run"   *)
(* and "Stop waits for the workers to flush their batches": every step of  *)
(* the pipeline is one the ledger of chunks allows.  Processors are called *)
(* in order, and not at all after Stop has returned.                       *)
ChunkLedgerSpec == Ledger!Spec

-----------------------------------------------------------------------------
(* Fairness: goroutines run, Process calls return, the timer ticks.        *)
Fairness ==
    /\ \A w \in Workers : WF_vars(WorkerStep(w))
    /\ \A h \in Handlers : WF_vars(CountSent(h))
    /\ WF_vars(StopReturns)

FairSpec == Spec /\ Fairness

(* Stop returns: no worker waits for ever on the closed channel. *)
StopTerminates == closed ~> stopped

(* Without further arrivals to fill the batch, and without a Stop, a chunk *)
(* that was accepted is dispatched, unless the context is cancelled.       *)
AcceptedIsDispatched == \A c \in Chunks : c \in Queued ~> (c \in done \/ ctxDone)
=============================================================================
