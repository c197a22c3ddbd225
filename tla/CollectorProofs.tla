-------------------------- MODULE CollectorProofs ---------------------------
(***************************************************************************)
(* Proofs about the pipeline and about the collector around it, for any    *)
(* number of handlers, workers, chunks, processors and any queue and batch *)
(* sizes.                                                                  *)
(***************************************************************************)
EXTENDS Collector, SequenceTheorems, SumTheorems

-----------------------------------------------------------------------------
(* The pipeline *)

(***************************************************************************)
(* The inductive invariant: the types, one place for every chunk, and      *)
(* three facts about the workers.                                          *)
(***************************************************************************)
(* A batch of length zero holds nothing, so skipping its dispatch loses    *)
(* nothing.                                                                *)
LenInv == \A w \in Workers : batch[w].len = 0 => batch[w].chunks = {}

(* How often a chunk has been given to a processor: not at all before its  *)
(* batch is dispatched, once by each processor the dispatch has passed.    *)
HandedInv ==
    /\ \A c \in Chunks \ (Batched \cup done), p \in Procs : handed[c][p] = 0
    /\ \A c \in done, p \in Procs : handed[c][p] = 1
    /\ \A w \in Workers : \A c \in batch[w].chunks, p \in Procs :
         handed[c][p] = IF worker[w].pc = "dispatch" /\ p < worker[w].proc THEN 1 ELSE 0

(* A worker leaves because the channel is closed and empty, for good, or   *)
(* because the context is cancelled; it is gone when its batch is flushed. *)
Drained == closed /\ queue = <<>>

LeavingInv ==
    /\ \A w \in Workers : worker[w].leaving => Drained \/ ctxDone
    /\ \A w \in Workers : worker[w].pc = "done" => worker[w].leaving /\ batch[w].chunks = {}
    /\ stopped => closed /\ \A w \in Workers : worker[w].pc = "done"

IInv == TypeOK /\ ChunkInOnePlace /\ LenInv /\ HandedInv /\ LeavingInv

-----------------------------------------------------------------------------
LEMMA CapType == chunkCap \in Nat
<1>1. atLeast(BatchSize \div 4, 1) \in Nat \ {0}
    BY PipelineAssumption DEF atLeast
<1>2. QueueSize \div atLeast(BatchSize \div 4, 1) \in Nat
    BY <1>1, PipelineAssumption
<1> QED BY <1>2, PipelineAssumption DEF chunkCap, atLeast

(* What the two channel operations do to the chunks in the channel. *)
LEMMA AppendFacts ==
    ASSUME NEW q \in Seq(Chunks), NEW c \in Chunks,
           \A i, j \in DOMAIN q : i # j => q[i] # q[j],
           c \notin {q[i] : i \in DOMAIN q}
    PROVE  LET r == Append(q, c)
           IN  /\ r \in Seq(Chunks) /\ Len(r) = Len(q) + 1
               /\ {r[i] : i \in DOMAIN r} = {q[i] : i \in DOMAIN q} \cup {c}
               /\ \A i, j \in DOMAIN r : i # j => r[i] # r[j]
<1> DEFINE r == Append(q, c)
<1>1. /\ r \in Seq(Chunks) /\ Len(r) = Len(q) + 1 /\ DOMAIN q = 1 .. Len(q)
      /\ DOMAIN r = 1 .. Len(q) + 1 /\ Len(q) \in Nat
      /\ r[Len(q) + 1] = c /\ \A i \in 1 .. Len(q) : r[i] = q[i]
    OBVIOUS
<1> HIDE DEF r
<1>2. \A i \in DOMAIN r : i \in DOMAIN q \/ i = Len(q) + 1
    BY <1>1
<1>3. {r[i] : i \in DOMAIN r} = {q[i] : i \in DOMAIN q} \cup {c}
    BY <1>1, <1>2
<1>4. \A i, j \in DOMAIN r : i # j => r[i] # r[j]
    BY <1>1, <1>2
<1> QED BY <1>1, <1>3, <1>4 DEF r

LEMMA TailFacts ==
    ASSUME NEW q \in Seq(Chunks), q # <<>>,
           \A i, j \in DOMAIN q : i # j => q[i] # q[j]
    PROVE  LET r == Tail(q)
           IN  /\ r \in Seq(Chunks) /\ Len(r) = Len(q) - 1 /\ Len(q) \in Nat
               /\ Head(q) \in Chunks
               /\ {q[i] : i \in DOMAIN q} = {r[i] : i \in DOMAIN r} \cup {Head(q)}
               /\ Head(q) \notin {r[i] : i \in DOMAIN r}
               /\ \A i, j \in DOMAIN r : i # j => r[i] # r[j]
<1> DEFINE r == Tail(q)
<1>1. /\ r \in Seq(Chunks) /\ Len(r) = Len(q) - 1 /\ DOMAIN q = 1 .. Len(q)
      /\ DOMAIN r = 1 .. Len(q) - 1 /\ Len(q) \in Nat \ {0}
      /\ Head(q) = q[1] /\ Head(q) \in Chunks /\ \A i \in 1 .. Len(q) - 1 : r[i] = q[i + 1]
    OBVIOUS
<1> HIDE DEF r
<1>2. \A i \in DOMAIN q : i = 1 \/ (i - 1 \in DOMAIN r /\ q[i] = r[i - 1])
    BY <1>1
<1>3. \A i \in DOMAIN r : i + 1 \in DOMAIN q /\ i + 1 # 1 /\ r[i] = q[i + 1]
    BY <1>1
<1>4. {q[i] : i \in DOMAIN q} = {r[i] : i \in DOMAIN r} \cup {Head(q)}
    BY <1>1, <1>2, <1>3
<1>5. Head(q) \notin {r[i] : i \in DOMAIN r}
    BY <1>1, <1>3
<1>6. \A i, j \in DOMAIN r : i # j => r[i] # r[j]
    <2> SUFFICES ASSUME NEW i \in DOMAIN r, NEW j \in DOMAIN r, i # j
                 PROVE  r[i] # r[j]
        OBVIOUS
    <2>1. i + 1 # j + 1
        BY <1>1
    <2> QED BY <1>3, <2>1
<1> QED BY <1>1, <1>4, <1>5, <1>6 DEF r

-----------------------------------------------------------------------------
(* The initial state satisfies the invariant. *)
LEMMA InitInv == Init => IInv
<1> SUFFICES ASSUME Init PROVE IInv
    OBVIOUS
<1> USE DEF Init
<1>1. Queued = {} /\ Batched = {}
    BY DEF Queued, Batched, EmptyBatch
<1>2. TypeOK
    <2>1. queue \in Seq(Chunks) /\ Len(queue) <= chunkCap
        BY CapType
    <2>2. batch \in [Workers -> [chunks : SUBSET Chunks, len : Nat]]
        BY DEF EmptyBatch
    <2>3. worker \in [Workers -> [pc : {"select", "dispatch", "done"},
                               proc : 1 .. Processors + 1, leaving : BOOLEAN]]
        BY PipelineAssumption
    <2>4. handed \in [Chunks -> [Procs -> Nat]]
        OBVIOUS
    <2>5. /\ sent \in [Handlers -> Chunks \cup {None}]
          /\ counts \in [enqueued : Nat, dropped : Nat, processed : Nat, failed : Nat, depth : Int]
        OBVIOUS
    <2> HIDE DEF Init
    <2>6. /\ closed \in BOOLEAN /\ ctxDone \in BOOLEAN /\ stopped \in BOOLEAN
          /\ offered \subseteq Chunks /\ refused \subseteq Chunks
          /\ panicked \subseteq Chunks /\ done \subseteq Chunks
        BY DEF Init
    <2> QED BY <2>1, <2>2, <2>3, <2>4, <2>5, <2>6 DEF TypeOK
<1>3. ChunkInOnePlace
    BY <1>1 DEF ChunkInOnePlace, EmptyBatch
<1>4. LenInv /\ HandedInv /\ LeavingInv
    BY <1>1, PipelineAssumption DEF LenInv, HandedInv, LeavingInv, EmptyBatch, Procs
<1> QED BY <1>2, <1>3, <1>4 DEF IInv

(* Accept puts the chunk in one place: the channel, or what was refused. *)
LEMMA SendInv ==
    ASSUME IInv, NEW h \in Handlers, NEW c \in Chunks, Send(h, c)
    PROVE  IInv'
<1> USE DEF IInv, Send, Offer, HasRoom
<1>1. c \notin Queued /\ queue \in Seq(Chunks)
    BY DEF ChunkInOnePlace, TypeOK
<1>2. /\ queue' \in Seq(Chunks) /\ Len(queue') = Len(queue) + 1
      /\ Queued' = Queued \cup {c}
      /\ \A i, j \in DOMAIN queue' : i # j => queue'[i] # queue'[j]
    BY <1>1, AppendFacts DEF ChunkInOnePlace, Queued
<1>3. Batched' = Batched
    BY DEF Batched
<1>4. TypeOK'
    BY <1>2, CapType DEF TypeOK
<1>5. ChunkInOnePlace'
    BY <1>2, <1>3 DEF ChunkInOnePlace
<1>6. LenInv' /\ HandedInv'
    BY <1>3 DEF LenInv, HandedInv
<1>7. LeavingInv'
    BY DEF LeavingInv, Drained
<1> QED BY <1>4, <1>5, <1>6, <1>7

LEMMA RefuseInv ==
    ASSUME IInv, NEW h \in Handlers, NEW c \in Chunks, Drop(h, c) \/ Panic(h, c)
    PROVE  IInv'
<1> USE DEF IInv, Offer
<1>1. Queued' = Queued /\ Batched' = Batched
    BY DEF Queued, Batched, Drop, Panic
<1>2. TypeOK'
    <2>1. /\ UNCHANGED <<queue, closed, sent, batch, worker, ctxDone, stopped, handed, done>>
          /\ offered' \subseteq Chunks /\ refused' \subseteq Chunks /\ panicked' \subseteq Chunks
        BY DEF Drop, Panic, TypeOK
    <2>2. counts' \in [enqueued : Nat, dropped : Nat, processed : Nat, failed : Nat, depth : Int]
        <3>1. PICK n \in Nat : n = Size[c]
            BY PipelineAssumption
        <3>2. counts' \in {counts, [counts EXCEPT !.dropped = @ + n]}
            BY <3>1 DEF Drop, Panic
        <3>3. counts \in [enqueued : Nat, dropped : Nat, processed : Nat, failed : Nat, depth : Int]
            BY DEF TypeOK
        <3> HIDE DEF IInv, Offer
        <3> QED BY <3>2, <3>3
    <2> QED BY <2>1, <2>2 DEF TypeOK
<1>3. ChunkInOnePlace'
    <2>1. UNCHANGED <<queue, batch, done>>
        BY DEF Drop, Panic
    <2>2. /\ offered' = offered \cup {c} /\ c \notin offered
          /\ refused' \cup panicked' = refused \cup panicked \cup {c}
        BY DEF Drop, Panic
    <2> QED BY <1>1, <2>1, <2>2 DEF ChunkInOnePlace
<1>4. LenInv' /\ HandedInv' /\ LeavingInv'
    BY <1>1 DEF LenInv, HandedInv, LeavingInv, Drained, Drop, Panic
<1> QED BY <1>2, <1>3, <1>4

(* Steps that move no chunk and leave the workers alone. *)
LEMMA QuietInv ==
    ASSUME IInv,
           (\E h \in Handlers : CountSent(h)) \/ Close \/ StopReturns \/ Cancel \/ UNCHANGED vars
    PROVE  IInv'
<1> USE DEF IInv
<1>1. /\ UNCHANGED <<queue, batch, worker, history>> /\ UNCHANGED history
      /\ (closed => closed') /\ (ctxDone => ctxDone')
    BY DEF CountSent, Close, StopReturns, Cancel, vars, history, TypeOK
<1>2. Queued' = Queued /\ Batched' = Batched
    BY <1>1 DEF Queued, Batched
<1>3. TypeOK'
    <2>1. CASE \E h \in Handlers : CountSent(h)
        <3>1. PICK h \in Handlers : CountSent(h)
            BY <2>1
        <3>2. Size[sent[h]] \in Nat
            BY <3>1, PipelineAssumption DEF TypeOK, CountSent
        <3>3. /\ counts' \in [enqueued : Nat, dropped : Nat, processed : Nat, failed : Nat, depth : Int]
              /\ sent' \in [Handlers -> Chunks \cup {None}]
            <4>1. PICK n \in Nat : n = Size[sent[h]]
                BY <3>2
            <4>2. counts' = [counts EXCEPT !.enqueued = @ + n, !.depth = @ + n]
                BY <3>1, <4>1 DEF CountSent
            <4>3. counts' \in [enqueued : Nat, dropped : Nat, processed : Nat, failed : Nat, depth : Int]
                <5>1. counts \in [enqueued : Nat, dropped : Nat, processed : Nat, failed : Nat, depth : Int]
                    BY DEF TypeOK
                <5> HIDE DEF IInv
                <5>2. [counts EXCEPT !.enqueued = @ + n] \in
                        [enqueued : Nat, dropped : Nat, processed : Nat, failed : Nat, depth : Int]
                    BY <5>1
                <5>3. PICK r : r = [counts EXCEPT !.enqueued = @ + n]
                    OBVIOUS
                <5>4. r \in [enqueued : Nat, dropped : Nat, processed : Nat, failed : Nat, depth : Int]
                    BY <5>2, <5>3
                <5>5. counts' = [r EXCEPT !.depth = @ + n]
                    BY <4>2, <5>1, <5>3
                <5> QED BY <5>4, <5>5
            <4>4. sent' \in [Handlers -> Chunks \cup {None}]
                BY <3>1 DEF TypeOK, CountSent
            <4> QED BY <4>3, <4>4
        <3> QED BY <3>1, <3>3 DEF TypeOK, CountSent, history
    <2>2. CASE Close \/ StopReturns \/ Cancel \/ UNCHANGED vars
        BY <2>2 DEF TypeOK, Close, StopReturns, Cancel, vars, history
    <2> QED BY <2>1, <2>2
<1>4. ChunkInOnePlace'
    BY <1>1, <1>2 DEF ChunkInOnePlace, history
<1>5. LenInv' /\ HandedInv'
    BY <1>1, <1>2 DEF LenInv, HandedInv, history
<1>6. LeavingInv'
    <2>1. stopped' => closed' /\ \A w \in Workers : worker'[w].pc = "done"
        BY <1>1 DEF LeavingInv, CountSent, Close, StopReturns, Cancel, vars
    <2>2. Drained \/ ctxDone => Drained' \/ ctxDone'
        BY <1>1 DEF Drained
    <2> QED BY <1>1, <2>1, <2>2 DEF LeavingInv
<1> QED BY <1>3, <1>4, <1>5, <1>6

(* A chunk moves from the head of the channel into the worker's batch. *)
LEMMA ReceiveInv ==
    ASSUME IInv, NEW w \in Workers, Receive(w)
    PROVE  IInv'
<1> USE DEF IInv, Receive, history
<1> DEFINE c == Head(queue)
<1>1. /\ queue' \in Seq(Chunks) /\ Len(queue') = Len(queue) - 1 /\ Len(queue) \in Nat
      /\ c \in Chunks /\ Queued = Queued' \cup {c} /\ c \notin Queued'
      /\ \A i, j \in DOMAIN queue' : i # j => queue'[i] # queue'[j]
    <2>1. /\ queue \in Seq(Chunks) /\ queue # <<>>
          /\ \A i, j \in DOMAIN queue : i # j => queue[i] # queue[j]
        BY DEF TypeOK, ChunkInOnePlace
    <2> QED BY <2>1, TailFacts DEF Queued
<1> HIDE DEF c
<1>2. /\ batch' = [batch EXCEPT ![w] = [chunks |-> batch[w].chunks \cup {c},
                                         len |-> batch[w].len + Size[c]]]
      /\ counts' = [counts EXCEPT !.depth = @ - Size[c]]
      /\ Size[c] \in Nat \ {0}
    BY <1>1, PipelineAssumption DEF Add, DepthLess, c
<1>3. /\ batch'[w].chunks = batch[w].chunks \cup {c}
      /\ batch'[w].len = batch[w].len + Size[c]
      /\ \A v \in Workers \ {w} : batch'[v] = batch[v]
      /\ Batched' = Batched \cup {c}
    BY <1>2 DEF TypeOK, Batched
<1>4. /\ worker[w].pc = "select" /\ worker \in [Workers -> [pc : {"select", "dispatch", "done"},
                               proc : 1 .. Processors + 1, leaving : BOOLEAN]]
      /\ \/ worker' = worker
         \/ \E pc \in {"select", "dispatch"} :
              worker' = [worker EXCEPT ![w] = [pc |-> pc, proc |-> 1, leaving |-> FALSE]]
    BY DEF Flush, AtSelect, TypeOK
<1>5. TypeOK'
    <2>1. worker' \in [Workers -> [pc : {"select", "dispatch", "done"},
                               proc : 1 .. Processors + 1, leaving : BOOLEAN]]
        <3>1. \A pc \in {"select", "dispatch"} :
                [pc |-> pc, proc |-> 1, leaving |-> FALSE] \in
                  [pc : {"select", "dispatch", "done"},
                   proc : 1 .. Processors + 1, leaving : BOOLEAN]
            BY PipelineAssumption
        <3> QED BY <1>4, <3>1
    <2>2. counts' \in [enqueued : Nat, dropped : Nat, processed : Nat, failed : Nat, depth : Int]
        <3>1. PICK x, n : x = counts /\ n = Size[c]
            OBVIOUS
        <3>2. /\ x \in [enqueued : Nat, dropped : Nat, processed : Nat, failed : Nat, depth : Int]
              /\ n \in Int
            BY <1>2, <3>1 DEF TypeOK
        <3>3. counts' = [x EXCEPT !.depth = @ - n]
            BY <1>2, <3>1
        <3>4. [x EXCEPT !.depth = @ - n] \in
                [enqueued : Nat, dropped : Nat, processed : Nat, failed : Nat, depth : Int]
            <4> HIDE DEF IInv, Receive, history
            <4> QED BY <3>2
        <3> QED BY <3>3, <3>4
    <2>3. batch' \in [Workers -> [chunks : SUBSET Chunks, len : Nat]]
        <3>1. [chunks |-> batch[w].chunks \cup {c}, len |-> batch[w].len + Size[c]]
                \in [chunks : SUBSET Chunks, len : Nat]
            BY <1>1, <1>2 DEF TypeOK
        <3> QED BY <1>2, <3>1 DEF TypeOK
    <2>4. Len(queue') <= chunkCap
        BY <1>1, CapType DEF TypeOK
    <2> QED BY <1>1, <2>1, <2>2, <2>3, <2>4 DEF TypeOK
<1>6. c \in Queued /\ c \notin Batched
    BY <1>1 DEF ChunkInOnePlace
<1>7. ChunkInOnePlace'
    <2>1. \A u, v \in Workers : u # v => batch'[u].chunks \cap batch'[v].chunks = {}
        <3>1. \A v \in Workers : c \notin batch[v].chunks
            BY <1>6 DEF Batched
        <3> QED BY <1>3, <3>1 DEF ChunkInOnePlace
    <2>2. Queued' \cap Batched' = {}
        BY <1>1, <1>3 DEF ChunkInOnePlace
    <2>3. Queued' \cup Batched' = Queued \cup Batched
        BY <1>1, <1>3
    <2> QED BY <1>1, <2>1, <2>2, <2>3 DEF ChunkInOnePlace
<1>8. LenInv'
    <2>1. batch[w].len \in Nat
        BY DEF TypeOK
    <2> QED BY <1>2, <1>3, <2>1 DEF LenInv
<1>9. HandedInv'
    <2>1. \A p \in Procs : handed[c][p] = 0
        BY <1>1, <1>6 DEF HandedInv, ChunkInOnePlace
    <2>2. \A d \in batch'[w].chunks, p \in Procs : handed[d][p] = 0
        BY <1>3, <1>4, <2>1 DEF HandedInv
    <2>3. \A p \in Procs : ~(p < 1)
        BY DEF Procs
    <2>4. \A d \in batch'[w].chunks, p \in Procs :
            handed[d][p] = IF worker'[w].pc = "dispatch" /\ p < worker'[w].proc THEN 1 ELSE 0
        BY <1>4, <2>2, <2>3
    <2>5. \A v \in Workers \ {w} : worker'[v] = worker[v]
        BY <1>4
    <2>6. \A v \in Workers : \A d \in batch'[v].chunks, p \in Procs :
            handed[d][p] = IF worker'[v].pc = "dispatch" /\ p < worker'[v].proc THEN 1 ELSE 0
        BY <1>3, <2>4, <2>5 DEF HandedInv
    <2> QED BY <1>3, <2>6 DEF HandedInv
<1>10. LeavingInv'
    <2>1. Drained => Drained'
        BY DEF Drained
    <2>2. worker'[w].pc # "done" /\ (worker'[w].leaving => worker[w].leaving)
        BY <1>4
    <2>3. \A v \in Workers \ {w} : worker'[v] = worker[v]
        BY <1>4
    <2>4. ~stopped
        BY <1>4 DEF LeavingInv
    <2> QED BY <1>3, <2>1, <2>2, <2>3, <2>4 DEF LeavingInv
<1> QED BY <1>5, <1>7, <1>8, <1>9, <1>10

(* A flush decides between dispatch, return and the next select. *)
LEMMA FlushInv ==
    ASSUME IInv, NEW w \in Workers, SeeClosed(w) \/ Tick(w) \/ SeeDone(w)
    PROVE  IInv'
<1> USE DEF IInv, history
<1>1. /\ UNCHANGED <<queue, closed, sent, batch, ctxDone, stopped, counts, history>>
      /\ worker[w].pc = "select"
      /\ \E leaving \in BOOLEAN :
           /\ Flush(w, batch[w], leaving)
           /\ leaving => Drained \/ ctxDone
    BY DEF SeeClosed, Tick, SeeDone, AtSelect, Drained
<1>2. PICK leaving \in BOOLEAN :
           /\ Flush(w, batch[w], leaving)
           /\ leaving => Drained \/ ctxDone
    BY <1>1
<1>3. /\ \A v \in Workers \ {w} : worker'[v] = worker[v]
      /\ worker'[w].proc = 1 /\ worker'[w].leaving = leaving
      /\ worker'[w].pc = "done" => leaving /\ batch[w].len = 0
      /\ worker' \in [Workers -> [pc : {"select", "dispatch", "done"},
                               proc : 1 .. Processors + 1, leaving : BOOLEAN]]
    BY <1>1, <1>2, PipelineAssumption DEF TypeOK, Flush
<1>4. Queued' = Queued /\ Batched' = Batched
    BY <1>1 DEF Queued, Batched
<1>5. TypeOK'
    BY <1>1, <1>3 DEF TypeOK
<1>6. ChunkInOnePlace' /\ LenInv'
    BY <1>1, <1>4 DEF ChunkInOnePlace, LenInv
<1>7. HandedInv'
    <2>1. \A p \in Procs : ~(p < 1)
        BY DEF Procs
    <2>2. \A c \in batch[w].chunks, p \in Procs : handed[c][p] = 0
        BY <1>1 DEF HandedInv
    <2>3. \A c \in batch'[w].chunks, p \in Procs :
            handed'[c][p] = IF worker'[w].pc = "dispatch" /\ p < worker'[w].proc THEN 1 ELSE 0
        BY <1>1, <1>3, <2>1, <2>2
    <2>4. \A v \in Workers : \A c \in batch'[v].chunks, p \in Procs :
            handed'[c][p] = IF worker'[v].pc = "dispatch" /\ p < worker'[v].proc THEN 1 ELSE 0
        BY <1>1, <1>3, <2>3 DEF HandedInv
    <2> QED BY <1>1, <1>4, <2>4 DEF HandedInv
<1>8. LeavingInv'
    <2>1. ~stopped
        BY <1>1 DEF LeavingInv
    <2>2. Drained' = Drained
        BY <1>1 DEF Drained
    <2> QED BY <1>1, <1>2, <1>3, <2>1, <2>2 DEF LeavingInv, LenInv
<1> QED BY <1>5, <1>6, <1>7, <1>8

(* A processor is given each chunk of the batch. *)
LEMMA ProcessInv ==
    ASSUME IInv, NEW w \in Workers, NEW ok \in BOOLEAN, Process(w, ok)
    PROVE  IInv'
<1> USE DEF IInv
<1> DEFINE k == worker[w].proc
<1>1. /\ k \in Procs /\ worker[w].pc = "dispatch"
      /\ worker' = [worker EXCEPT ![w].proc = k + 1]
      /\ UNCHANGED <<queue, closed, sent, batch, ctxDone, stopped, offered, refused, panicked, done>>
    BY DEF Process, NextProc
<1>2. /\ \A v \in Workers : worker'[v].pc = worker[v].pc /\ worker'[v].leaving = worker[v].leaving
      /\ \A v \in Workers \ {w} : worker'[v] = worker[v]
      /\ worker'[w].proc = k + 1
      /\ worker' \in [Workers -> [pc : {"select", "dispatch", "done"},
                               proc : 1 .. Processors + 1, leaving : BOOLEAN]]
    <2>1. k + 1 \in 1 .. Processors + 1
        BY <1>1, PipelineAssumption DEF Procs
    <2>2. worker \in [Workers -> [pc : {"select", "dispatch", "done"},
                               proc : 1 .. Processors + 1, leaving : BOOLEAN]]
        BY DEF TypeOK
    <2> HIDE DEF k
    <2> QED BY <1>1, <2>1, <2>2
<1>3. /\ handed' \in [Chunks -> [Procs -> Nat]]
      /\ \A c \in Chunks \ batch[w].chunks : handed'[c] = handed[c]
      /\ \A c \in batch[w].chunks : \A p \in Procs :
           handed'[c][p] = IF p = k THEN handed[c][p] + 1 ELSE handed[c][p]
    <2>1. handed' = [c \in Chunks |->
                       IF c \in batch[w].chunks THEN [handed[c] EXCEPT ![k] = @ + 1] ELSE handed[c]]
        BY DEF Process
    <2>2. \A c \in Chunks : handed[c] \in [Procs -> Nat]
        BY DEF TypeOK
    <2>3. \A c \in Chunks : [handed[c] EXCEPT ![k] = @ + 1] \in [Procs -> Nat]
        BY <1>1, <2>2
    <2>4. batch[w].chunks \subseteq Chunks
        BY DEF TypeOK
    <2> QED BY <1>1, <2>1, <2>2, <2>3, <2>4
<1> HIDE DEF k
<1>4. Queued' = Queued /\ Batched' = Batched
    BY <1>1 DEF Queued, Batched
<1>5. TypeOK'
    <2>1. counts' \in [enqueued : Nat, dropped : Nat, processed : Nat, failed : Nat, depth : Int]
        <3>1. PICK n \in Nat : n = batch[w].len
            BY DEF TypeOK
        <3>2. counts' = counts \/ counts' = [counts EXCEPT !.failed = @ + n]
            BY <3>1 DEF Process
        <3> QED BY <3>2 DEF TypeOK
    <2> QED BY <1>1, <1>2, <1>3, <2>1 DEF TypeOK
<1>6. ChunkInOnePlace' /\ LenInv'
    BY <1>1, <1>4 DEF ChunkInOnePlace, LenInv
<1>7. HandedInv'
    <2>1. /\ batch[w].chunks \subseteq Batched /\ batch[w].chunks \cap done = {}
          /\ \A v \in Workers \ {w} : batch[v].chunks \subseteq Chunks \ batch[w].chunks
          /\ done \subseteq Chunks
        BY DEF ChunkInOnePlace, Batched, TypeOK
    <2>2. \A c \in Chunks \ (Batched \cup done), p \in Procs : handed'[c][p] = 0
        BY <1>3, <2>1 DEF HandedInv
    <2>3. \A c \in done, p \in Procs : handed'[c][p] = 1
        BY <1>3, <2>1 DEF HandedInv
    <2>4. \A c \in batch[w].chunks, p \in Procs :
            handed'[c][p] = IF p < k + 1 THEN 1 ELSE 0
        <3>1. \A c \in batch[w].chunks, p \in Procs : handed[c][p] = IF p < k THEN 1 ELSE 0
            BY <1>1 DEF HandedInv, k
        <3>2. \A p \in Procs : p < k + 1 <=> p < k \/ p = k
            BY <1>1 DEF Procs
        <3>3. ~(k < k)
            BY <1>1 DEF Procs
        <3> QED BY <1>3, <3>1, <3>2, <3>3
    <2>5. \A v \in Workers : \A c \in batch'[v].chunks, p \in Procs :
            handed'[c][p] = IF worker'[v].pc = "dispatch" /\ p < worker'[v].proc THEN 1 ELSE 0
        <3>1. CASE Workers = {w}
            BY <1>1, <1>2, <2>4, <3>1
        <3>2. \A v \in Workers \ {w} : \A c \in batch'[v].chunks, p \in Procs :
                handed'[c][p] = IF worker'[v].pc = "dispatch" /\ p < worker'[v].proc THEN 1 ELSE 0
            BY <1>1, <1>2, <1>3, <2>1 DEF HandedInv
        <3> QED BY <1>1, <1>2, <2>4, <3>2
    <2> QED BY <1>1, <1>4, <2>2, <2>3, <2>5 DEF HandedInv
<1>8. LeavingInv'
    <2>1. Drained' = Drained
        BY <1>1 DEF Drained
    <2> QED BY <1>1, <1>2, <2>1 DEF LeavingInv
<1> QED BY <1>5, <1>6, <1>7, <1>8

(* The batch is complete and its slice is reused. *)
LEMMA EndDispatchInv ==
    ASSUME IInv, NEW w \in Workers, EndDispatch(w)
    PROVE  IInv'
<1> USE DEF IInv
<1>1. /\ worker[w].pc = "dispatch" /\ worker[w].proc \notin Procs
      /\ done' = done \cup batch[w].chunks
      /\ batch' = [batch EXCEPT ![w] = EmptyBatch]
      /\ UNCHANGED <<queue, closed, sent, ctxDone, stopped, offered, refused, panicked, handed>>
    BY DEF EndDispatch
<1>2. /\ batch'[w].chunks = {} /\ batch' \in [Workers -> [chunks : SUBSET Chunks, len : Nat]]
      /\ \A v \in Workers \ {w} : batch'[v] = batch[v]
    <2>1. EmptyBatch \in [chunks : SUBSET Chunks, len : Nat] /\ EmptyBatch.chunks = {}
        BY DEF EmptyBatch
    <2> QED BY <1>1, <2>1 DEF TypeOK
<1>3. /\ \A v \in Workers \ {w} : worker'[v] = worker[v]
      /\ worker'[w].leaving = worker[w].leaving
      /\ worker'[w].pc = "done" => worker'[w].leaving
      /\ worker'[w].pc # "dispatch"
      /\ worker' \in [Workers -> [pc : {"select", "dispatch", "done"},
                               proc : 1 .. Processors + 1, leaving : BOOLEAN]]
    <2>1. worker[w].leaving \in BOOLEAN
        BY DEF TypeOK
    <2> QED BY <2>1, PipelineAssumption DEF TypeOK, EndDispatch
<1>4. /\ Queued' = Queued /\ Batched' = Batched \ batch[w].chunks
      /\ batch[w].chunks \subseteq Batched
    <2>1. Queued' = Queued
        BY <1>1 DEF Queued
    <2>2. \A v \in Workers \ {w} : batch[v].chunks \cap batch[w].chunks = {}
        BY DEF ChunkInOnePlace
    <2> QED BY <1>2, <2>1, <2>2 DEF Batched
<1>5. TypeOK'
    <2>1. counts' \in [enqueued : Nat, dropped : Nat, processed : Nat, failed : Nat, depth : Int]
        <3>1. PICK n \in Nat : n = batch[w].len
            BY DEF TypeOK
        <3>2. counts' = [counts EXCEPT !.processed = @ + n]
            BY <3>1 DEF EndDispatch, ProcessedMore
        <3>3. counts \in [enqueued : Nat, dropped : Nat, processed : Nat, failed : Nat, depth : Int]
            BY DEF TypeOK
        <3> HIDE DEF IInv
        <3> QED BY <3>2, <3>3
    <2>2. done' \subseteq Chunks
        BY <1>1 DEF TypeOK
    <2> QED BY <1>1, <1>2, <1>3, <2>1, <2>2 DEF TypeOK
<1>6. ChunkInOnePlace'
    <2>1. \A u, v \in Workers : u # v => batch'[u].chunks \cap batch'[v].chunks = {}
        BY <1>2 DEF ChunkInOnePlace
    <2>2. Queued' \cap Batched' = {}
        BY <1>4 DEF ChunkInOnePlace
    <2>3. (Queued' \cup Batched') \cap (done' \cup refused' \cup panicked') = {}
        BY <1>1, <1>4 DEF ChunkInOnePlace
    <2>4. offered' = Queued' \cup Batched' \cup done' \cup refused' \cup panicked'
        BY <1>1, <1>4 DEF ChunkInOnePlace
    <2> QED BY <1>1, <2>1, <2>2, <2>3, <2>4 DEF ChunkInOnePlace
<1>7. LenInv'
    BY <1>2 DEF LenInv
<1>8. HandedInv'
    <2>1. \A p \in Procs : p < worker[w].proc
        <3>1. worker[w].proc \in 1 .. Processors + 1
            BY DEF TypeOK
        <3> QED BY <1>1, <3>1, PipelineAssumption DEF Procs
    <2>2. \A c \in batch[w].chunks, p \in Procs : handed[c][p] = 1
        BY <1>1, <2>1 DEF HandedInv
    <2>3. \A c \in done', p \in Procs : handed'[c][p] = 1
        BY <1>1, <2>2 DEF HandedInv
    <2>4. \A c \in Chunks \ (Batched' \cup done'), p \in Procs : handed'[c][p] = 0
        BY <1>1, <1>4 DEF HandedInv
    <2>5. \A v \in Workers : \A c \in batch'[v].chunks, p \in Procs :
            handed'[c][p] = IF worker'[v].pc = "dispatch" /\ p < worker'[v].proc THEN 1 ELSE 0
        BY <1>1, <1>2, <1>3 DEF HandedInv
    <2> QED BY <2>3, <2>4, <2>5 DEF HandedInv
<1>9. LeavingInv'
    <2>1. ~stopped
        BY <1>1 DEF LeavingInv
    <2>2. Drained' = Drained
        BY <1>1 DEF Drained
    <2> QED BY <1>1, <1>2, <1>3, <2>1, <2>2 DEF LeavingInv
<1> QED BY <1>5, <1>6, <1>7, <1>8, <1>9

-----------------------------------------------------------------------------
(* The invariant holds in every behaviour of the pipeline: whatever        *)
(* arrives, however the workers interleave and whichever processors fail.  *)
THEOREM Invariance == Spec => []IInv
<1>1. Init => IInv
    BY InitInv
<1>2. IInv /\ [Next]_vars => IInv'
    <2> SUFFICES ASSUME IInv, [Next]_vars PROVE IInv'
        OBVIOUS
    <2>1. ASSUME NEW h \in Handlers, NEW c \in Chunks, Send(h, c) \/ Drop(h, c) \/ Panic(h, c)
          PROVE  IInv'
        BY <2>1, SendInv, RefuseInv
    <2>2. CASE \/ \E h \in Handlers : CountSent(h)
               \/ Close \/ StopReturns \/ Cancel \/ UNCHANGED vars
        BY <2>2, QuietInv
    <2>3. ASSUME NEW w \in Workers, WorkerStep(w)
          PROVE  IInv'
        BY <2>3, ReceiveInv, FlushInv, ProcessInv, EndDispatchInv DEF WorkerStep
    <2> QED BY <2>1, <2>2, <2>3 DEF Next
<1> QED BY <1>1, <1>2, PTL DEF Spec

(* Every variable keeps its type and the channel its capacity. *)
THEOREM TypeCorrect == Spec => []TypeOK
<1>1. IInv => TypeOK
    BY DEF IInv
<1> QED BY <1>1, Invariance, PTL

(* A chunk given to Accept is in exactly one place, from the channel and   *)
(* the workers' reused slices to the end of its dispatch.                  *)
THEOREM ChunkInOnePlaceAlways == Spec => []ChunkInOnePlace
<1>1. IInv => ChunkInOnePlace
    BY DEF IInv
<1> QED BY <1>1, Invariance, PTL

(* Whatever processors fail, a dispatched chunk has been given to each of  *)
(* them once, and no chunk is given to a processor twice.                  *)
THEOREM EachProcessorOnceAlways == Spec => []EachProcessorOnce
<1>1. IInv => EachProcessorOnce
    <2> SUFFICES ASSUME IInv PROVE EachProcessorOnce
        OBVIOUS
    <2>1. \A c \in done, p \in Procs : handed[c][p] = 1
        BY DEF IInv, HandedInv
    <2>2. \A c \in Chunks, p \in Procs : handed[c][p] \in {0, 1}
        BY DEF IInv, HandedInv, Batched
    <2>3. \A c \in Chunks, p \in Procs : handed[c][p] <= 1
        BY <2>2
    <2> QED BY <2>1, <2>3 DEF EachProcessorOnce
<1> QED BY <1>1, Invariance, PTL

(* When Stop has returned no batch is left, and without a cancelled        *)
(* context nothing accepted is left in the channel.                        *)
THEOREM StopDrainsAlways == Spec => []StopDrains
<1>1. IInv => StopDrains
    <2> SUFFICES ASSUME IInv, stopped
                 PROVE  /\ Batched = {}
                        /\ ~ctxDone => offered = done \cup refused \cup panicked
        BY DEF StopDrains
    <2>1. \A w \in Workers : worker[w].leaving /\ batch[w].chunks = {}
        BY DEF IInv, LeavingInv
    <2>2. Batched = {}
        BY <2>1 DEF Batched
    <2>3. ~ctxDone => Queued = {}
        BY <2>1, PipelineAssumption DEF IInv, LeavingInv, Drained, Queued
    <2> QED BY <2>2, <2>3 DEF IInv, ChunkInOnePlace
<1> QED BY <1>1, Invariance, PTL
-----------------------------------------------------------------------------
(* What the ledger says of a chunk, and what the step leaves of it. *)
LEMMA LedgerIs ==
    /\ \A c \in Chunks :
         /\ Status[c] = IF c \notin offered THEN "unseen"
                        ELSE IF c \in refused \cup panicked THEN "refused"
                        ELSE IF c \in done THEN "done"
                        ELSE "accepted"
         /\ HadBy[c] = {p \in Procs : handed[c][p] > 0}
    /\ DOMAIN Status = Chunks /\ DOMAIN HadBy = Chunks
BY DEF Status, HadBy

(* A chunk on its way is an accepted one. *)
LEMMA InBatch ==
    ASSUME IInv, NEW w \in Workers, NEW c \in batch[w].chunks
    PROVE  /\ c \in Chunks /\ Status[c] = "accepted"
           /\ worker[w].pc = "dispatch" => HadBy[c] = 1 .. worker[w].proc - 1
<1>1. c \in Chunks /\ c \in Batched
    BY DEF IInv, TypeOK, Batched
<1>2. c \in offered /\ c \notin done \cup refused \cup panicked
    BY <1>1 DEF IInv, ChunkInOnePlace
<1>3. ASSUME worker[w].pc = "dispatch" PROVE HadBy[c] = 1 .. worker[w].proc - 1
    <2>1. PICK n : n = worker[w].proc
        OBVIOUS
    <2>2. n \in 1 .. Processors + 1
        BY <2>1 DEF IInv, TypeOK
    <2>3. \A p \in Procs : handed[c][p] = IF p < n THEN 1 ELSE 0
        BY <1>3, <2>1 DEF IInv, HandedInv
    <2>4. {p \in Procs : handed[c][p] > 0} = {p \in Procs : p < n}
        BY <2>3
    <2>5. {p \in Procs : p < n} = 1 .. n - 1
        BY <2>2, PipelineAssumption DEF Procs
    <2> QED BY <1>1, <2>1, <2>4, <2>5, LedgerIs
<1> QED BY <1>1, <1>2, <1>3, LedgerIs

(* Accept takes the chunk, on an open channel, or refuses it.              *)
LEMMA LedgerOffer ==
    ASSUME IInv, NEW h \in Handlers, NEW c \in Chunks, Send(h, c) \/ Drop(h, c) \/ Panic(h, c)
    PROVE  [Ledger!Next]_(Ledger!ledger)
<1>1. /\ c \notin offered /\ offered' = offered \cup {c}
      /\ UNCHANGED <<closed, ctxDone, stopped, handed, done>>
    BY DEF Send, Drop, Panic, Offer
<1>2. HadBy' = HadBy /\ Phase' = Phase /\ ctxDone' = ctxDone
    BY <1>1 DEF HadBy, Phase
<1>3. Status[c] = "unseen" /\ c \notin refused \cup panicked \cup done
    BY <1>1, LedgerIs DEF IInv, ChunkInOnePlace
<1>4. CASE Send(h, c)
    <2>1. UNCHANGED <<refused, panicked>> /\ ~closed
        BY <1>4 DEF Send
    <2>2. Status' = [Status EXCEPT ![c] = "accepted"]
        BY <1>1, <1>3, <2>1 DEF Status
    <2>3. Phase = "open"
        BY <2>1 DEF Phase, IInv, LeavingInv
    <2>4. Ledger!Accept(c)
        BY <1>2, <1>3, <2>2, <2>3 DEF Ledger!Accept
    <2> QED BY <2>4 DEF Ledger!Next
<1>5. CASE Drop(h, c) \/ Panic(h, c)
    <2>1. refused' \cup panicked' = refused \cup panicked \cup {c}
        BY <1>5 DEF Drop, Panic
    <2>2. Status' = [Status EXCEPT ![c] = "refused"]
        BY <1>1, <2>1 DEF Status
    <2>3. Ledger!Refuse(c)
        BY <1>2, <1>3, <2>2 DEF Ledger!Refuse
    <2> QED BY <2>3 DEF Ledger!Next
<1> QED BY <1>4, <1>5

(* Process gives the whole batch to one processor, all of whose predecessors *)
(* have had it: an error of theirs has stopped nothing.                    *)
LEMMA LedgerProcess ==
    ASSUME IInv, NEW w \in Workers, NEW ok \in BOOLEAN, Process(w, ok)
    PROVE  [Ledger!Next]_(Ledger!ledger)
<1>1. PICK C, p : C = batch[w].chunks /\ p = worker[w].proc
    OBVIOUS
<1>2. /\ worker[w].pc = "dispatch" /\ p \in Procs
      /\ UNCHANGED <<closed, ctxDone, stopped, offered, refused, panicked, done>>
    BY <1>1 DEF Process
<1>3. \A c \in Chunks : handed'[c] = IF c \in C THEN [handed[c] EXCEPT ![p] = @ + 1] ELSE handed[c]
    BY <1>1 DEF Process
<1>4. Status' = Status /\ Phase' = Phase /\ ctxDone' = ctxDone
    BY <1>2 DEF Status, Phase
<1>5. Phase # "stopped"
    BY <1>2 DEF Phase, IInv, LeavingInv
<1>6. \A c \in C : c \in Chunks /\ Status[c] = "accepted" /\ HadBy[c] = 1 .. p - 1
    BY <1>1, <1>2, InBatch
<1>7. ASSUME NEW c \in Chunks PROVE HadBy'[c] = IF c \in C THEN 1 .. p ELSE HadBy[c]
    <2>1. HadBy'[c] = {q \in Procs : handed'[c][q] > 0}
        BY DEF HadBy
    <2>2. CASE c \notin C
        BY <1>3, <2>1, <2>2, LedgerIs
    <2>3. CASE c \in C
        <3>1. handed[c] \in [Procs -> Nat] /\ p \in Nat
            BY <1>2, PipelineAssumption DEF IInv, TypeOK, Procs
        <3>2. \A q \in Procs : handed'[c][q] = IF q = p THEN handed[c][p] + 1 ELSE handed[c][q]
            BY <1>2, <1>3, <2>3, <3>1
        <3>3. {q \in Procs : handed'[c][q] > 0} = {q \in Procs : handed[c][q] > 0} \cup {p}
            <4>1. \A q \in Procs : handed[c][q] \in Nat /\ handed[c][p] \in Nat
                BY <1>2, <3>1
            <4>2. \A q \in Procs : handed'[c][q] > 0 <=> handed[c][q] > 0 \/ q = p
                BY <3>2, <4>1
            <4> QED BY <1>2, <4>2
        <3>4. {q \in Procs : handed[c][q] > 0} = 1 .. p - 1
            BY <1>6, <2>3, LedgerIs
        <3>5. (1 .. p - 1) \cup {p} = 1 .. p
            BY <1>2, PipelineAssumption DEF Procs
        <3> QED BY <2>1, <2>3, <3>3, <3>4, <3>5
    <2> QED BY <2>2, <2>3
<1>8. HadBy' = [c \in Chunks |-> IF c \in C THEN 1 .. p ELSE HadBy[c]]
    <2>1. HadBy' = [c \in Chunks |-> HadBy'[c]]
        BY DEF HadBy
    <2> QED BY <1>7, <2>1
<1>9. Ledger!Give(C, p)
    BY <1>4, <1>5, <1>6, <1>8 DEF Ledger!Give, Ledger!Taken
<1>10. C \in SUBSET Chunks /\ p \in 1 .. Processors
    BY <1>2, <1>6 DEF Procs
<1> QED BY <1>9, <1>10 DEF Ledger!Next

(* A dispatch ends when every processor has had the batch.                 *)
LEMMA LedgerComplete ==
    ASSUME IInv, NEW w \in Workers, EndDispatch(w)
    PROVE  [Ledger!Next]_(Ledger!ledger)
<1>1. PICK C, p : C = batch[w].chunks /\ p = worker[w].proc
    OBVIOUS
<1>2. /\ worker[w].pc = "dispatch" /\ p \notin Procs /\ done' = done \cup C
      /\ UNCHANGED <<closed, ctxDone, stopped, offered, refused, panicked, handed>>
    BY <1>1 DEF EndDispatch
<1>3. p = Processors + 1
    BY <1>1, <1>2, PipelineAssumption DEF IInv, TypeOK, Procs
<1>4. HadBy' = HadBy /\ Phase' = Phase /\ ctxDone' = ctxDone
    BY <1>2 DEF HadBy, Phase
<1>5. Phase # "stopped"
    BY <1>2 DEF Phase, IInv, LeavingInv
<1>6. \A c \in C : c \in Chunks /\ Status[c] = "accepted" /\ HadBy[c] = 1 .. Processors
    <2>1. p - 1 = Processors
        BY <1>3, PipelineAssumption
    <2> QED BY <1>1, <1>2, <2>1, InBatch
<1>7. Status' = [c \in Chunks |-> IF c \in C THEN "done" ELSE Status[c]]
    <2>1. \A c \in C : c \in offered /\ c \notin refused \cup panicked
        BY <1>6, LedgerIs
    <2> QED BY <1>2, <2>1 DEF Status
<1>8. Ledger!Complete(C)
    BY <1>4, <1>5, <1>6, <1>7 DEF Ledger!Complete, Ledger!Taken
<1>9. C \in SUBSET Chunks
    BY <1>6
<1> QED BY <1>8, <1>9 DEF Ledger!Next

(* Stop returns when no worker holds a batch; a worker that left chunks in *)
(* the channel saw the context cancelled.                                  *)
LEMMA LedgerStop ==
    ASSUME IInv, Close \/ Cancel \/ StopReturns
    PROVE  [Ledger!Next]_(Ledger!ledger)
<1>1. UNCHANGED <<offered, refused, panicked, handed, done>>
    BY DEF Close, Cancel, StopReturns, history
<1>2. Status' = Status /\ HadBy' = HadBy
    BY <1>1 DEF Status, HadBy
<1>3. CASE Close
    <2>1. Phase = "open" /\ Phase' = "closed" /\ ctxDone' = ctxDone
        BY <1>3 DEF Close, Phase, IInv, LeavingInv
    <2>2. Ledger!Close
        BY <1>2, <2>1 DEF Ledger!Close
    <2> QED BY <2>2 DEF Ledger!Next
<1>4. CASE Cancel
    <2>1. Phase' = Phase /\ ~ctxDone /\ ctxDone' = TRUE
        BY <1>4 DEF Cancel, Phase
    <2>2. Ledger!Cancel
        BY <1>2, <2>1 DEF Ledger!Cancel
    <2> QED BY <2>2 DEF Ledger!Next
<1>5. CASE StopReturns
    <2>1. Phase = "closed" /\ Phase' = "stopped" /\ ctxDone' = ctxDone
        BY <1>5 DEF StopReturns, Phase
    <2>2. \A w \in Workers : worker[w].leaving /\ batch[w].chunks = {}
        BY <1>5 DEF StopReturns, IInv, LeavingInv
    <2>3. ASSUME NEW c \in Chunks, Status[c] = "accepted"
          PROVE  ctxDone = TRUE /\ HadBy[c] = {}
        <3>1. c \in offered /\ c \notin refused \cup panicked \cup done
            BY <2>3, LedgerIs
        <3>2. c \notin Batched /\ c \in Queued
            BY <2>2, <3>1 DEF Batched, IInv, ChunkInOnePlace
        <3>3. queue # <<>>
            BY <3>2 DEF Queued
        <3>4. ctxDone = TRUE
            BY <2>2, <3>3, PipelineAssumption DEF IInv, LeavingInv, Drained, TypeOK
        <3>5. \A p \in Procs : handed[c][p] = 0
            BY <3>1, <3>2 DEF IInv, HandedInv
        <3>6. HadBy[c] = {}
            BY <3>5, LedgerIs
        <3> QED BY <3>4, <3>6
    <2>4. Ledger!StopReturns
        BY <1>2, <2>1, <2>3 DEF Ledger!StopReturns, Ledger!Taken
    <2> QED BY <2>4 DEF Ledger!Next
<1> QED BY <1>3, <1>4, <1>5

(* Counting and batching are invisible to the ledger.                      *)
LEMMA LedgerStep ==
    ASSUME IInv, [Next]_vars
    PROVE  [Ledger!Next]_(Ledger!ledger)
<1>1. ASSUME UNCHANGED <<closed, ctxDone, stopped, history>> PROVE [Ledger!Next]_(Ledger!ledger)
    BY <1>1 DEF history, Status, HadBy, Phase, Ledger!ledger
<1>2. CASE \E h \in Handlers, c \in Chunks : Send(h, c) \/ Drop(h, c) \/ Panic(h, c)
    BY <1>2, LedgerOffer
<1>3. ASSUME NEW h \in Handlers, CountSent(h) PROVE [Ledger!Next]_(Ledger!ledger)
    BY <1>1, <1>3 DEF CountSent
<1>4. ASSUME NEW w \in Workers, WorkerStep(w) PROVE [Ledger!Next]_(Ledger!ledger)
    <2>1. CASE Receive(w) \/ SeeClosed(w) \/ Tick(w) \/ SeeDone(w)
        BY <1>1, <2>1 DEF Receive, SeeClosed, Tick, SeeDone
    <2>2. CASE \E ok \in BOOLEAN : Process(w, ok)
        BY <2>2, LedgerProcess
    <2>3. CASE EndDispatch(w)
        BY <2>3, LedgerComplete
    <2> QED BY <1>4, <2>1, <2>2, <2>3 DEF WorkerStep
<1>5. CASE Close \/ StopReturns \/ Cancel
    BY <1>5, LedgerStop
<1>6. CASE UNCHANGED vars
    BY <1>1, <1>6 DEF vars, history
<1> QED BY <1>2, <1>3, <1>4, <1>5, <1>6 DEF Next

(* The pipeline implements the ledger of chunks: Accept decides about a    *)
(* chunk once, dispatch takes it through the processors in order and to the *)
(* end, and Stop returns with nothing half way.                            *)
THEOREM ImplementsChunkLedger == Spec => ChunkLedgerSpec
<1>1. Init => Ledger!Init
    BY DEF Init, Ledger!Init, Status, HadBy, Phase
<1>2. IInv /\ [Next]_vars => [Ledger!Next]_(Ledger!ledger)
    BY LedgerStep
<1> QED BY <1>1, <1>2, Invariance, PTL DEF Spec, ChunkLedgerSpec, Ledger!Spec

-----------------------------------------------------------------------------
(***************************************************************************)
(* The counters.  A chunk waiting to be counted was offered, and has one   *)
(* sender; only finitely many chunks have been offered.                    *)
(***************************************************************************)
SentInv ==
    /\ IsFiniteSet(offered)
    /\ \A h \in Handlers : sent[h] # None => sent[h] \in offered
    /\ \A h, g \in Handlers : sent[h] # None /\ sent[h] = sent[g] => h = g

CountInv == SentInv /\ DepthNeverDrifts /\ CountersBalance

(* How the spans of a set of chunks are counted. *)
LEMMA SizeFacts ==
    ASSUME NEW C \in SUBSET Chunks, IsFiniteSet(C)
    PROVE  /\ SizeOf(C) \in Nat
           /\ SizeOf({}) = 0
           /\ \A c \in Chunks \ C : SizeOf(C \cup {c}) = Size[c] + SizeOf(C)
           /\ \A D \in SUBSET Chunks :
                IsFiniteSet(D) /\ C \cap D = {} => SizeOf(C \cup D) = SizeOf(C) + SizeOf(D)
<1>1. \A c \in Chunks : Size[c] \in Nat
    BY PipelineAssumption
<1>2. SizeOf(C) \in Nat /\ SizeOf({}) = 0
    BY <1>1, SumType, SumEmpty DEF SizeOf
<1>3. ASSUME NEW c \in Chunks \ C
      PROVE  SizeOf(C \cup {c}) = Size[c] + SizeOf(C)
    <2>1. \A x \in C \cup {c} : Size[x] \in Nat
        BY <1>1
    <2> QED BY <2>1, SumAdd DEF SizeOf
<1>4. ASSUME NEW D \in SUBSET Chunks, IsFiniteSet(D), C \cap D = {}
      PROVE  SizeOf(C \cup D) = SizeOf(C) + SizeOf(D)
    <2>1. \A x \in C \cup D : Size[x] \in Nat
        BY <1>1
    <2> QED BY <1>4, <2>1, SumUnion DEF SizeOf
<1> QED BY <1>2, <1>3, <1>4

(* Every set of chunks the counters speak of is finite, and every counter  *)
(* a number.                                                               *)
LEMMA CountTypes ==
    ASSUME IInv, SentInv
    PROVE  /\ \A C \in {Queued, Batched, Uncounted, done, refused, offered} :
                C \in SUBSET Chunks /\ IsFiniteSet(C) /\ SizeOf(C) \in Nat
           /\ \A w \in Workers : /\ batch[w].chunks \in SUBSET Chunks
                                 /\ IsFiniteSet(batch[w].chunks)
                                 /\ SizeOf(batch[w].chunks) \in Nat
           /\ \A p \in Procs : /\ Given(p) \in SUBSET Chunks
                               /\ IsFiniteSet(Given(p))
                               /\ SizeOf(Given(p)) \in Nat
           /\ IsFiniteSet(Procs) /\ SpansGiven \in Nat
           /\ counts \in [enqueued : Nat, dropped : Nat, processed : Nat, failed : Nat, depth : Int]
<1>1. ASSUME NEW C, C \subseteq offered
      PROVE  C \in SUBSET Chunks /\ IsFiniteSet(C) /\ SizeOf(C) \in Nat
    <2>1. C \in SUBSET Chunks /\ IsFiniteSet(C)
        BY <1>1, FS_Subset DEF SentInv, IInv, TypeOK
    <2> QED BY <2>1, SizeFacts
<1>2. /\ Queued \subseteq offered /\ Batched \subseteq offered
      /\ done \subseteq offered /\ refused \subseteq offered
    BY DEF IInv, ChunkInOnePlace
<1>3. Uncounted \subseteq offered
    BY DEF SentInv, Uncounted
<1>4. \A w \in Workers : batch[w].chunks \subseteq offered
    BY <1>2 DEF Batched
<1>5. \A p \in Procs : Given(p) \subseteq offered
    <2> SUFFICES ASSUME NEW p \in Procs, NEW c \in Chunks, handed[c][p] > 0, c \notin offered
                 PROVE  FALSE
        BY DEF Given
    <2>1. handed[c][p] = 0
        BY <1>2 DEF IInv, HandedInv
    <2> QED BY <2>1
<1>6. IsFiniteSet(Procs)
    BY PipelineAssumption, FS_Interval DEF Procs
<1>7. counts \in [enqueued : Nat, dropped : Nat, processed : Nat, failed : Nat, depth : Int]
    BY DEF IInv, TypeOK
<1>8. SpansGiven \in Nat
    <2> DEFINE f == [p \in Procs |-> SizeOf(Given(p))]
    <2>1. \A p \in Procs : f[p] \in Nat
        BY <1>1, <1>5
    <2> HIDE DEF f
    <2>2. SumOver(f, Procs) \in Nat
        BY <1>6, <2>1, SumType
    <2> QED BY <2>2 DEF f, SpansGiven
<1> QED BY <1>1, <1>2, <1>3, <1>4, <1>5, <1>6, <1>7, <1>8

LEMMA CountInit == Init => CountInv
<1> SUFFICES ASSUME Init PROVE CountInv
    OBVIOUS
<1>1. SizeOf({}) = 0
    BY SumEmpty DEF SizeOf
<1>2. /\ Queued = {} /\ Batched = {} /\ Uncounted = {} /\ done = {} /\ refused = {}
      /\ \A w \in Workers : batch[w].chunks = {} /\ batch[w].len = 0
    BY DEF Init, Queued, Batched, Uncounted, EmptyBatch
<1>3. counts = [enqueued |-> 0, dropped |-> 0, processed |-> 0, failed |-> 0, depth |-> 0]
    BY DEF Init
<1>4. SpansGiven = 0
    <2> DEFINE f == [p \in Procs |-> SizeOf(Given(p))]
    <2>1. \A p \in Procs : f[p] = 0
        <3>1. \A p \in Procs : Given(p) = {}
            BY DEF Init, Given
        <3> QED BY <1>1, <3>1
    <2>2. IsFiniteSet(Procs)
        BY PipelineAssumption, FS_Interval DEF Procs
    <2> HIDE DEF f
    <2>3. SumOver(f, Procs) = 0
        BY <2>1, <2>2, SumZero
    <2> QED BY <2>3 DEF f, SpansGiven
<1>5. SentInv
    BY FS_EmptySet DEF Init, SentInv
<1>6. DepthNeverDrifts
    BY <1>1, <1>2, <1>3 DEF DepthNeverDrifts
<1>7. CountersBalance
    <2>1. /\ counts.enqueued = 0 /\ counts.dropped = 0 /\ counts.processed = 0
          /\ counts.failed = 0
        BY <1>3
    <2>2. counts.failed <= SpansGiven
        BY <1>4, <2>1
    <2>3. /\ SizeOf(Uncounted) = 0 /\ SizeOf(Queued) = 0 /\ SizeOf(Batched) = 0
          /\ SizeOf(refused) = 0 /\ SizeOf(done) = 0
          /\ \A w \in Workers : batch[w].len = SizeOf(batch[w].chunks)
        BY <1>1, <1>2
    <2>4. counts.enqueued + SizeOf(Uncounted) = SizeOf(Queued) + SizeOf(Batched) + counts.processed
        BY <2>1, <2>3
    <2> QED BY <2>1, <2>2, <2>3, <2>4 DEF CountersBalance
<1> QED BY <1>5, <1>6, <1>7 DEF CountInv

(* The sender of a chunk has yet to count it. *)
LEMMA CountSend ==
    ASSUME IInv, IInv', CountInv, NEW h \in Handlers, NEW c \in Chunks, Send(h, c)
    PROVE  CountInv'
<1>1. /\ sent[h] = None /\ c \notin offered /\ offered' = offered \cup {c}
      /\ sent' = [sent EXCEPT ![h] = c] /\ c # None
      /\ UNCHANGED <<batch, counts, refused, handed, done>>
    BY PipelineAssumption DEF Send, Offer
<1>2. sent'[h] = c /\ \A g \in Handlers \ {h} : sent'[g] = sent[g]
    BY <1>1 DEF IInv, TypeOK
<1>3. SentInv'
    <2>1. IsFiniteSet(offered')
        BY <1>1, FS_AddElement DEF CountInv, SentInv
    <2> QED BY <1>1, <1>2, <2>1 DEF CountInv, SentInv
<1>4. Queued' = Queued \cup {c} /\ c \notin Queued /\ Batched' = Batched
    <2>1. c \notin Queued /\ queue \in Seq(Chunks) /\ queue' = Append(queue, c)
        BY <1>1 DEF IInv, ChunkInOnePlace, TypeOK, Send
    <2>2. Queued' = Queued \cup {c}
        BY <2>1, AppendFacts DEF IInv, ChunkInOnePlace, Queued
    <2> QED BY <1>1, <2>1, <2>2 DEF Batched
<1>5. Uncounted' = Uncounted \cup {c} /\ c \notin Uncounted
    <2>1. c \notin Uncounted
        BY <1>1 DEF CountInv, SentInv, Uncounted
    <2> QED BY <1>1, <1>2, <2>1 DEF Uncounted
<1>6. /\ SizeOf(Queued') = Size[c] + SizeOf(Queued)
      /\ SizeOf(Uncounted') = Size[c] + SizeOf(Uncounted)
      /\ SizeOf(Queued) \in Nat /\ SizeOf(Uncounted) \in Nat /\ SizeOf(Batched) \in Nat
      /\ counts.depth \in Int /\ counts.enqueued \in Nat /\ counts.processed \in Nat
    BY <1>4, <1>5, CountTypes, SizeFacts DEF CountInv
<1>7. Size[c] \in Nat
    BY PipelineAssumption
<1>8. DepthNeverDrifts'
    BY <1>1, <1>6, <1>7 DEF CountInv, DepthNeverDrifts
<1>9. CountersBalance'
    <2>1. SpansGiven' = SpansGiven
        BY <1>1 DEF SpansGiven, Given
    <2>2. counts'.enqueued + SizeOf(Uncounted') = SizeOf(Queued') + SizeOf(Batched') + counts'.processed
        BY <1>1, <1>4, <1>6, <1>7 DEF CountInv, CountersBalance
    <2> QED BY <1>1, <2>1, <2>2 DEF CountInv, CountersBalance
<1> QED BY <1>3, <1>8, <1>9 DEF CountInv

(* It counts it, once. *)
LEMMA CountSentCounts ==
    ASSUME IInv, IInv', CountInv, NEW h \in Handlers, CountSent(h)
    PROVE  CountInv'
<1>1. PICK c : c = sent[h]
    OBVIOUS
<1>2. /\ c # None /\ c \in Chunks /\ Size[c] \in Nat
      /\ sent' = [sent EXCEPT ![h] = None]
      /\ UNCHANGED <<queue, batch, history>> /\ UNCHANGED history
    BY <1>1, PipelineAssumption DEF CountSent, IInv, TypeOK
<1>3. /\ counts'.enqueued = counts.enqueued + Size[c] /\ counts'.depth = counts.depth + Size[c]
      /\ counts'.processed = counts.processed /\ counts'.dropped = counts.dropped
      /\ counts'.failed = counts.failed
    <2>1. counts \in [enqueued : Nat, dropped : Nat, processed : Nat, failed : Nat, depth : Int]
        BY DEF IInv, TypeOK
    <2>2. PICK n : n = Size[c]
        OBVIOUS
    <2>3. counts' = [counts EXCEPT !.enqueued = @ + n, !.depth = @ + n]
        BY <1>1, <2>2 DEF CountSent
    <2>4. /\ counts'.enqueued = counts.enqueued + n /\ counts'.depth = counts.depth + n
          /\ counts'.processed = counts.processed /\ counts'.dropped = counts.dropped
          /\ counts'.failed = counts.failed
        BY <2>1, <2>3
    <2> QED BY <2>2, <2>4
<1>4. sent'[h] = None /\ \A g \in Handlers \ {h} : sent'[g] = sent[g]
    BY <1>2 DEF IInv, TypeOK
<1>5. SentInv'
    BY <1>2, <1>4 DEF CountInv, SentInv, history
<1>6. Uncounted = Uncounted' \cup {c} /\ c \notin Uncounted'
    <2>1. \A g \in Handlers : g # h => sent[g] # c
        BY <1>1, <1>2 DEF CountInv, SentInv
    <2> QED BY <1>1, <1>2, <1>4, <2>1 DEF Uncounted
<1>7. Queued' = Queued /\ Batched' = Batched /\ SpansGiven' = SpansGiven
    BY <1>2 DEF Queued, Batched, SpansGiven, Given, history
<1>8. /\ SizeOf(Uncounted) = Size[c] + SizeOf(Uncounted')
      /\ SizeOf(Uncounted') \in Nat /\ SizeOf(Uncounted) \in Nat
      /\ SizeOf(Queued) \in Nat /\ SizeOf(Batched) \in Nat
    <2>1. /\ Uncounted' \in SUBSET Chunks /\ IsFiniteSet(Uncounted')
          /\ SizeOf(Uncounted) \in Nat /\ SizeOf(Queued) \in Nat /\ SizeOf(Batched) \in Nat
        <3>1. Uncounted' \in SUBSET Uncounted /\ IsFiniteSet(Uncounted) /\ Uncounted \in SUBSET Chunks
            BY <1>6, CountTypes DEF CountInv
        <3> QED BY <3>1, CountTypes, FS_Subset DEF CountInv
    <2> QED BY <1>2, <1>6, <2>1, SizeFacts
<1>9. counts \in [enqueued : Nat, dropped : Nat, processed : Nat, failed : Nat, depth : Int]
    BY DEF IInv, TypeOK
<1>10. DepthNeverDrifts'
    BY <1>2, <1>3, <1>7, <1>8, <1>9 DEF CountInv, DepthNeverDrifts
<1>11. CountersBalance'
    <2>1. counts'.enqueued + SizeOf(Uncounted') = SizeOf(Queued') + SizeOf(Batched') + counts'.processed
        BY <1>2, <1>3, <1>7, <1>8, <1>9 DEF CountInv, CountersBalance
    <2>2. UNCHANGED <<batch, refused, done>>
        BY <1>2 DEF history
    <2> QED BY <1>3, <1>7, <2>1, <2>2 DEF CountInv, CountersBalance
<1> QED BY <1>5, <1>10, <1>11 DEF CountInv

(* A refused chunk is counted at once, if the channel is open. *)
LEMMA CountRefuse ==
    ASSUME IInv, IInv', CountInv, NEW h \in Handlers, NEW c \in Chunks, Drop(h, c) \/ Panic(h, c)
    PROVE  CountInv'
<1>1. /\ c \notin offered /\ offered' = offered \cup {c} /\ Size[c] \in Nat
      /\ UNCHANGED <<queue, sent, batch, handed, done>>
    BY PipelineAssumption DEF Drop, Panic, Offer
<1>2. /\ Queued' = Queued /\ Batched' = Batched
      /\ Uncounted' = Uncounted /\ SpansGiven' = SpansGiven
    BY <1>1 DEF Queued, Batched, Uncounted, SpansGiven, Given
<1>3. SentInv'
    <2>1. IsFiniteSet(offered')
        BY <1>1, FS_AddElement DEF CountInv, SentInv
    <2> QED BY <1>1, <2>1 DEF CountInv, SentInv
<1>4. /\ counts' = [counts EXCEPT !.dropped = @ + (SizeOf(refused') - SizeOf(refused))]
      /\ SizeOf(refused) \in Nat /\ SizeOf(refused') \in Nat
    <2>0. counts \in [enqueued : Nat, dropped : Nat, processed : Nat, failed : Nat, depth : Int]
        BY DEF IInv, TypeOK
    <2>1. CASE Drop(h, c)
        <3>1. refused' = refused \cup {c} /\ c \notin refused
            BY <1>1, <2>1 DEF Drop, IInv, ChunkInOnePlace
        <3>2. SizeOf(refused') = Size[c] + SizeOf(refused) /\ SizeOf(refused) \in Nat
            BY <3>1, CountTypes, SizeFacts DEF CountInv
        <3>3. SizeOf(refused') - SizeOf(refused) = Size[c] /\ SizeOf(refused') \in Nat
            BY <1>1, <3>2
        <3> QED BY <2>1, <3>2, <3>3 DEF Drop
    <2>2. CASE Panic(h, c)
        <3>1. counts' = counts /\ refused' = refused /\ SizeOf(refused) \in Nat
            BY <2>2, CountTypes DEF Panic, CountInv
        <3>2. PICK n \in Nat : n = SizeOf(refused)
            BY <3>1
        <3>3. [counts EXCEPT !.dropped = @ + (n - n)] = counts
            BY <2>0
        <3> QED BY <3>1, <3>2, <3>3
    <2> QED BY <2>1, <2>2
<1>5. /\ counts'.enqueued = counts.enqueued /\ counts'.depth = counts.depth
      /\ counts'.processed = counts.processed /\ counts'.failed = counts.failed
      /\ counts'.dropped = counts.dropped + (SizeOf(refused') - SizeOf(refused))
    <2>1. PICK n : n = SizeOf(refused') - SizeOf(refused)
        OBVIOUS
    <2>2. counts' = [counts EXCEPT !.dropped = @ + n]
        BY <1>4, <2>1
    <2>3. counts \in [enqueued : Nat, dropped : Nat, processed : Nat, failed : Nat, depth : Int]
        BY DEF IInv, TypeOK
    <2>4. /\ counts'.enqueued = counts.enqueued /\ counts'.depth = counts.depth
          /\ counts'.processed = counts.processed /\ counts'.failed = counts.failed
          /\ counts'.dropped = counts.dropped + n
        BY <2>2, <2>3
    <2> QED BY <2>1, <2>4
<1>6. DepthNeverDrifts'
    BY <1>2, <1>5 DEF CountInv, DepthNeverDrifts
<1>7. CountersBalance'
    BY <1>1, <1>2, <1>4, <1>5 DEF CountInv, CountersBalance
<1> QED BY <1>3, <1>6, <1>7 DEF CountInv

(* The depth falls by what a worker takes out of the channel, which is     *)
(* what its batch grows by.                                                *)
LEMMA CountReceive ==
    ASSUME IInv, IInv', CountInv, NEW w \in Workers, Receive(w)
    PROVE  CountInv'
<1> DEFINE q == Head(queue)
<1>1. PICK c : c = q
    OBVIOUS
<1>2. /\ c \in Chunks /\ Queued = Queued' \cup {c} /\ c \notin Queued'
      /\ Size[c] \in Nat
    <2>1. /\ queue \in Seq(Chunks) /\ queue # <<>> /\ queue' = Tail(queue)
          /\ \A i, j \in DOMAIN queue : i # j => queue[i] # queue[j]
        BY DEF IInv, TypeOK, ChunkInOnePlace, Receive
    <2> QED BY <1>1, <2>1, TailFacts, PipelineAssumption DEF Queued
<1>3. /\ counts' = [counts EXCEPT !.depth = @ - Size[c]]
      /\ batch' = [batch EXCEPT ![w] = [chunks |-> batch[w].chunks \cup {c},
                                         len |-> batch[w].len + Size[c]]]
      /\ UNCHANGED <<sent, offered, refused, handed, done>>
    BY <1>1 DEF Receive, Add, DepthLess, history
<1> HIDE DEF q
<1>4. /\ counts'.enqueued = counts.enqueued /\ counts'.depth = counts.depth - Size[c]
      /\ counts'.processed = counts.processed /\ counts'.failed = counts.failed
      /\ counts'.dropped = counts.dropped
    <2>1. counts \in [enqueued : Nat, dropped : Nat, processed : Nat, failed : Nat, depth : Int]
        BY DEF IInv, TypeOK
    <2>2. PICK n : n = Size[c]
        OBVIOUS
    <2>3. counts' = [counts EXCEPT !.depth = @ - n]
        BY <1>3, <2>2
    <2>4. /\ counts'.enqueued = counts.enqueued /\ counts'.depth = counts.depth - n
          /\ counts'.processed = counts.processed /\ counts'.failed = counts.failed
          /\ counts'.dropped = counts.dropped
        BY <2>1, <2>3
    <2> QED BY <2>2, <2>4
<1>5. /\ batch'[w].chunks = batch[w].chunks \cup {c}
      /\ batch'[w].len = batch[w].len + Size[c]
      /\ \A v \in Workers \ {w} : batch'[v] = batch[v]
    BY <1>3 DEF IInv, TypeOK
<1>6. Batched' = Batched \cup {c} /\ c \notin Batched /\ c \notin batch[w].chunks
    <2>1. c \notin Batched
        BY <1>2 DEF IInv, ChunkInOnePlace
    <2>2. Batched' = Batched \cup {c}
        BY <1>5 DEF Batched
    <2> QED BY <2>1, <2>2 DEF Batched
<1>7. SentInv' /\ Uncounted' = Uncounted /\ SpansGiven' = SpansGiven
    BY <1>3 DEF CountInv, SentInv, Uncounted, SpansGiven, Given
<1>8. /\ SizeOf(Queued) = Size[c] + SizeOf(Queued')
      /\ SizeOf(Batched') = Size[c] + SizeOf(Batched)
      /\ SizeOf(batch'[w].chunks) = Size[c] + SizeOf(batch[w].chunks)
      /\ SizeOf(Queued') \in Nat /\ SizeOf(Batched) \in Nat /\ SizeOf(Uncounted) \in Nat
      /\ SizeOf(batch[w].chunks) \in Nat
    <2>1. /\ Batched \in SUBSET Chunks /\ IsFiniteSet(Batched)
          /\ Uncounted \in SUBSET Chunks /\ SizeOf(Uncounted) \in Nat
          /\ batch[w].chunks \in SUBSET Chunks /\ IsFiniteSet(batch[w].chunks)
          /\ Queued \in SUBSET Chunks /\ IsFiniteSet(Queued)
        BY CountTypes DEF CountInv
    <2>2. Queued' \in SUBSET Chunks /\ IsFiniteSet(Queued')
        <3>1. Queued' \in SUBSET Queued
            BY <1>2
        <3> QED BY <2>1, <3>1, FS_Subset
    <2> QED BY <1>2, <1>5, <1>6, <2>1, <2>2, SizeFacts
<1>9. counts \in [enqueued : Nat, dropped : Nat, processed : Nat, failed : Nat, depth : Int]
    BY DEF IInv, TypeOK
<1>10. DepthNeverDrifts'
    <2>1. counts.depth = SizeOf(Queued) - SizeOf(Uncounted) /\ counts.depth \in Int
        BY <1>9 DEF CountInv, DepthNeverDrifts
    <2>2. counts'.depth = SizeOf(Queued') - SizeOf(Uncounted')
        BY <1>2, <1>4, <1>7, <1>8, <2>1
    <2> QED BY <2>2 DEF DepthNeverDrifts
<1>11. CountersBalance'
    <2>1. counts'.enqueued + SizeOf(Uncounted') = SizeOf(Queued') + SizeOf(Batched') + counts'.processed
        BY <1>2, <1>4, <1>7, <1>8, <1>9 DEF CountInv, CountersBalance
    <2>2. \A v \in Workers : batch'[v].len = SizeOf(batch'[v].chunks)
        <3>1. \A v \in Workers : batch[v].len = SizeOf(batch[v].chunks)
            BY DEF CountInv, CountersBalance
        <3>2. batch'[w].len = SizeOf(batch'[w].chunks)
            BY <1>2, <1>5, <1>8, <3>1
        <3> QED BY <1>5, <3>1, <3>2
    <2> QED BY <1>3, <1>4, <1>7, <2>1, <2>2 DEF CountInv, CountersBalance
<1> QED BY <1>7, <1>10, <1>11 DEF CountInv

(* Steps that move no chunk and touch no counter. *)
LEMMA CountQuiet ==
    ASSUME CountInv,
           \/ \E w \in Workers : SeeClosed(w) \/ Tick(w) \/ SeeDone(w)
           \/ Close \/ StopReturns \/ Cancel \/ UNCHANGED vars
    PROVE  CountInv'
<1>1. UNCHANGED <<queue, sent, batch, counts, offered, refused, handed, done>>
    BY DEF SeeClosed, Tick, SeeDone, Close, StopReturns, Cancel, vars, history
<1>2. /\ Queued' = Queued /\ Batched' = Batched
      /\ Uncounted' = Uncounted /\ SpansGiven' = SpansGiven
    BY <1>1 DEF Queued, Batched, Uncounted, SpansGiven, Given
<1> QED BY <1>1, <1>2 DEF CountInv, SentInv, DepthNeverDrifts, CountersBalance

(* One processor is given one batch more: what may have failed grows by    *)
(* all of its spans, and at most that is counted as failed.                *)
LEMMA CountProcess ==
    ASSUME IInv, IInv', CountInv, NEW w \in Workers, NEW ok \in BOOLEAN, Process(w, ok)
    PROVE  CountInv'
<1>1. PICK k : k = worker[w].proc
    OBVIOUS
<1>2. PICK B : B = batch[w].chunks
    OBVIOUS
<1>3. /\ worker[w].pc = "dispatch" /\ k \in Procs
      /\ handed' = [c \in Chunks |-> IF c \in B THEN [handed[c] EXCEPT ![k] = @ + 1] ELSE handed[c]]
      /\ UNCHANGED <<queue, sent, batch, offered, refused, done>>
    BY <1>1, <1>2 DEF Process
<1>4. /\ Queued' = Queued /\ Batched' = Batched /\ Uncounted' = Uncounted
      /\ SentInv'
    BY <1>3 DEF Queued, Batched, Uncounted, CountInv, SentInv
<1>5. /\ counts'.enqueued = counts.enqueued /\ counts'.depth = counts.depth
      /\ counts'.processed = counts.processed /\ counts'.dropped = counts.dropped
      /\ counts.failed \in Nat /\ counts'.failed \in Nat /\ batch[w].len \in Nat
      /\ counts'.failed <= counts.failed + batch[w].len
    <2>1. PICK n \in Nat : n = batch[w].len
        BY DEF IInv, TypeOK
    <2>2. counts' = counts \/ counts' = [counts EXCEPT !.failed = @ + n]
        BY <2>1 DEF Process
    <2>3. counts \in [enqueued : Nat, dropped : Nat, processed : Nat, failed : Nat, depth : Int]
        BY DEF IInv, TypeOK
    <2>4. /\ counts'.enqueued = counts.enqueued /\ counts'.depth = counts.depth
          /\ counts'.processed = counts.processed /\ counts'.dropped = counts.dropped
          /\ counts.failed \in Nat /\ counts'.failed \in Nat
          /\ counts'.failed <= counts.failed + n
        BY <2>2, <2>3
    <2> QED BY <2>1, <2>4
<1>6. /\ Given(k) \cap B = {} /\ Given(k)' = Given(k) \cup B
      /\ \A p \in Procs \ {k} : Given(p)' = Given(p)
    <2>1. \A c \in B : handed[c][k] = 0 /\ B \subseteq Chunks
        <3>1. ~(k < k)
            BY <1>3 DEF Procs
        <3> QED BY <1>1, <1>2, <1>3, <3>1 DEF IInv, HandedInv, TypeOK
    <2>2. \A c \in Chunks, p \in Procs :
            handed'[c][p] = IF c \in B /\ p = k THEN handed[c][p] + 1 ELSE handed[c][p]
        BY <1>3 DEF IInv, TypeOK
    <2> QED BY <1>3, <2>1, <2>2 DEF Given
<1>7. SpansGiven' = SpansGiven + SizeOf(B) /\ SpansGiven \in Nat /\ SizeOf(B) \in Nat
    <2> DEFINE f == [p \in Procs |-> SizeOf(Given(p))]
               g == [p \in Procs |-> SizeOf(Given(p)')]
    <2>1. /\ \A p \in Procs : f[p] \in Nat
          /\ IsFiniteSet(Procs) /\ SpansGiven \in Nat
          /\ B \in SUBSET Chunks /\ IsFiniteSet(B) /\ SizeOf(B) \in Nat
          /\ Given(k) \in SUBSET Chunks /\ IsFiniteSet(Given(k))
        BY <1>2, <1>3, CountTypes DEF CountInv
    <2>2. g[k] = f[k] + SizeOf(B)
        BY <1>3, <1>6, <2>1, SizeFacts
    <2>3. \A p \in Procs : p # k => g[p] = f[p]
        BY <1>6
    <2>4. SpansGiven = SumOver(f, Procs) /\ SpansGiven' = SumOver(g, Procs)
        BY DEF SpansGiven
    <2> HIDE DEF f, g
    <2>5. SumOver(g, Procs) = SumOver(f, Procs) + (IF k \in Procs THEN SizeOf(B) ELSE 0)
        BY <2>1, <2>2, <2>3, SumBump
    <2> QED BY <1>3, <2>1, <2>4, <2>5
<1>8. DepthNeverDrifts'
    BY <1>4, <1>5 DEF CountInv, DepthNeverDrifts
<1>9. CountersBalance'
    <2>1. counts.failed <= SpansGiven /\ batch[w].len = SizeOf(B)
        BY <1>2 DEF CountInv, CountersBalance
    <2>2. counts'.failed <= SpansGiven'
        BY <1>5, <1>7, <2>1
    <2> QED BY <1>3, <1>4, <1>5, <2>2 DEF CountInv, CountersBalance
<1> QED BY <1>4, <1>8, <1>9 DEF CountInv

(* A batch is counted as processed when it stops being one. *)
LEMMA CountEndDispatch ==
    ASSUME IInv, IInv', CountInv, NEW w \in Workers, EndDispatch(w)
    PROVE  CountInv'
<1>1. PICK B : B = batch[w].chunks
    OBVIOUS
<1>2. /\ done' = done \cup B
      /\ batch' = [batch EXCEPT ![w] = EmptyBatch]
      /\ UNCHANGED <<queue, sent, offered, refused, handed>>
    BY <1>1 DEF EndDispatch
<1>3. /\ Queued' = Queued /\ Uncounted' = Uncounted /\ SpansGiven' = SpansGiven
      /\ SentInv'
    BY <1>2 DEF Queued, Uncounted, SpansGiven, Given, CountInv, SentInv
<1>4. /\ batch'[w].chunks = {} /\ batch'[w].len = 0
      /\ \A v \in Workers \ {w} : batch'[v] = batch[v]
    BY <1>2 DEF IInv, TypeOK, EmptyBatch
<1>5. Batched = Batched' \cup B /\ Batched' \cap B = {} /\ B \cap done = {}
    <2>1. \A v \in Workers \ {w} : batch[v].chunks \cap B = {}
        BY <1>1 DEF IInv, ChunkInOnePlace
    <2>2. B \subseteq Batched
        BY <1>1 DEF Batched
    <2>3. Batched = Batched' \cup B /\ Batched' \cap B = {}
        BY <1>1, <1>4, <2>1 DEF Batched
    <2> QED BY <2>2, <2>3 DEF IInv, ChunkInOnePlace
<1>6. /\ SizeOf(Batched) = SizeOf(Batched') + SizeOf(B)
      /\ SizeOf(done') = SizeOf(done) + SizeOf(B)
      /\ SizeOf({}) = 0
      /\ SizeOf(Batched') \in Nat /\ SizeOf(done) \in Nat /\ SizeOf(B) \in Nat
      /\ SizeOf(Queued) \in Nat /\ SizeOf(Uncounted) \in Nat
    <2>1. /\ Batched \in SUBSET Chunks /\ IsFiniteSet(Batched)
          /\ done \in SUBSET Chunks /\ IsFiniteSet(done)
          /\ B \in SUBSET Chunks /\ IsFiniteSet(B)
          /\ SizeOf(Queued) \in Nat /\ SizeOf(Uncounted) \in Nat
        BY <1>1, CountTypes DEF CountInv
    <2>2. Batched' \in SUBSET Chunks /\ IsFiniteSet(Batched')
        <3>1. Batched' \in SUBSET Batched
            BY <1>5
        <3> QED BY <2>1, <3>1, FS_Subset
    <2> QED BY <1>2, <1>5, <2>1, <2>2, SizeFacts
<1>7. /\ counts'.enqueued = counts.enqueued /\ counts'.depth = counts.depth
      /\ counts'.processed = counts.processed + SizeOf(B)
      /\ counts'.dropped = counts.dropped /\ counts'.failed = counts.failed
      /\ counts.enqueued \in Nat /\ counts.processed \in Nat
    <2>1. PICK n \in Nat : n = batch[w].len
        BY DEF IInv, TypeOK
    <2>2. counts' = [counts EXCEPT !.processed = @ + n]
        BY <2>1 DEF EndDispatch, ProcessedMore
    <2>3. counts \in [enqueued : Nat, dropped : Nat, processed : Nat, failed : Nat, depth : Int]
        BY DEF IInv, TypeOK
    <2>4. /\ counts'.enqueued = counts.enqueued /\ counts'.depth = counts.depth
          /\ counts'.processed = counts.processed + n
          /\ counts'.dropped = counts.dropped /\ counts'.failed = counts.failed
          /\ counts.enqueued \in Nat /\ counts.processed \in Nat
        BY <2>2, <2>3
    <2>5. n = SizeOf(B)
        BY <1>1, <2>1 DEF CountInv, CountersBalance
    <2> QED BY <2>4, <2>5
<1>8. DepthNeverDrifts'
    BY <1>3, <1>7 DEF CountInv, DepthNeverDrifts
<1>9. CountersBalance'
    <2>1. /\ counts.enqueued + SizeOf(Uncounted) = SizeOf(Queued) + SizeOf(Batched) + counts.processed
          /\ counts.processed = SizeOf(done)
          /\ \A v \in Workers : batch[v].len = SizeOf(batch[v].chunks)
        BY DEF CountInv, CountersBalance
    <2>2. counts'.enqueued + SizeOf(Uncounted') = SizeOf(Queued') + SizeOf(Batched') + counts'.processed
        BY <1>3, <1>6, <1>7, <2>1
    <2>3. counts'.processed = SizeOf(done')
        BY <1>6, <1>7, <2>1
    <2>4. \A v \in Workers : batch'[v].len = SizeOf(batch'[v].chunks)
        BY <1>4, <1>6, <2>1
    <2> QED BY <1>2, <1>3, <1>7, <2>2, <2>3, <2>4 DEF CountInv, CountersBalance
<1> QED BY <1>3, <1>8, <1>9 DEF CountInv

(* The counters keep to their balance through every step. *)
LEMMA CountStep == IInv /\ IInv' /\ CountInv /\ [Next]_vars => CountInv'
<1> SUFFICES ASSUME IInv, IInv', CountInv, [Next]_vars PROVE CountInv'
    OBVIOUS
<1>1. ASSUME NEW h \in Handlers, NEW c \in Chunks, Send(h, c) \/ Drop(h, c) \/ Panic(h, c)
      PROVE  CountInv'
    BY <1>1, CountSend, CountRefuse
<1>2. ASSUME NEW h \in Handlers, CountSent(h)
      PROVE  CountInv'
    BY <1>2, CountSentCounts
<1>3. ASSUME NEW w \in Workers, WorkerStep(w)
      PROVE  CountInv'
    BY <1>3, CountReceive, CountQuiet, CountProcess, CountEndDispatch DEF WorkerStep
<1>4. CASE Close \/ StopReturns \/ Cancel \/ UNCHANGED vars
    BY <1>4, CountQuiet
<1> QED BY <1>1, <1>2, <1>3, <1>4 DEF Next

THEOREM CountInvariance == Spec => []CountInv
<1>1. Init => CountInv
    BY CountInit
<1>2. IInv /\ IInv' /\ CountInv /\ [Next]_vars => CountInv'
    BY CountStep
<1> QED BY <1>1, <1>2, Invariance, PTL DEF Spec

(* The queue_depth gauge is off by what has been sent and not yet counted, *)
(* and by nothing else, however senders and workers interleave.            *)
THEOREM DepthNeverDriftsAlways == Spec => []DepthNeverDrifts
<1>1. CountInv => DepthNeverDrifts
    BY DEF CountInv
<1> QED BY <1>1, CountInvariance, PTL

(* The counters of Stats account for every span: enqueued, dropped,        *)
(* processed, and never more failures than deliveries to processors.       *)
THEOREM CountersBalanceAlways == Spec => []CountersBalance
<1>1. CountInv => CountersBalance
    BY DEF CountInv
<1> QED BY <1>1, CountInvariance, PTL

-----------------------------------------------------------------------------
(* The collector *)

(***************************************************************************)
(* The pipeline inside the collector is the pipeline: what is proved of    *)
(* Pipeline holds here.                                                    *)
(***************************************************************************)
LEMMA PipelineStep == CollectorNext => [Next]_vars
<1> SUFFICES ASSUME CollectorNext PROVE [Next]_vars
    OBVIOUS
<1>1. ASSUME NEW h \in Handlers, BeginRequest(h) \/ BodyArrives(h) \/ HandlerStep(h)
      PROVE  [Next]_vars
    BY <1>1 DEF BeginRequest, BodyArrives, HandlerStep, NothingToConsume, ConsumeDone,
                ConsumeSend, ConsumeDrop, ConsumePanic, Next
<1>2. ASSUME NEW w \in Workers, PoolStep(w)
      PROVE  Next
    <2>1. WorkerStep(w)
        BY <1>2 DEF PoolStep, WorkerMoves, Fold, Write, WorkerStep
    <2> QED BY <2>1 DEF Next
<1>3. CASE TopoStep
    BY <1>3 DEF TopoStep, FlushTick, LastFlush, FlushTo
<1>4. CASE MainStep
    BY <1>4 DEF MainStep, Listen, BeginShutdown, GracefulStopReturns, HttpShutdownReturns,
                StopPipeline, PipelineStopped, StopTopology, Exit, Next
<1>5. CASE \E s \in {"grpc", "http"} : ServerFails(s)
    BY <1>5 DEF ServerFails
<1>6. CASE Signal
    BY <1>6 DEF Signal, Next
<1> QED BY <1>1, <1>2, <1>3, <1>4, <1>5, <1>6 DEF CollectorNext

(* Every behaviour of the collector is one of the pipeline. *)
THEOREM ContainsPipeline == CollectorSpec => Spec
<1>1. CollectorInit => Init
    BY DEF CollectorInit
<1>2. [CollectorNext]_collectorVars => [Next]_vars
    BY PipelineStep DEF collectorVars
<1> QED BY <1>1, <1>2, PTL DEF CollectorSpec, Spec

(* main starts and stops the pipeline through Accept, Stop and the context *)
(* only, so the collector keeps to the ledger however it is taken down.    *)
THEOREM CollectorImplementsChunkLedger == CollectorSpec => ChunkLedgerSpec
BY ContainsPipeline, ImplementsChunkLedger, PTL

-----------------------------------------------------------------------------
(* The inductive invariant: how far down the collector is.                 *)

Late == {"waitPipe", "stopTopo", "waitTopo", "exit"}

MainInv ==
    /\ main \in {"listen", "serving", "drainGrpc", "drainHttp", "stopPipe"} \cup Late
    /\ closed <=> main \in Late
    /\ stopped <=> main \in Late \ {"waitPipe"}
    /\ topoStop <=> main \in {"waitTopo", "exit"}
    /\ main = "exit" => topo = "done"
    /\ topo = "done" => topoStop \/ ctxDone

(* What the topology was given is in memory or was handed to the sink; an  *)
(* orderly stop leaves nothing in memory.                                  *)
FoldInv ==
    /\ \A c \in Chunks : handed[c][TopoProc] # 0 => c \in folded \cup flushed
    /\ topo = "done" /\ ~ctxDone => folded = {}

(* Once GracefulStop has been called the gRPC server takes no request, and *)
(* once it has returned no handler of it is running.                       *)
GrpcInv ==
    /\ req \in [Handlers -> {"idle", "reading", "ready", "sent"}]
    /\ main # "serving" => "grpc" \notin up
    /\ main \notin {"serving", "drainGrpc"} => Idle(Grpc)

CInv == MainInv /\ FoldInv /\ GrpcInv

LEMMA CollectorInitInv == CollectorInit => CInv
<1> SUFFICES ASSUME CollectorInit PROVE CInv
    OBVIOUS
<1>1. MainInv
    BY DEF CollectorInit, Init, MainInv, Late
<1>2. GrpcInv
    BY CollectorAssumption DEF CollectorInit, GrpcInv, Idle
<1>3. FoldInv
    BY CollectorAssumption DEF CollectorInit, Init, FoldInv, TopoProc, Procs
<1> QED BY <1>1, <1>2, <1>3 DEF CInv

LEMMA CollectorStepInv == IInv /\ CInv /\ [CollectorNext]_collectorVars => CInv'
<1> SUFFICES ASSUME IInv, CInv, [CollectorNext]_collectorVars PROVE CInv'
    OBVIOUS
<1> USE DEF CInv
<1>1. ASSUME NEW h \in Handlers, BeginRequest(h) \/ BodyArrives(h) \/ HandlerStep(h)
      PROVE  CInv'
    <2>1. /\ UNCHANGED <<closed, stopped, ctxDone, handed>>
          /\ UNCHANGED <<main, up, topo, topoStop, folded, flushed>>
        BY <1>1 DEF BeginRequest, BodyArrives, HandlerStep, NothingToConsume, ConsumeDone,
                    ConsumeSend, ConsumeDrop, ConsumePanic, Request, Send, CountSent, Drop, Panic,
                    Offer, vars, history, topology
    <2>2. PICK from, to \in {"idle", "reading", "ready", "sent"} :
             /\ req[h] = from /\ req' = [req EXCEPT ![h] = to]
             /\ from = "idle" => ServerOf(h) \in up
        BY <1>1 DEF BeginRequest, BodyArrives, HandlerStep, NothingToConsume, ConsumeDone,
                    ConsumeSend, ConsumeDrop, ConsumePanic, Request
    <2>3. MainInv' /\ FoldInv'
        BY <2>1 DEF MainInv, FoldInv
    <2>4. "grpc" \notin up /\ Idle(Grpc) => (Idle(Grpc))'
        BY <2>2, CollectorAssumption DEF Idle, ServerOf, GrpcInv
    <2>5. GrpcInv'
        BY <2>1, <2>2, <2>4 DEF GrpcInv
    <2> QED BY <2>3, <2>5
<1>2. ASSUME NEW w \in Workers, PoolStep(w)
      PROVE  CInv'
    <2>1. /\ UNCHANGED <<closed, stopped, ctxDone>>
          /\ UNCHANGED <<main, up, errCh, req, topo, topoStop, flushed>>
        BY <1>2 DEF PoolStep, WorkerMoves, Fold, Write, Receive, SeeClosed, Tick, SeeDone,
                    EndDispatch, Process, history, receiver, topology
    <2>2. MainInv' /\ GrpcInv'
        BY <2>1 DEF MainInv, GrpcInv, Idle
    <2>3. FoldInv'
        <3>1. CASE WorkerMoves(w)
            BY <2>1, <3>1 DEF FoldInv, WorkerMoves, Receive, SeeClosed, Tick, SeeDone, EndDispatch,
                         history, topology
        <3>2. CASE \E ok \in BOOLEAN : Write(w, ok)
            <4>1. folded' = folded
                BY <3>2 DEF Write, topology
            <4>2. PICK ok \in BOOLEAN : Process(w, ok) /\ worker[w].proc # TopoProc
                BY <3>2 DEF Write
            <4>3. \A c \in Chunks : handed'[c][TopoProc] = handed[c][TopoProc]
                BY <4>2, CollectorAssumption DEF Process, IInv, TypeOK, Procs, TopoProc
            <4> QED BY <2>1, <4>1, <4>3 DEF FoldInv
        <3>3. CASE Fold(w)
            <4>1. folded' = folded \cup batch[w].chunks /\ Process(w, TRUE)
                BY <3>3 DEF Fold
            <4>2. \A c \in Chunks \ batch[w].chunks : handed'[c] = handed[c]
                BY <4>1 DEF Process
            <4>3. topo # "done" \/ ctxDone
                <5>1. worker[w].pc = "dispatch"
                    BY <4>1 DEF Process
                <5>2. ~stopped
                    BY <5>1 DEF IInv, LeavingInv
                <5> QED BY <5>2 DEF MainInv, Late
            <4> QED BY <2>1, <4>1, <4>2, <4>3 DEF FoldInv
        <3> QED BY <1>2, <3>1, <3>2, <3>3 DEF PoolStep
    <2> QED BY <2>2, <2>3
<1>3. CASE TopoStep
    <2>1. /\ topo = "select" /\ flushed' = flushed \cup folded /\ folded' = {}
          /\ UNCHANGED vars /\ UNCHANGED <<main, receiver, topoStop>>
          /\ topo' = "done" => topoStop \/ ctxDone
        BY <1>3 DEF TopoStep, FlushTick, LastFlush, FlushTo, TopoEnds
    <2>2. MainInv'
        BY <2>1 DEF MainInv, vars
    <2>3. FoldInv' /\ GrpcInv'
        BY <2>1 DEF FoldInv, GrpcInv, Idle, vars, receiver
    <2> QED BY <2>2, <2>3
<1>4. CASE MainStep
    <2>1. /\ UNCHANGED <<handed, ctxDone, errCh, req, topo, folded, flushed>>
          /\ up' = up \/ up' = up \ {"grpc"} \/ up' = up \ {"http"} \/ main' = "serving"
        BY <1>4 DEF MainStep, Listen, BeginShutdown, GracefulStopReturns, HttpShutdownReturns,
                    StopPipeline, PipelineStopped, StopTopology, Exit, MainGoes, Close, StopReturns,
                    vars, history, receiver, topology
    <2>2. FoldInv'
        BY <2>1 DEF FoldInv
    <2>3. (Idle(Grpc))' = Idle(Grpc)
        BY <2>1 DEF Idle
    <2> USE DEF MainInv, GrpcInv, Late, MainGoes
    <2>4. ASSUME Listen PROVE MainInv' /\ GrpcInv'
        BY <2>1, <2>3, <2>4 DEF Listen, vars, topology
    <2>5. ASSUME BeginShutdown PROVE MainInv' /\ GrpcInv'
        BY <2>1, <2>3, <2>5 DEF BeginShutdown, vars, topology
    <2>6. ASSUME GracefulStopReturns PROVE MainInv' /\ GrpcInv'
        <3>1. UNCHANGED <<closed, stopped, topoStop>> /\ Idle(Grpc) /\ "grpc" \notin up'
            BY <2>6 DEF GracefulStopReturns, GrpcDrained, vars, topology
        <3> QED BY <2>1, <2>3, <2>6, <3>1 DEF GracefulStopReturns
    <2>7. ASSUME HttpShutdownReturns PROVE MainInv' /\ GrpcInv'
        BY <2>1, <2>3, <2>7 DEF HttpShutdownReturns, vars, receiver, topology
    <2>8. ASSUME StopPipeline \/ PipelineStopped PROVE MainInv' /\ GrpcInv'
        BY <2>1, <2>3, <2>8 DEF StopPipeline, PipelineStopped, Close, StopReturns, receiver, topology
    <2>9. ASSUME StopTopology \/ Exit PROVE MainInv' /\ GrpcInv'
        BY <2>1, <2>3, <2>9 DEF StopTopology, Exit, TopoEnded, vars, receiver, topology
    <2> QED BY <1>4, <2>2, <2>4, <2>5, <2>6, <2>7, <2>8, <2>9 DEF MainStep
<1>5. CASE (\E s \in {"grpc", "http"} : ServerFails(s)) \/ UNCHANGED collectorVars
    BY <1>5 DEF ServerFails, collectorVars, vars, topology, MainInv, FoldInv, GrpcInv, Idle
<1>6. CASE Signal
    BY <1>6 DEF Signal, Cancel, history, receiver, topology, MainInv, FoldInv, GrpcInv, Idle
<1> QED BY <1>1, <1>2, <1>3, <1>4, <1>5, <1>6 DEF CollectorNext

(* The order of the shutdown, and what each part of it leaves behind. *)
THEOREM CollectorInvariance == CollectorSpec => []CInv
<1>1. CollectorSpec => []IInv
    BY ContainsPipeline, Invariance, PTL
<1> QED BY <1>1, CollectorInitInv, CollectorStepInv, PTL DEF CollectorSpec

-----------------------------------------------------------------------------
(* Unless a signal came, at exit everything accepted has been through the  *)
(* processors and its edges have been handed to the sink.                  *)
THEOREM CompleteWithoutSignalAlways == CollectorSpec => []CompleteWithoutSignal
<1>1. CInv /\ StopDrains /\ EachProcessorOnce /\ TypeOK => CompleteWithoutSignal
    <2> SUFFICES ASSUME CInv, StopDrains, EachProcessorOnce, TypeOK, ~ctxDone, main = "exit"
                 PROVE  Accepted \subseteq done \cap flushed
        BY DEF CompleteWithoutSignal, DrainedThenWritten
    <2>1. stopped /\ topo = "done"
        BY DEF CInv, MainInv, Late
    <2>2. Accepted \subseteq done
        BY <2>1 DEF StopDrains, Accepted
    <2>3. \A c \in done : c \in Chunks /\ handed[c][TopoProc] = 1
        BY CollectorAssumption DEF EachProcessorOnce, TypeOK, Procs, TopoProc
    <2>4. done \subseteq flushed
        BY <2>1, <2>3 DEF CInv, FoldInv
    <2> QED BY <2>2, <2>4
<1>2. CollectorSpec => [](StopDrains /\ EachProcessorOnce /\ TypeOK)
    BY ContainsPipeline, StopDrainsAlways, EachProcessorOnceAlways, TypeCorrect, PTL
<1> QED BY <1>1, <1>2, CollectorInvariance, PTL

(* No gRPC handler ever sends on the closed queue. *)
THEOREM GrpcMeetsNoClosedQueueAlways == CollectorSpec => []GrpcMeetsNoClosedQueue
<1>1. CInv => GrpcMeetsNoClosedQueue
    BY DEF CInv, MainInv, GrpcInv, Late, GrpcMeetsNoClosedQueue
<1> QED BY <1>1, CollectorInvariance, PTL
=============================================================================
