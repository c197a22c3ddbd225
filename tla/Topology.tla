------------------------------ MODULE Topology ------------------------------
(***************************************************************************)
(* The topology builder, internal/topology/graph.go.                       *)
(*                                                                         *)
(* Pipeline workers hand it spans; a CLIENT span and the SERVER span it    *)
(* caused meet in a two-generation table and become one edge of the        *)
(* service graph.  One goroutine rotates the generations, turns clients    *)
(* that never met their server into edges to an inferred peer, and writes  *)
(* the aggregated edges to the sink.                                       *)
(*                                                                         *)
(* A shard's critical section is one step.  What the code does after the   *)
(* unlock (emitPair, emitInferred, record) is a later step of the same     *)
(* goroutine, so everything else may happen in between.                    *)
(***************************************************************************)
EXTENDS Naturals, FiniteSets, Sequences, Sums

CONSTANTS Workers,             \* pipeline workers calling Process
          NumShards,           \* number of shards
          Keys,                \* span IDs under which spans are paired
          NoKey,               \* the empty span ID
          NoPeer,              \* the empty peer name
          None,                \* no pending record, no edge to record
          ShardOf,             \* the shard a key hashes to
          Spans,               \* the spans that may arrive
          MaxPendingPerShard,  \* Config.MaxPendingPerShard
          LatencyBounds        \* upper bounds of the latency buckets

Shards == 0 .. NumShards - 1

(* One arrival of a span, with what observe reads of it.  "client" stands  *)
(* for CLIENT and PRODUCER, "server" for SERVER and CONSUMER; key is the   *)
(* span ID of a client and the parent span ID of a server; peer and conn   *)
(* are peerNameOf(s) and connTypeOf(s).  id tells two arrivals apart.      *)
IsSpan(s) ==
    /\ s.kind \in {"client", "server", "internal"}
    /\ s.key \in Keys \cup {NoKey}
    /\ s.dur \in Nat
    /\ s.err \in BOOLEAN

ASSUME ConstantsAssumption ==
    /\ NumShards \in Nat \ {0}
    /\ MaxPendingPerShard \in Nat
    /\ ShardOf \in [Keys -> Shards]
    /\ \A s \in Spans : IsSpan(s)
    /\ NoKey \notin Keys
    /\ None \notin Spans
    /\ LatencyBounds \in Seq(Nat)

(* There are bounds, listed in ascending order. *)
ASSUME BoundsAssumption ==
    /\ LatencyBounds # <<>>
    /\ \A i, j \in DOMAIN LatencyBounds : i < j => LatencyBounds[i] < LatencyBounds[j]

VARIABLES
    cur,        \* cur[k]: the record sh.cur holds for key k, or None
    prev,       \* prev[k]: the same for sh.prev
    agg,        \* the aggregated edges, by edge key
    stats,      \* the counters of Stats
    emit,       \* emit[w]: the edge worker w has yet to record
    loop,       \* where the rotation/flush goroutine is
    dropped,    \* the discarded generation the goroutine is emitting from
    out,        \* the snapshot flush is writing
    stopCh,     \* Stop has closed stopCh
    ctxDone,    \* the context given to Start is cancelled
    (* History, read by no action *)
    seen,       \* the spans observed so far
    aggregated, \* the edges behind agg
    writing,    \* the edges behind out
    stored,     \* the edges the sink has accepted
    lost        \* the edges of the snapshots the sink refused

tables  == <<cur, prev>>
history == <<seen, aggregated, writing, stored, lost>>
vars == <<cur, prev, agg, stats, emit, loop, dropped, out, stopCh, ctxDone,
          seen, aggregated, writing, stored, lost>>

-----------------------------------------------------------------------------
(* Edges *)

(* One call to record: from a client, to a server, or both. *)
Pair(c, v)  == [from |-> c, to |-> v]
Inferred(c) == [from |-> c, to |-> None]
Entry(v)    == [from |-> None, to |-> v]

Clients == {s \in Spans : s.kind = "client" /\ s.key # NoKey}
Servers == {s \in Spans : s.kind = "server" /\ s.key # NoKey}
Entries == {s \in Spans : s.kind = "server" /\ s.key = NoKey}
Named   == {s \in Spans : s.peer # NoPeer}

Edges == [from : Clients, to : Servers]
           \cup [from : Clients \cap Named, to : {None}]
           \cup [from : {None}, to : Entries]

ASSUME NoneIsNoEdge == None \notin Edges

(* The spans an edge counts. *)
Ends(e) == {e.from, e.to} \ {None}

(* EdgeKey as emitPair, emitInferred and observeServer fill it in. *)
EdgeKey(e) ==
    IF e.to = None   THEN <<e.from.svc, e.from.peer, e.from.conn>>
    ELSE IF e.from = None THEN <<"user", e.to.svc, "entry">>
    ELSE <<e.from.svc, e.to.svc, "service">>

(* emitPair takes the server's latency, unless it is zero. *)
EdgeDuration(e) ==
    IF e.to # None /\ (e.from = None \/ e.to.dur # 0) THEN e.to.dur ELSE e.from.dur

EdgeIsError(e) == \E s \in Ends(e) : s.err

BucketCount == Len(LatencyBounds) + 1

(* The first bucket whose bound is not exceeded, the last one otherwise. *)
bucketIndex(d) ==
    LET fits == {i \in 1 .. Len(LatencyBounds) : d <= LatencyBounds[i]}
    IN  IF fits = {} THEN BucketCount
        ELSE CHOOSE i \in fits : \A j \in fits : i <= j

Samples == [calls : Nat, errors : Nat, sum : Nat, max : Nat,
            buckets : [1 .. BucketCount -> Nat]]

NewSample == [calls |-> 0, errors |-> 0, sum |-> 0, max |-> 0,
              buckets |-> [i \in 1 .. BucketCount |-> 0]]

AddCall(x, e) ==
    LET d == EdgeDuration(e)
    IN  [calls   |-> x.calls + 1,
         errors  |-> IF EdgeIsError(e) THEN x.errors + 1 ELSE x.errors,
         sum     |-> x.sum + d,
         max     |-> IF d > x.max THEN d ELSE x.max,
         buckets |-> [x.buckets EXCEPT ![bucketIndex(d)] = @ + 1]]

(* record: under aggMu, create the sample if there is none, add the call. *)
record(e) ==
    LET k == EdgeKey(e)
    IN  /\ agg' = [j \in DOMAIN agg \cup {k} |->
                     IF j # k THEN agg[j]
                     ELSE AddCall(IF k \in DOMAIN agg THEN agg[k] ELSE NewSample, e)]
        /\ aggregated' = aggregated \cup {e}

(* The counter an edge bumps on its way to record. *)
Counted(e, st) ==
    IF e.to = None        THEN [st EXCEPT !.inferredPeers = @ + 1]
    ELSE IF e.from = None THEN [st EXCEPT !.entryPoints = @ + 1]
    ELSE [st EXCEPT !.paired = @ + 1]

-----------------------------------------------------------------------------
(* The pairing table *)

(* take looks in cur, then in prev, and removes what it finds.  Mutants: a *)
(* record is found but not deleted.                                        *)
Taken(k)        == IF cur[k] # None THEN cur[k] ELSE prev[k]
CurNotTaken(k)  == cur
CurTaken(k)     == [cur EXCEPT ![k] = None]
PrevNotTaken(k) == prev
PrevTaken(k)    == IF cur[k] # None THEN prev ELSE [prev EXCEPT ![k] = None]

(* s and t are the two ends of a call; the mutant does not look at t's side. *)
OtherEndAnySide(s, t) == s \in Clients \cup Servers /\ t # None
OtherEnd(s, t) == \/ s \in Clients /\ t \in Servers
                  \/ s \in Servers /\ t \in Clients

PairOf(s, t) == IF s \in Clients THEN Pair(s, t) ELSE Pair(t, s)

(* The keys generation g holds in shard sh; len(sh.cur) is their number. *)
HeldIn(g, sh) == {k \in Keys : ShardOf[k] = sh /\ g[k] # None}

(* There is no room for key k in generation g. *)
Full(g, k) == Cardinality(HeldIn(g, ShardOf[k])) >= MaxPendingPerShard

(* What is recorded of a span that finds no room: an edge to the inferred  *)
(* peer if it is a client with one, else nothing; never in the mutant.     *)
FallbackNever(s) == None
Fallback(s)      == IF s \in Clients \cap Named THEN Inferred(s) ELSE None

-----------------------------------------------------------------------------
Init ==
    /\ cur = [k \in Keys |-> None]
    /\ prev = [k \in Keys |-> None]
    /\ agg = [k \in {} |-> NewSample]
    /\ stats = [paired |-> 0, inferredPeers |-> 0, entryPoints |-> 0,
                evicted |-> 0, edgesWritten |-> 0, pendingDropped |-> 0]
    /\ emit = [w \in Workers |-> None]
    /\ loop = [pc |-> "select", shard |-> 0, final |-> FALSE]
    /\ dropped = {}
    /\ out = [k \in {} |-> NewSample]
    /\ stopCh = FALSE
    /\ ctxDone = FALSE
    /\ seen = {}
    /\ aggregated = {}
    /\ writing = {}
    /\ stored = {}
    /\ lost = {}

(* Workers.  A worker takes the next span of its batch once it has         *)
(* recorded the edge of the last one.  Nothing in the builder depends on   *)
(* where a batch begins, so the next span is any span not yet observed.    *)
NextSpan(w, s) ==
    /\ emit[w] = None
    /\ s \notin seen
    /\ seen' = seen \cup {s}
    /\ UNCHANGED <<agg, loop, dropped, out, stopCh, ctxDone,
                   aggregated, writing, stored, lost>>

observeInternal(w, s) ==
    /\ s.kind = "internal" \/ (s.kind = "client" /\ s.key = NoKey)
    /\ NextSpan(w, s)
    /\ UNCHANGED <<cur, prev, emit, stats>>

(* The other end was waiting: the pair leaves the table and is recorded    *)
(* after the unlock.                                                       *)
Match(w, s) ==
    /\ OtherEnd(s, Taken(s.key))
    /\ NextSpan(w, s)
    /\ emit' = [emit EXCEPT ![w] = PairOf(s, Taken(s.key))]
    /\ cur' = CurTaken(s.key)
    /\ prev' = PrevTaken(s.key)
    /\ UNCHANGED stats

(* No other end, and room: the span waits in the current generation.  A    *)
(* record of the same side under the same key has been taken and is gone.  *)
Hold(w, s) ==
    /\ s \in Clients \cup Servers
    /\ ~OtherEnd(s, Taken(s.key))
    /\ ~Full(CurTaken(s.key), s.key)
    /\ NextSpan(w, s)
    /\ cur' = [CurTaken(s.key) EXCEPT ![s.key] = s]
    /\ prev' = PrevTaken(s.key)
    /\ UNCHANGED <<emit, stats>>

(* No other end and no room: a client is recorded at once with its         *)
(* inferred peer, a server is dropped.                                     *)
Overflow(w, s) ==
    /\ s \in Clients \cup Servers
    /\ ~OtherEnd(s, Taken(s.key))
    /\ Full(CurTaken(s.key), s.key)
    /\ NextSpan(w, s)
    /\ cur' = CurTaken(s.key)
    /\ prev' = PrevTaken(s.key)
    /\ stats' = [stats EXCEPT !.pendingDropped = @ + 1]
    /\ emit' = [emit EXCEPT ![w] = Fallback(s)]

EnterHere(w, s) ==
    /\ s \in Entries
    /\ NextSpan(w, s)
    /\ emit' = [emit EXCEPT ![w] = Entry(s)]
    /\ UNCHANGED <<cur, prev, stats>>

(* The worker, out of the shard's lock, counts and records the edge. *)
Emit(w) ==
    /\ emit[w] # None
    /\ record(emit[w])
    /\ stats' = Counted(emit[w], stats)
    /\ emit' = [emit EXCEPT ![w] = None]
    /\ UNCHANGED <<cur, prev, loop, dropped, out, stopCh, ctxDone,
                   seen, writing, stored, lost>>

observe(w, s) ==
    \/ observeInternal(w, s) \/ Match(w, s) \/ Hold(w, s)
    \/ Overflow(w, s) \/ EnterHere(w, s)

-----------------------------------------------------------------------------
(* The rotation and flush goroutine of Start.  Its select takes a tick of  *)
(* either timer, or ends the loop with one last rotation and flush.        *)
BeginRotate(final) ==
    /\ loop.pc = "select"
    /\ loop' = [pc |-> "rotate", shard |-> 0, final |-> final]
    /\ UNCHANGED <<cur, prev, agg, stats, emit, dropped, out, stopCh, ctxDone, history>>

RotateTick == BeginRotate(FALSE)

LastRotate == (stopCh \/ ctxDone) /\ BeginRotate(TRUE)

FlushTick ==
    /\ loop.pc = "select"
    /\ loop' = [loop EXCEPT !.pc = "flush"]
    /\ UNCHANGED <<cur, prev, agg, stats, emit, dropped, out, stopCh, ctxDone, history>>

(* The records a rotation discards; the mutant looks at none of them. *)
DiscardedNone(sh) == {}
Discarded(sh)     == {prev[k] : k \in HeldIn(prev, sh)}

(* cur becomes prev; in the mutant prev stays and cur is lost. *)
PrevNotRotated(sh) == prev
PrevRotated(sh) == [k \in Keys |-> IF ShardOf[k] = sh THEN cur[k] ELSE prev[k]]

(* rotate, one shard, under its lock. *)
RotateShard ==
    /\ loop.pc = "rotate"
    /\ dropped = {}
    /\ loop.shard \in Shards
    /\ dropped' = Discarded(loop.shard)
    /\ prev' = PrevRotated(loop.shard)
    /\ cur' = [k \in Keys |-> IF ShardOf[k] = loop.shard THEN None ELSE cur[k]]
    /\ loop' = [loop EXCEPT !.shard = @ + 1]
    /\ UNCHANGED <<agg, stats, emit, out, stopCh, ctxDone, history>>

(* The counters of one discarded record.  Mutant: a peer is counted as     *)
(* inferred even when it has no name.                                      *)
EvictCountsAll(s) == [Counted(Inferred(s), stats) EXCEPT !.evicted = @ + 1]
EvictCounts(s) ==
    IF s \in Clients \cap Named
    THEN [Counted(Inferred(s), stats) EXCEPT !.evicted = @ + 1]
    ELSE [stats EXCEPT !.evicted = @ + 1]

(* rotate, after the unlock: each discarded record in turn, in any order. *)
Evict(s) ==
    /\ s \in dropped
    /\ dropped' = dropped \ {s}
    /\ stats' = EvictCounts(s)
    /\ IF s \in Clients \cap Named THEN record(Inferred(s)) ELSE UNCHANGED <<agg, aggregated>>
    /\ UNCHANGED <<cur, prev, emit, loop, out, stopCh, ctxDone,
                   seen, writing, stored, lost>>

(* After the last shard: the last rotation goes on to the last flush. *)
AfterRotate == IF loop.final THEN "flush" ELSE "select"

RotateDone ==
    /\ loop.pc = "rotate"
    /\ dropped = {}
    /\ loop.shard \notin Shards
    /\ loop' = [loop EXCEPT !.pc = AfterRotate]
    /\ UNCHANGED <<cur, prev, agg, stats, emit, dropped, out, stopCh, ctxDone, history>>

AfterFlush == IF loop.final THEN "done" ELSE "select"

(* flush: under aggMu, nothing to do or a snapshot and a fresh map.        *)
(* Mutants: the snapshot is never written; the map is not replaced.        *)
AfterSwapSkips == AfterFlush
AfterSwap      == IF DOMAIN agg = {} THEN AfterFlush ELSE "write"
AggNotSwapped  == agg
AggSwapped     == [k \in {} |-> NewSample]

FlushSwap ==
    /\ loop.pc = "flush"
    /\ loop' = [loop EXCEPT !.pc = AfterSwap]
    /\ out' = agg
    /\ writing' = aggregated
    /\ agg' = AggSwapped
    /\ aggregated' = {}
    /\ UNCHANGED <<cur, prev, stats, emit, dropped, stopCh, ctxDone, seen, stored, lost>>

(* flush: the sink takes the snapshot, or refuses it and it is logged. *)
WriteEdges(ok) ==
    /\ loop.pc = "write"
    /\ loop' = [loop EXCEPT !.pc = AfterFlush]
    /\ IF ok
       THEN /\ stats' = [stats EXCEPT !.edgesWritten = @ + Cardinality(DOMAIN out)]
            /\ stored' = stored \cup writing
            /\ UNCHANGED lost
       ELSE /\ lost' = lost \cup writing
            /\ UNCHANGED <<stats, stored>>
    /\ out' = [k \in {} |-> NewSample]
    /\ writing' = {}
    /\ UNCHANGED <<cur, prev, agg, emit, dropped, stopCh, ctxDone, seen, aggregated>>

(* The environment: Stop closes stopCh, a signal cancels the context. *)
Stop ==
    /\ ~stopCh
    /\ stopCh' = TRUE
    /\ UNCHANGED <<cur, prev, agg, stats, emit, loop, dropped, out, ctxDone, history>>

Cancel ==
    /\ ~ctxDone
    /\ ctxDone' = TRUE
    /\ UNCHANGED <<cur, prev, agg, stats, emit, loop, dropped, out, stopCh, history>>

Loop ==
    \/ RotateTick \/ LastRotate \/ FlushTick \/ RotateShard
    \/ (\E s \in Spans : Evict(s))
    \/ RotateDone \/ FlushSwap
    \/ (\E ok \in BOOLEAN : WriteEdges(ok))

Next ==
    \/ \E w \in Workers, s \in Spans : observe(w, s)
    \/ \E w \in Workers : Emit(w)
    \/ Loop
    \/ Stop
    \/ Cancel

Spec == Init /\ [][Next]_vars

-----------------------------------------------------------------------------
(* Properties *)

SpanOrNone == Spans \cup {None}

(* Every variable has its type. *)
TypeOK ==
    /\ cur \in [Keys -> SpanOrNone]
    /\ prev \in [Keys -> SpanOrNone]
    /\ agg = [k \in DOMAIN agg |-> agg[k]]
    /\ \A k \in DOMAIN agg : agg[k] \in Samples
    /\ stats \in [paired : Nat, inferredPeers : Nat, entryPoints : Nat,
                   evicted : Nat, edgesWritten : Nat, pendingDropped : Nat]
    /\ emit \in [Workers -> Edges \cup {None}]
    /\ loop \in [pc : {"select", "rotate", "flush", "write", "done"},
                  shard : 0 .. NumShards, final : BOOLEAN]
    /\ dropped \subseteq Spans
    /\ stopCh \in BOOLEAN
    /\ ctxDone \in BOOLEAN
    /\ seen \subseteq Spans
    /\ aggregated \subseteq Edges
    /\ writing \subseteq Edges
    /\ stored \subseteq Edges
    /\ lost \subseteq Edges

(* The spans in either generation, the spans a goroutine has taken out and *)
(* not yet dealt with, the edges recorded so far and the spans they count. *)
Tabled   == {cur[k] : k \in Keys} \cup {prev[k] : k \in Keys}
InFlight == dropped \cup UNION {Ends(emit[w]) : w \in {v \in Workers : emit[v] # None}}
Waiting  == (Tabled \ {None}) \cup InFlight
Recorded == aggregated \cup writing \cup stored \cup lost
CountedSpans == UNION {Ends(e) : e \in Recorded}

(* Another CLIENT span with the span ID of s has been observed. *)
Replaced(s) == \E t \in seen \ {s} : t \in Clients /\ s \in Clients /\ t.key = s.key

(* A key is pending in at most one generation of its shard: if take left   *)
(* a second record behind, a later span would pair with a call that has    *)
(* already been counted.                                                   *)
KeyHeldOnce == \A k \in Keys : cur[k] = None \/ prev[k] = None

(* The memory ceiling: neither generation of a shard ever holds more than  *)
(* MaxPendingPerShard records, however arrivals and rotations interleave.  *)
GenerationBound ==
    \A sh \in Shards : /\ Cardinality(HeldIn(cur, sh)) <= MaxPendingPerShard
                       /\ Cardinality(HeldIn(prev, sh)) <= MaxPendingPerShard

(* No span is counted by two edges, and none that has been counted can     *)
(* still be counted again: it is neither pending nor on its way from the   *)
(* table to record in some goroutine.                                      *)
CountedOnce ==
    /\ \A e, f \in Recorded : e # f => Ends(e) \cap Ends(f) = {}
    /\ CountedSpans \cap Waiting = {}

(* "When the memory limit is hit, no pending record is taken but the edge  *)
(* must not be lost": a client with a nameable target, once observed, is   *)
(* pending, on its way, or counted, unless its span ID was sent again; and *)
(* so is an entry point.                                                   *)
EdgeNotLost ==
    \A s \in seen \cap ((Clients \cap Named) \cup Entries) :
        s \in Waiting \cup CountedSpans \/ Replaced(s)

(* The counters agree with the edges recorded: nothing is counted that was *)
(* not recorded, and nothing recorded twice or uncounted.                  *)
StatsMatchEdges ==
    /\ stats.paired = Cardinality({e \in Recorded : e.from # None /\ e.to # None})
    /\ stats.inferredPeers = Cardinality({e \in Recorded : e.to = None})
    /\ stats.entryPoints = Cardinality({e \in Recorded : e.from = None})

(* An aggregate is what a reference definition computes from the edges     *)
(* behind it: no call is added to a sample twice, missed, or added to a    *)
(* sample that a concurrent flush has already taken away.                  *)
Durations == [e \in Edges |-> EdgeDuration(e)]

InBucketOf(e, i) ==
    /\ i < BucketCount => EdgeDuration(e) <= LatencyBounds[i]
    /\ i > 1 => EdgeDuration(e) > LatencyBounds[i - 1]

SampleOf(E) ==
    [calls   |-> Cardinality(E),
     errors  |-> Cardinality({e \in E : EdgeIsError(e)}),
     sum     |-> SumOver(Durations, E),
     max     |-> Max({0} \cup {EdgeDuration(e) : e \in E}),
     buckets |-> [i \in 1 .. BucketCount |-> Cardinality({e \in E : InBucketOf(e, i)})]]

Aggregates(a, E) ==
    /\ DOMAIN a = {EdgeKey(e) : e \in E}
    /\ \A k \in DOMAIN a : a[k] = SampleOf({e \in E : EdgeKey(e) = k})

AggregatesExact == Aggregates(agg, aggregated) /\ Aggregates(out, writing)

(* "Records live between TTL/2 and TTL": no step but the arrival of a span *)
(* removes a record from the current generation, except to put it in the   *)
(* previous one, so that every record survives at least one rotation.      *)
SurvivesOneRotation ==
    [][seen' = seen =>
         \A k \in Keys : cur[k] # None => cur[k] \in {cur'[k], prev'[k]}]_vars

(* The builder implements the ledger of spans. *)
Status == [s \in Spans |-> IF s \notin seen THEN "unseen"
                           ELSE IF s \in CountedSpans THEN "counted"
                           ELSE IF s \in Waiting THEN "waiting"
                           ELSE "discarded"]

Ledger == INSTANCE EdgeLedger WITH status <- Status, Key <- [s \in Spans |-> s.key]

(* Every step of the builder is a step of the ledger or leaves it alone.   *)
LedgerSpec == Ledger!Spec

-----------------------------------------------------------------------------
(* Fairness.  A worker or the goroutine that can go on does: neither ever  *)
(* waits for anything but a mutex held for a bounded time.  Each ticker    *)
(* fires again and again, and Go's select picks among the ready cases at   *)
(* random, so no case that is ready again and again is passed over for     *)
(* ever.                                                                   *)
Fairness ==
    /\ \A w \in Workers : WF_vars(Emit(w))
    /\ WF_vars(Loop)
    /\ SF_vars(RotateTick)
    /\ SF_vars(FlushTick)
    /\ SF_vars(LastRotate)

FairSpec == Spec /\ Fairness

(* "Unpaired CLIENT spans in the discarded generation are not lost": a     *)
(* client with a nameable target is eventually counted, unless its span ID *)
(* was sent again or the goroutine has ended.                              *)
ClientsSettle ==
    \A s \in Clients \cap Named :
        s \in seen ~> (s \in CountedSpans \/ Replaced(s) \/ loop.pc = "done")

(* An aggregated edge does not stay in memory: it is eventually handed to  *)
(* the sink, unless the goroutine has ended.                               *)
EdgesReachSink ==
    \A e \in Edges : e \in aggregated ~> (e \in stored \cup lost \/ loop.pc = "done")
=============================================================================
