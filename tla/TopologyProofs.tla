--------------------------- MODULE TopologyProofs ---------------------------
(***************************************************************************)
(* Proofs about the topology builder and the graph drawn from what it      *)
(* writes, for any number of workers, shards, keys and spans, any latency  *)
(* bounds, and any placing of services.                                    *)
(***************************************************************************)
EXTENDS TopologyView, SumTheorems

(***************************************************************************)
(* The inductive invariant.  A generation is well formed: it maps a key to *)
(* a span of that key that can be paired and has been observed, and no     *)
(* shard of it holds more than the limit allows.                           *)
(***************************************************************************)
GenTyped(g) ==
    /\ g \in [Keys -> SpanOrNone]
    /\ \A sh \in Shards : /\ IsFiniteSet(HeldIn(g, sh))
                          /\ Cardinality(HeldIn(g, sh)) <= MaxPendingPerShard

GenPlaced(g, S) ==
    \A k \in Keys : g[k] # None => g[k] \in S \cap (Clients \cup Servers) /\ g[k].key = k

TablesInv == /\ GenTyped(cur) /\ GenPlaced(cur, seen)
             /\ GenTyped(prev) /\ GenPlaced(prev, seen)
             /\ KeyHeldOnce

(* The aggregation maps and their histories are typed and finite, and an   *)
(* edge is never behind an empty map.                                      *)
Typed == /\ TypeOK
         /\ IsFiniteSet(DOMAIN agg)
         /\ IsFiniteSet(DOMAIN out)
         /\ DOMAIN agg = {} => aggregated = {}
         /\ loop.pc # "write" => writing = {}

(***************************************************************************)
(* Every span is in one place.  Both ends of an edge belong to one call.   *)
(* What a goroutine or the record of edges has is not in the table; what   *)
(* the rotation has, no worker and no edge has; what a worker has, no      *)
(* other worker and no edge has; what an edge has, no other edge has.      *)
(***************************************************************************)
InTable(s) == \E k \in Keys : cur[k] = s \/ prev[k] = s

OneCall(e) == e.from # None /\ e.to # None => e.from.key = e.to.key

(* s has been observed and is neither in the table nor with the rotation. *)
Out(s) == s \in seen /\ ~InTable(s) /\ s \notin dropped

DroppedInv == \A s \in dropped : s \in seen \cap (Clients \cup Servers) /\ ~InTable(s)

EmitInv ==
    \A w \in Workers : emit[w] # None =>
        /\ OneCall(emit[w])
        /\ \A s \in Ends(emit[w]) : Out(s)
        /\ \A v \in Workers : v # w /\ emit[v] # None => Ends(emit[w]) \cap Ends(emit[v]) = {}

RecordedInv ==
    \A e \in Recorded :
        /\ OneCall(e)
        /\ \A s \in Ends(e) : Out(s)
        /\ \A w \in Workers : emit[w] # None => Ends(e) \cap Ends(emit[w]) = {}
        /\ \A f \in Recorded : f # e => Ends(e) \cap Ends(f) = {}

(* Nothing that must be kept has gone astray. *)
Kept == (Clients \cap Named) \cup Entries

Accounted(s) ==
    \/ InTable(s)
    \/ s \in dropped
    \/ \E w \in Workers : emit[w] # None /\ s \in Ends(emit[w])
    \/ \E e \in Recorded : s \in Ends(e)

NotLost == \A s \in seen \cap Kept : Accounted(s) \/ Replaced(s)

IInv == TablesInv /\ Typed /\ DroppedInv /\ EmitInv /\ RecordedInv /\ NotLost

-----------------------------------------------------------------------------
(* Facts about the pieces the actions are made of. *)

LEMMA SpanKinds ==
    /\ \A s \in Clients : s \in Spans /\ s.kind = "client" /\ s.key \in Keys
    /\ \A s \in Servers : s \in Spans /\ s.kind = "server" /\ s.key \in Keys
    /\ \A s \in Entries : s \in Spans
BY ConstantsAssumption DEF Clients, Servers, Entries, IsSpan

LEMMA BumpType ==
    ASSUME NEW D, NEW f \in [D -> Nat], NEW i
    PROVE  [f EXCEPT ![i] = @ + 1] \in [D -> Nat]
<1>1. CASE i \in D
    BY <1>1
<1>2. CASE i \notin D
    BY <1>2
<1> QED BY <1>1, <1>2

LEMMA AddCallType ==
    ASSUME NEW x \in Samples, NEW e \in Edges
    PROVE  AddCall(x, e) \in Samples
<1>1. EdgeDuration(e) \in Nat
    BY ConstantsAssumption DEF EdgeDuration, Edges, Clients, Servers, Entries, IsSpan
<1>2. [x.buckets EXCEPT ![bucketIndex(EdgeDuration(e))] = @ + 1] \in [1 .. BucketCount -> Nat]
    <2>1. x.buckets \in [1 .. BucketCount -> Nat]
        BY DEF Samples
    <2> QED BY <2>1, BumpType
<1> QED BY <1>1, <1>2 DEF AddCall, Samples

LEMMA NewSampleType == NewSample \in Samples
BY DEF NewSample, Samples

LEMMA recordType ==
    ASSUME Typed, NEW e \in Edges, record(e)
    PROVE  /\ agg' = [k \in DOMAIN agg' |-> agg'[k]]
           /\ \A k \in DOMAIN agg' : agg'[k] \in Samples
           /\ IsFiniteSet(DOMAIN agg') /\ DOMAIN agg' # {}
           /\ aggregated' \subseteq Edges
<1> DEFINE k == EdgeKey(e)
           x == AddCall(IF k \in DOMAIN agg THEN agg[k] ELSE NewSample, e)
<1> HIDE DEF k
<1>1. agg' = [j \in DOMAIN agg \cup {k} |-> IF j # k THEN agg[j] ELSE x]
    BY DEF record, k
<1>2. x \in Samples
    BY AddCallType, NewSampleType DEF Typed, TypeOK
<1>3. IsFiniteSet(DOMAIN agg \cup {k})
    BY FS_AddElement DEF Typed
<1> HIDE DEF x
<1>4. \A j \in DOMAIN agg : agg[j] \in Samples
    BY DEF Typed, TypeOK
<1>5. DOMAIN agg' = DOMAIN agg \cup {k}
    BY <1>1
<1>6. aggregated' \subseteq Edges
    BY DEF record, Typed, TypeOK
<1> QED BY <1>1, <1>2, <1>3, <1>4, <1>5, <1>6

-----------------------------------------------------------------------------
(* The pairing table. *)

(* A generation with some records removed is still within its limits. *)
LEMMA ShrinkTyped ==
    ASSUME NEW g, GenTyped(g), NEW h \in [Keys -> SpanOrNone],
           \A k \in Keys : h[k] = None \/ h[k] = g[k]
    PROVE  GenTyped(h)
<1> SUFFICES ASSUME NEW sh \in Shards
             PROVE  /\ IsFiniteSet(HeldIn(h, sh))
                    /\ Cardinality(HeldIn(h, sh)) <= MaxPendingPerShard
    BY DEF GenTyped
<1>1. HeldIn(h, sh) \in SUBSET HeldIn(g, sh)
    BY DEF HeldIn
<1>2. IsFiniteSet(HeldIn(g, sh)) /\ Cardinality(HeldIn(g, sh)) <= MaxPendingPerShard
    BY DEF GenTyped
<1>3. /\ IsFiniteSet(HeldIn(h, sh))
      /\ Cardinality(HeldIn(h, sh)) <= Cardinality(HeldIn(g, sh))
    BY <1>1, <1>2, FS_Subset
<1>4. Cardinality(HeldIn(h, sh)) \in Nat /\ Cardinality(HeldIn(g, sh)) \in Nat
    BY <1>2, <1>3, FS_CardinalityType
<1> QED BY <1>2, <1>3, <1>4, ConstantsAssumption

(* Putting a span in a free slot of a shard that is not full keeps the     *)
(* shard within the limit.                                                 *)
LEMMA AddTyped ==
    ASSUME NEW g, GenTyped(g), NEW k \in Keys, g[k] = None, ~Full(g, k), NEW s \in Spans
    PROVE  GenTyped([g EXCEPT ![k] = s])
<1> DEFINE h == [g EXCEPT ![k] = s]
<1>1. g \in [Keys -> SpanOrNone] /\ h \in [Keys -> SpanOrNone]
    BY DEF GenTyped, SpanOrNone
<1> SUFFICES ASSUME NEW sh \in Shards
             PROVE  /\ IsFiniteSet(HeldIn(h, sh))
                    /\ Cardinality(HeldIn(h, sh)) <= MaxPendingPerShard
    BY <1>1 DEF GenTyped
<1>2. IsFiniteSet(HeldIn(g, sh)) /\ Cardinality(HeldIn(g, sh)) <= MaxPendingPerShard
    BY DEF GenTyped
<1>3. CASE ShardOf[k] = sh
    <2>1. HeldIn(h, sh) = HeldIn(g, sh) \cup {k} /\ k \notin HeldIn(g, sh)
        BY <1>1, <1>3, ConstantsAssumption DEF HeldIn
    <2>2. /\ IsFiniteSet(HeldIn(h, sh))
          /\ Cardinality(HeldIn(h, sh)) = Cardinality(HeldIn(g, sh)) + 1
        BY <1>2, <2>1, FS_AddElement
    <2>3. Cardinality(HeldIn(g, sh)) \in Nat
        BY <1>2, FS_CardinalityType
    <2>4. Cardinality(HeldIn(g, sh)) < MaxPendingPerShard
        BY <1>3, <2>3, ConstantsAssumption DEF Full
    <2> QED BY <2>2, <2>3, <2>4, ConstantsAssumption
<1>4. CASE ShardOf[k] # sh
    <2>1. HeldIn(h, sh) = HeldIn(g, sh)
        BY <1>1, <1>4 DEF HeldIn
    <2> QED BY <1>2, <2>1
<1> QED BY <1>3, <1>4

(* take empties the slot of its key in both generations and touches no     *)
(* other; what it returns was in the table under that key.                 *)
LEMMA TakeFacts ==
    ASSUME TablesInv, NEW k \in Keys
    PROVE  /\ GenTyped(CurTaken(k))
           /\ GenTyped(PrevTaken(k))
           /\ CurTaken(k)[k] = None
           /\ PrevTaken(k)[k] = None
           /\ \A j \in Keys : j # k => CurTaken(k)[j] = cur[j] /\ PrevTaken(k)[j] = prev[j]
           /\ Taken(k) # None => /\ Taken(k) \in seen \cap (Clients \cup Servers)
                                 /\ Taken(k).key = k
                                 /\ InTable(Taken(k))
<1> USE DEF TablesInv, GenTyped, KeyHeldOnce
<1>1. CurTaken(k) \in [Keys -> SpanOrNone] /\ PrevTaken(k) \in [Keys -> SpanOrNone]
    BY DEF CurTaken, PrevTaken, SpanOrNone
<1>2. /\ CurTaken(k)[k] = None
      /\ PrevTaken(k)[k] = None
      /\ \A j \in Keys : j # k => CurTaken(k)[j] = cur[j] /\ PrevTaken(k)[j] = prev[j]
    BY DEF CurTaken, PrevTaken
<1>3. GenTyped(CurTaken(k))
    BY <1>1, <1>2, ShrinkTyped
<1>4. GenTyped(PrevTaken(k))
    BY <1>1, <1>2, ShrinkTyped
<1>5. Taken(k) # None => /\ Taken(k) \in seen \cap (Clients \cup Servers)
                         /\ Taken(k).key = k
                         /\ InTable(Taken(k))
    BY DEF Taken, GenPlaced, InTable
<1> QED BY <1>2, <1>3, <1>4, <1>5

(* A span that has not been observed is nowhere. *)
LEMMA FreshFacts ==
    ASSUME IInv, NEW s, s \notin seen, s # None
    PROVE  /\ ~InTable(s)
           /\ s \notin dropped
           /\ \A w \in Workers : emit[w] # None => s \notin Ends(emit[w])
           /\ \A e \in Recorded : s \notin Ends(e)
BY DEF IInv, TablesInv, GenPlaced, InTable, DroppedInv, EmitInv, RecordedInv, Out

-----------------------------------------------------------------------------
(* The table stays well formed. *)

LEMMA InitInv == Init => IInv
<1> SUFFICES ASSUME Init PROVE IInv
    OBVIOUS
<1>1. \A sh \in Shards : HeldIn(cur, sh) = {} /\ HeldIn(prev, sh) = {}
    BY DEF Init, HeldIn
<1>2. TablesInv
    <2>1. cur \in [Keys -> SpanOrNone] /\ prev \in [Keys -> SpanOrNone]
        BY DEF Init, SpanOrNone
    <2>2. IsFiniteSet({}) /\ Cardinality({}) <= MaxPendingPerShard
        BY FS_EmptySet, ConstantsAssumption
    <2>3. GenTyped(cur) /\ GenTyped(prev)
        BY <1>1, <2>1, <2>2, Zenon DEF GenTyped
    <2> QED BY <2>3 DEF Init, TablesInv, GenPlaced, KeyHeldOnce
<1>3. Typed
    <2>1. loop \in [pc : {"select", "rotate", "flush", "write", "done"},
                    shard : 0 .. NumShards, final : BOOLEAN]
        BY ConstantsAssumption DEF Init
    <2>2. cur \in [Keys -> SpanOrNone] /\ prev \in [Keys -> SpanOrNone]
        BY <1>2 DEF TablesInv, GenTyped
    <2>3. /\ agg = [k \in DOMAIN agg |-> agg[k]] /\ DOMAIN agg = {} /\ DOMAIN out = {}
        BY DEF Init
    <2>4. stats \in [paired : Nat, inferredPeers : Nat, entryPoints : Nat,
                     evicted : Nat, edgesWritten : Nat, pendingDropped : Nat]
        BY DEF Init
    <2>5. emit \in [Workers -> Edges \cup {None}]
        BY DEF Init
    <2> QED BY <2>1, <2>2, <2>3, <2>4, <2>5, FS_EmptySet DEF Init, Typed, TypeOK
<1>4. DroppedInv /\ EmitInv /\ RecordedInv /\ NotLost
    BY DEF Init, DroppedInv, EmitInv, RecordedInv, NotLost, Recorded
<1> QED BY <1>2, <1>3, <1>4 DEF IInv

LEMMA TablesMatch ==
    ASSUME IInv, NEW w \in Workers, NEW s \in Spans, Match(w, s) \/ Overflow(w, s)
    PROVE  TablesInv'
<1>1. s.key \in Keys
    BY SpanKinds DEF Match, Overflow, OtherEnd
<1>2. cur' = CurTaken(s.key) /\ prev' = PrevTaken(s.key) /\ seen \subseteq seen'
    BY DEF Match, Overflow, NextSpan
<1>3. TablesInv
    BY DEF IInv
<1>4. GenTyped(cur') /\ GenTyped(prev')
    BY <1>1, <1>2, <1>3, TakeFacts
<1>5. \A j \in Keys : /\ cur'[j] = None \/ cur'[j] = cur[j]
                      /\ prev'[j] = None \/ prev'[j] = prev[j]
    BY <1>1, <1>2, <1>3, TakeFacts
<1>6. GenPlaced(cur', seen') /\ GenPlaced(prev', seen')
    BY <1>2, <1>3, <1>5 DEF TablesInv, GenPlaced
<1>7. KeyHeldOnce'
    BY <1>3, <1>5 DEF TablesInv, KeyHeldOnce
<1> QED BY <1>4, <1>6, <1>7 DEF TablesInv, GenTyped, GenPlaced, HeldIn

LEMMA TablesHold ==
    ASSUME IInv, NEW w \in Workers, NEW s \in Spans, Hold(w, s)
    PROVE  TablesInv'
<1> DEFINE k == s.key
           g == CurTaken(k)
<1>1. k \in Keys /\ s \in Clients \cup Servers
    BY SpanKinds DEF Hold
<1>2. cur' = [g EXCEPT ![k] = s] /\ prev' = PrevTaken(k) /\ seen' = seen \cup {s}
    BY DEF Hold, NextSpan
<1>3. TablesInv
    BY DEF IInv
<1>4. /\ GenTyped(g) /\ g[k] = None /\ GenTyped(PrevTaken(k)) /\ PrevTaken(k)[k] = None
      /\ \A j \in Keys : j # k => g[j] = cur[j] /\ PrevTaken(k)[j] = prev[j]
    BY <1>1, <1>3, TakeFacts
<1>5. ~Full(g, k)
    BY DEF Hold
<1> HIDE DEF g, k
<1>6. GenTyped(cur') /\ GenTyped(prev')
    BY <1>1, <1>2, <1>4, <1>5, AddTyped
<1>7. /\ cur'[k] = s /\ prev'[k] = None
      /\ \A j \in Keys : j # k => cur'[j] = cur[j] /\ prev'[j] = prev[j]
    BY <1>1, <1>2, <1>4 DEF GenTyped
<1>8. GenPlaced(cur', seen') /\ GenPlaced(prev', seen')
    BY <1>1, <1>2, <1>3, <1>7 DEF TablesInv, GenPlaced, k
<1>9. KeyHeldOnce'
    BY <1>1, <1>3, <1>7 DEF TablesInv, KeyHeldOnce
<1> QED BY <1>6, <1>8, <1>9 DEF TablesInv, GenTyped, GenPlaced, HeldIn

LEMMA TablesRotate ==
    ASSUME IInv, RotateShard
    PROVE  TablesInv'
<1> DEFINE sh == loop.shard
<1>1. TablesInv /\ seen' = seen /\ sh \in Shards
    BY DEF IInv, RotateShard, history
<1>2. /\ prev' = [k \in Keys |-> IF ShardOf[k] = sh THEN cur[k] ELSE prev[k]]
      /\ cur' = [k \in Keys |-> IF ShardOf[k] = sh THEN None ELSE cur[k]]
    BY DEF RotateShard, PrevRotated
<1> HIDE DEF sh
<1>3. cur' \in [Keys -> SpanOrNone] /\ prev' \in [Keys -> SpanOrNone]
    BY <1>1, <1>2 DEF TablesInv, GenTyped, SpanOrNone
<1>4. GenTyped(cur')
    BY <1>1, <1>2, <1>3, ShrinkTyped DEF TablesInv
<1>5. GenTyped(prev')
    <2> SUFFICES ASSUME NEW r \in Shards
                 PROVE  /\ IsFiniteSet(HeldIn(prev', r))
                        /\ Cardinality(HeldIn(prev', r)) <= MaxPendingPerShard
        BY <1>3 DEF GenTyped
    <2>1. CASE r = sh
        <3>1. HeldIn(prev', r) = HeldIn(cur, r)
            BY <1>2, <2>1 DEF HeldIn
        <3> QED BY <1>1, <3>1 DEF TablesInv, GenTyped
    <2>2. CASE r # sh
        <3>1. HeldIn(prev', r) = HeldIn(prev, r)
            BY <1>2, <2>2 DEF HeldIn
        <3> QED BY <1>1, <3>1 DEF TablesInv, GenTyped
    <2> QED BY <2>1, <2>2
<1>6. GenPlaced(cur', seen') /\ GenPlaced(prev', seen')
    BY <1>1, <1>2 DEF TablesInv, GenPlaced
<1>7. KeyHeldOnce'
    BY <1>1, <1>2 DEF TablesInv, KeyHeldOnce
<1> QED BY <1>4, <1>5, <1>6, <1>7 DEF TablesInv, GenTyped, GenPlaced, HeldIn

(* The steps that leave the table and the limits of the record alone. *)
LEMMA TablesSame ==
    ASSUME IInv, UNCHANGED <<cur, prev>>, seen \subseteq seen'
    PROVE  TablesInv'
BY DEF IInv, TablesInv, GenTyped, GenPlaced, HeldIn, KeyHeldOnce

LEMMA TablesStep ==
    ASSUME IInv, [Next]_vars
    PROVE  TablesInv'
<1>1. ASSUME NEW w \in Workers, NEW s \in Spans, observe(w, s)
      PROVE  TablesInv'
    <2>1. CASE observeInternal(w, s) \/ EnterHere(w, s)
        BY <2>1, TablesSame DEF observeInternal, EnterHere, NextSpan
    <2>2. CASE Match(w, s) \/ Overflow(w, s)
        BY <2>2, TablesMatch
    <2>3. CASE Hold(w, s)
        BY <2>3, TablesHold
    <2> QED BY <1>1, <2>1, <2>2, <2>3 DEF observe
<1>2. ASSUME NEW w \in Workers, Emit(w)
      PROVE  TablesInv'
    BY <1>2, TablesSame DEF Emit
<1>3. CASE RotateShard
    BY <1>3, TablesRotate
<1>4. CASE RotateTick \/ LastRotate \/ FlushTick \/ RotateDone \/ FlushSwap \/ Stop \/ Cancel
    BY <1>4, TablesSame
    DEF RotateTick, LastRotate, BeginRotate, FlushTick, RotateDone, FlushSwap, Stop, Cancel, history
<1>5. ASSUME NEW s \in Spans, Evict(s)
      PROVE  TablesInv'
    BY <1>5, TablesSame DEF Evict
<1>6. ASSUME NEW ok \in BOOLEAN, WriteEdges(ok)
      PROVE  TablesInv'
    BY <1>6, TablesSame DEF WriteEdges
<1>7. CASE UNCHANGED vars
    BY <1>7, TablesSame DEF vars
<1> QED BY <1>1, <1>2, <1>3, <1>4, <1>5, <1>6, <1>7 DEF Next, Loop

-----------------------------------------------------------------------------
(* The variables keep their types. *)

LEMMA OneMoreType ==
    ASSUME NEW x \in [paired : Nat, inferredPeers : Nat, entryPoints : Nat,
                evicted : Nat, edgesWritten : Nat, pendingDropped : Nat]
    PROVE  /\ [x EXCEPT !.inferredPeers = @ + 1] \in
                [paired : Nat, inferredPeers : Nat, entryPoints : Nat,
                evicted : Nat, edgesWritten : Nat, pendingDropped : Nat]
           /\ [x EXCEPT !.entryPoints = @ + 1] \in
                [paired : Nat, inferredPeers : Nat, entryPoints : Nat,
                evicted : Nat, edgesWritten : Nat, pendingDropped : Nat]
           /\ [x EXCEPT !.paired = @ + 1] \in
                [paired : Nat, inferredPeers : Nat, entryPoints : Nat,
                evicted : Nat, edgesWritten : Nat, pendingDropped : Nat]
<1>1. [x EXCEPT !.inferredPeers = @ + 1] \in
                [paired : Nat, inferredPeers : Nat, entryPoints : Nat,
                evicted : Nat, edgesWritten : Nat, pendingDropped : Nat]
    OBVIOUS
<1>2. [x EXCEPT !.entryPoints = @ + 1] \in
                [paired : Nat, inferredPeers : Nat, entryPoints : Nat,
                evicted : Nat, edgesWritten : Nat, pendingDropped : Nat]
    OBVIOUS
<1>3. [x EXCEPT !.paired = @ + 1] \in
                [paired : Nat, inferredPeers : Nat, entryPoints : Nat,
                evicted : Nat, edgesWritten : Nat, pendingDropped : Nat]
    OBVIOUS
<1> QED BY <1>1, <1>2, <1>3

LEMMA CountedType ==
    ASSUME Typed, NEW e
    PROVE  Counted(e, stats) \in [paired : Nat, inferredPeers : Nat, entryPoints : Nat,
                                  evicted : Nat, edgesWritten : Nat, pendingDropped : Nat]
<1>1. stats \in [paired : Nat, inferredPeers : Nat, entryPoints : Nat,
                 evicted : Nat, edgesWritten : Nat, pendingDropped : Nat]
    BY DEF Typed, TypeOK
<1> QED BY <1>1, OneMoreType DEF Counted

LEMMA EvictedType ==
    ASSUME NEW x \in [paired : Nat, inferredPeers : Nat, entryPoints : Nat,
                      evicted : Nat, edgesWritten : Nat, pendingDropped : Nat]
    PROVE  [x EXCEPT !.evicted = @ + 1] \in
              [paired : Nat, inferredPeers : Nat, entryPoints : Nat,
               evicted : Nat, edgesWritten : Nat, pendingDropped : Nat]
OBVIOUS

LEMMA TypedObserve ==
    ASSUME IInv, TablesInv', NEW w \in Workers, NEW s \in Spans, observe(w, s)
    PROVE  Typed'
<1> USE DEF IInv, Typed, TypeOK
<1>1. cur' \in [Keys -> SpanOrNone] /\ prev' \in [Keys -> SpanOrNone]
    BY DEF TablesInv, GenTyped
<1>2. /\ seen' \subseteq Spans
      /\ UNCHANGED <<agg, loop, dropped, out, stopCh, ctxDone,
                     aggregated, writing, stored, lost>>
    BY DEF observe, observeInternal, Match, Hold, Overflow, EnterHere, NextSpan
<1>3. stats' \in [paired : Nat, inferredPeers : Nat, entryPoints : Nat,
                   evicted : Nat, edgesWritten : Nat, pendingDropped : Nat]
    BY DEF observe, observeInternal, Match, Hold, Overflow, EnterHere
<1>4. emit' \in [Workers -> Edges \cup {None}]
    <2>1. CASE observeInternal(w, s) \/ Hold(w, s)
        BY <2>1 DEF observeInternal, Hold
    <2>2. CASE Match(w, s)
        <3>1. PairOf(s, Taken(s.key)) \in Edges
            BY <2>2, SpanKinds DEF Match, OtherEnd, PairOf, Pair, Edges, Clients, Servers
        <3> QED BY <2>2, <3>1 DEF Match
    <2>3. CASE Overflow(w, s)
        <3>1. Fallback(s) \in Edges \cup {None}
            BY DEF Fallback, Inferred, Edges
        <3> QED BY <2>3, <3>1 DEF Overflow
    <2>4. CASE EnterHere(w, s)
        <3>1. Entry(s) \in Edges
            BY <2>4 DEF EnterHere, Entry, Edges
        <3> QED BY <2>4, <3>1 DEF EnterHere
    <2> QED BY <2>1, <2>2, <2>3, <2>4 DEF observe
<1> QED BY <1>1, <1>2, <1>3, <1>4

LEMMA TypedStep ==
    ASSUME IInv, TablesInv', [Next]_vars
    PROVE  Typed'
<1> USE DEF IInv, Typed, TypeOK
<1>1. ASSUME NEW w \in Workers, NEW s \in Spans, observe(w, s)
      PROVE  Typed'
    BY <1>1, TypedObserve
<1>2. ASSUME NEW w \in Workers, Emit(w)
      PROVE  Typed'
    <2>1. emit[w] \in Edges
        BY <1>2 DEF Emit
    <2>2. record(emit[w])
        BY <1>2 DEF Emit
    <2>3. /\ agg' = [k \in DOMAIN agg' |-> agg'[k]]
          /\ \A k \in DOMAIN agg' : agg'[k] \in Samples
          /\ IsFiniteSet(DOMAIN agg') /\ DOMAIN agg' # {}
          /\ aggregated' \subseteq Edges
        BY <2>1, <2>2, recordType
    <2>4. stats' \in [paired : Nat, inferredPeers : Nat, entryPoints : Nat,
                      evicted : Nat, edgesWritten : Nat, pendingDropped : Nat]
        BY <1>2, CountedType DEF Emit
    <2>5. emit' \in [Workers -> Edges \cup {None}]
        BY <1>2 DEF Emit
    <2> QED BY <1>2, <2>3, <2>4, <2>5 DEF Emit
<1>3. CASE RotateShard
    <2>1. cur' \in [Keys -> SpanOrNone] /\ prev' \in [Keys -> SpanOrNone]
        BY DEF TablesInv, GenTyped
    <2>2. dropped' \subseteq Spans
        BY <1>3 DEF RotateShard, Discarded, HeldIn, SpanOrNone
    <2>3. loop' \in [pc : {"select", "rotate", "flush", "write", "done"},
                     shard : 0 .. NumShards, final : BOOLEAN]
        <3>1. loop.shard \in 0 .. NumShards - 1
            BY <1>3 DEF RotateShard, Shards
        <3>2. loop.shard + 1 \in 0 .. NumShards
            BY <3>1, ConstantsAssumption
        <3> QED BY <1>3, <3>2 DEF RotateShard
    <2> QED BY <1>3, <2>1, <2>2, <2>3 DEF RotateShard, history
<1>4. CASE RotateTick \/ LastRotate \/ FlushTick \/ RotateDone \/ Stop \/ Cancel
    <2>1. 0 \in 0 .. NumShards
        BY ConstantsAssumption
    <2>2. loop' \in [pc : {"select", "rotate", "flush", "write", "done"},
                     shard : 0 .. NumShards, final : BOOLEAN]
        <3>1. CASE RotateTick
            BY <3>1, <2>1 DEF RotateTick, BeginRotate
        <3>2. CASE LastRotate
            BY <3>2, <2>1 DEF LastRotate, BeginRotate
        <3>3. CASE FlushTick \/ RotateDone
            BY <3>3 DEF FlushTick, RotateDone, AfterRotate
        <3>4. CASE Stop \/ Cancel
            BY <3>4 DEF Stop, Cancel
        <3> QED BY <1>4, <3>1, <3>2, <3>3, <3>4
    <2>3. UNCHANGED <<cur, prev, agg, stats, emit, dropped, out, history>>
        BY <1>4
        DEF RotateTick, LastRotate, BeginRotate, FlushTick, RotateDone, Stop, Cancel
    <2>4. stopCh' \in BOOLEAN /\ ctxDone' \in BOOLEAN
        BY <1>4
        DEF RotateTick, LastRotate, BeginRotate, FlushTick, RotateDone, Stop, Cancel
    <2>5. loop'.pc # "write" => loop.pc # "write"
        BY <1>4
        DEF RotateTick, LastRotate, BeginRotate, FlushTick, RotateDone, Stop, Cancel
    <2> QED BY <2>2, <2>3, <2>4, <2>5 DEF history
<1>5. ASSUME NEW s \in Spans, Evict(s)
      PROVE  Typed'
    <2>1. stats' \in [paired : Nat, inferredPeers : Nat, entryPoints : Nat,
                      evicted : Nat, edgesWritten : Nat, pendingDropped : Nat]
        <3>1. PICK a : a = Counted(Inferred(s), stats)
            OBVIOUS
        <3>2. a \in [paired : Nat, inferredPeers : Nat, entryPoints : Nat,
                     evicted : Nat, edgesWritten : Nat, pendingDropped : Nat]
            BY <3>1, CountedType
        <3>3. stats' \in {[a EXCEPT !.evicted = @ + 1], [stats EXCEPT !.evicted = @ + 1]}
            BY <1>5, <3>1 DEF Evict, EvictCounts
        <3>4. stats \in [paired : Nat, inferredPeers : Nat, entryPoints : Nat,
                         evicted : Nat, edgesWritten : Nat, pendingDropped : Nat]
            BY DEF Typed, TypeOK
        <3>5. \A x \in {a, stats} : [x EXCEPT !.evicted = @ + 1] \in
                  [paired : Nat, inferredPeers : Nat, entryPoints : Nat,
                   evicted : Nat, edgesWritten : Nat, pendingDropped : Nat]
            BY <3>2, <3>4, EvictedType
        <3> QED BY <3>3, <3>5
    <2>2. CASE s \in Clients \cap Named
        <3>1. Inferred(s) \in Edges /\ record(Inferred(s))
            BY <1>5, <2>2 DEF Evict, Inferred, Edges
        <3>2. /\ agg' = [k \in DOMAIN agg' |-> agg'[k]]
              /\ \A k \in DOMAIN agg' : agg'[k] \in Samples
              /\ IsFiniteSet(DOMAIN agg') /\ DOMAIN agg' # {}
              /\ aggregated' \subseteq Edges
            BY <3>1, recordType
        <3> QED BY <1>5, <2>1, <3>2 DEF Evict
    <2>3. CASE s \notin Clients \cap Named
        BY <1>5, <2>1, <2>3 DEF Evict
    <2> QED BY <2>2, <2>3
<1>6. CASE FlushSwap
    BY <1>6, FS_EmptySet DEF FlushSwap, AfterSwap, AfterFlush, AggSwapped
<1>7. ASSUME NEW ok \in BOOLEAN, WriteEdges(ok)
      PROVE  Typed'
    <2>1. Cardinality(DOMAIN out) \in Nat
        BY FS_CardinalityType
    <2> QED BY <1>7, <2>1, FS_EmptySet DEF WriteEdges, AfterFlush
<1>8. CASE UNCHANGED vars
    BY <1>8 DEF vars
<1> QED BY <1>1, <1>2, <1>3, <1>4, <1>5, <1>6, <1>7, <1>8 DEF Next, Loop

-----------------------------------------------------------------------------
(* Every span stays in one place. *)

(* What the arrival of s does to the table and to the worker that has it:  *)
(* the edge the worker goes off with has taken its ends out of the table,  *)
(* and no nameable client leaves the table but for that edge or for its    *)
(* own successor.                                                          *)
Arrived(w, s) ==
    /\ \A x \in Spans : InTable(x)' => InTable(x) \/ x = s
    /\ emit'[w] # None => /\ OneCall(emit'[w])
                          /\ \A x \in Ends(emit'[w]) : /\ x \in Spans
                                                       /\ ~InTable(x)'
                                                       /\ x = s \/ InTable(x)
    /\ \A x \in Kept : InTable(x) =>
          \/ InTable(x)'
          \/ emit'[w] # None /\ x \in Ends(emit'[w])
          \/ s \in Clients /\ x \in Clients /\ s.key = x.key
    /\ s \in Kept => InTable(s)' \/ (emit'[w] # None /\ s \in Ends(emit'[w]))

LEMMA EdgeFacts ==
    /\ \A c \in Clients, v \in Servers : Ends(Pair(c, v)) = {c, v} /\ Pair(c, v) # None
    /\ \A c \in Clients \cap Named : Ends(Inferred(c)) = {c} /\ Inferred(c) # None
    /\ \A v \in Entries : Ends(Entry(v)) = {v} /\ Entry(v) # None
    /\ \A c, v \in Spans : c.key = v.key => OneCall(Pair(c, v))
    /\ \A c \in Spans : OneCall(Inferred(c)) /\ OneCall(Entry(c))
<1>1. \A x \in Spans : x # None
    BY ConstantsAssumption
<1>2. \A c \in Clients, v \in Servers : Pair(c, v) \in Edges
    BY DEF Pair, Edges
<1>3. \A c \in Clients \cap Named : Inferred(c) \in Edges
    BY DEF Inferred, Edges
<1>4. \A v \in Entries : Entry(v) \in Edges
    BY DEF Entry, Edges
<1>5. \A c, v : Ends(Pair(c, v)) = {c, v} \ {None}
    BY DEF Ends, Pair
<1>6. \A c : Ends(Inferred(c)) = {c} \ {None} /\ Ends(Entry(c)) = {c} \ {None}
    BY DEF Ends, Inferred, Entry
<1>7. /\ \A c, v \in Spans : c.key = v.key => OneCall(Pair(c, v))
      /\ \A c \in Spans : OneCall(Inferred(c)) /\ OneCall(Entry(c))
    BY DEF OneCall, Pair, Inferred, Entry
<1> QED BY <1>1, <1>2, <1>3, <1>4, <1>5, <1>6, <1>7, SpanKinds, NoneIsNoEdge

LEMMA ArriveMatch ==
    ASSUME IInv, NEW w \in Workers, NEW s \in Spans, Match(w, s)
    PROVE  /\ Arrived(w, s)
           /\ emit'[w] # None /\ s \in Ends(emit'[w])
           /\ \A x \in Spans : InTable(x) => InTable(x)' \/ x \in Ends(emit'[w])
<1> DEFINE k == s.key
<1>0. PICK o : o = Taken(k)
    OBVIOUS
<1>1. /\ k \in Keys /\ s \in Clients \cup Servers /\ o \in Clients \cup Servers
      /\ s \in Clients => o \in Servers
      /\ s \notin Clients => s \in Servers /\ o \in Clients
    BY <1>0, SpanKinds DEF Match, OtherEnd
<1>2. o \in Spans /\ o # None
    BY <1>1, SpanKinds, ConstantsAssumption
<1>3. TablesInv
    BY DEF IInv
<1>4. /\ CurTaken(k)[k] = None /\ PrevTaken(k)[k] = None
      /\ \A j \in Keys : j # k => CurTaken(k)[j] = cur[j] /\ PrevTaken(k)[j] = prev[j]
      /\ o.key = k /\ InTable(o)
    BY <1>0, <1>1, <1>2, <1>3, TakeFacts
<1>5. cur' = CurTaken(k) /\ prev' = PrevTaken(k) /\ s \notin seen
    BY DEF Match, NextSpan
<1>6. emit'[w] = PairOf(s, o)
    BY <1>0 DEF Match, IInv, Typed, TypeOK
<1> HIDE DEF k
<1>7. \A x \in Spans : InTable(x)' => InTable(x)
    BY <1>1, <1>4, <1>5, ConstantsAssumption DEF InTable
<1>8. ~InTable(s)'
    BY <1>5, <1>7, FreshFacts, ConstantsAssumption
<1>9. ~InTable(o)'
    BY <1>1, <1>2, <1>3, <1>4, <1>5 DEF InTable, TablesInv, GenPlaced
<1>10. \A x \in Spans : InTable(x) => InTable(x)' \/ x = o
    <2> SUFFICES ASSUME NEW x \in Spans, NEW j \in Keys, cur[j] = x \/ prev[j] = x
                 PROVE  InTable(x)' \/ x = o
        BY DEF InTable
    <2>1. CASE j # k
        BY <1>4, <1>5, <2>1 DEF InTable
    <2>2. CASE j = k
        BY <1>0, <1>3, <2>2, ConstantsAssumption DEF Taken, TablesInv, KeyHeldOnce
    <2> QED BY <2>1, <2>2
<1>11. Ends(emit'[w]) = {s, o} /\ emit'[w] # None /\ OneCall(emit'[w])
    <2>1. s.key = o.key
        BY <1>4 DEF k
    <2> QED BY <1>1, <1>2, <1>6, <2>1, EdgeFacts DEF PairOf
<1>12. \A x \in Ends(emit'[w]) : x \in Spans /\ ~InTable(x)' /\ (x = s \/ InTable(x))
    BY <1>2, <1>4, <1>8, <1>9, <1>11
<1>13. \A x \in Kept : x \in Spans
    BY SpanKinds DEF Kept
<1> QED BY <1>7, <1>10, <1>11, <1>12, <1>13 DEF Arrived

(* o is the record s displaces, if there is one. *)
Displaced(o, s) ==
    o # None => /\ o \in Spans /\ o # s /\ o.key = s.key
                /\ {s, o} \subseteq Clients \/ {s, o} \subseteq Servers
                /\ InTable(o) /\ ~InTable(o)'

LEMMA ArriveUnpaired ==
    ASSUME IInv, NEW w \in Workers, NEW s \in Spans, Hold(w, s) \/ Overflow(w, s)
    PROVE  /\ Arrived(w, s)
           /\ emit'[w] # None => Ends(emit'[w]) = {s}
           /\ \E o : /\ Displaced(o, s)
                     /\ \A x \in Spans : InTable(x) => InTable(x)' \/ x = o
<1> DEFINE k == s.key
<1>0. PICK o : o = Taken(k)
    OBVIOUS
<1>1. /\ k \in Keys /\ s \in Clients \cup Servers
      /\ s \in Clients => o \notin Servers
      /\ s \in Servers => o \notin Clients
    BY <1>0, SpanKinds DEF Hold, Overflow, OtherEnd
<1>2. TablesInv
    BY DEF IInv
<1>3. /\ CurTaken(k)[k] = None /\ PrevTaken(k)[k] = None
      /\ \A j \in Keys : j # k => CurTaken(k)[j] = cur[j] /\ PrevTaken(k)[j] = prev[j]
      /\ o # None => o \in seen \cap (Clients \cup Servers) /\ o.key = k /\ InTable(o)
      /\ CurTaken(k) \in [Keys -> SpanOrNone]
    BY <1>0, <1>1, <1>2, TakeFacts DEF GenTyped
<1>4. s \notin seen /\ emit[w] = None
    BY DEF Hold, Overflow, NextSpan
<1>5. /\ prev'[k] = None /\ cur'[k] \in {None, s}
      /\ \A j \in Keys : j # k => cur'[j] = cur[j] /\ prev'[j] = prev[j]
    BY <1>1, <1>3 DEF Hold, Overflow
<1>6. \/ Hold(w, s) /\ cur'[k] = s /\ emit'[w] = None
      \/ Overflow(w, s) /\ cur'[k] = None /\ emit'[w] = Fallback(s)
    BY <1>1, <1>3, <1>4 DEF Hold, Overflow, IInv, Typed, TypeOK
<1>7. \A x \in Spans : InTable(x)' => InTable(x) \/ (x = s /\ cur'[k] = s)
    BY <1>1, <1>5, ConstantsAssumption DEF InTable
<1>8. \A x \in Spans : InTable(x) => InTable(x)' \/ x = o
    <2> SUFFICES ASSUME NEW x \in Spans, NEW j \in Keys, cur[j] = x \/ prev[j] = x
                 PROVE  InTable(x)' \/ x = o
        BY DEF InTable
    <2>1. CASE j # k
        BY <1>5, <2>1 DEF InTable
    <2>2. CASE j = k
        BY <1>0, <1>2, <2>2, ConstantsAssumption DEF Taken, TablesInv, KeyHeldOnce
    <2> QED BY <2>1, <2>2
<1>9. ~InTable(s)
    BY <1>4, FreshFacts, ConstantsAssumption
<1>10. \A x \in Kept : x = o => s \in Clients /\ x \in Clients /\ s.key = x.key
    <2> SUFFICES ASSUME o \in Kept
                 PROVE  s \in Clients /\ o \in Clients /\ s.key = o.key
        OBVIOUS
    <2>1. o # None
        BY SpanKinds, ConstantsAssumption DEF Kept
    <2>2. o \in Clients
        BY <1>3, <2>1 DEF Kept, Clients, Servers, Entries
    <2> QED BY <1>1, <1>3, <2>1, <2>2
<1>14. Displaced(o, s)
    <2> SUFFICES ASSUME o # None
                 PROVE  /\ o \in Spans /\ o # s /\ o.key = s.key
                        /\ {s, o} \subseteq Clients \/ {s, o} \subseteq Servers
                        /\ InTable(o) /\ ~InTable(o)'
        BY DEF Displaced
    <2>1. o \in seen /\ o \in Clients \cup Servers /\ o.key = k /\ InTable(o)
        BY <1>3
    <2>2. o \in Spans /\ o # s
        BY <1>4, <2>1, SpanKinds
    <2>3. {s, o} \subseteq Clients \/ {s, o} \subseteq Servers
        BY <1>1, <2>1
    <2>4. \A j \in Keys : j # k => cur[j] # o /\ prev[j] # o
        BY <1>2, <2>1, <2>2 DEF TablesInv, GenPlaced
    <2>5. ~InTable(o)'
        <3>1. \A j \in Keys : cur'[j] # o /\ prev'[j] # o
            BY <1>5, <2>2, <2>4
        <3> QED BY <3>1 DEF InTable
    <2> QED BY <2>1, <2>2, <2>3, <2>5
<1>11. s \in Kept => s \in Clients \cap Named
    BY <1>1, ConstantsAssumption DEF Kept, Clients, Servers, Entries
<1>12. CASE Hold(w, s) /\ cur'[k] = s /\ emit'[w] = None
    <2>1. InTable(s)'
        BY <1>1, <1>12 DEF InTable
    <2>2. Arrived(w, s)
        BY <1>7, <1>8, <1>10, <1>12, <2>1, SpanKinds DEF Arrived, Kept
    <2> QED BY <1>8, <1>12, <1>14, <2>2
<1>13. CASE Overflow(w, s) /\ cur'[k] = None /\ emit'[w] = Fallback(s)
    <2>1. s # None
        BY ConstantsAssumption
    <2>2. ~InTable(s)'
        BY <1>7, <1>9, <1>13, <2>1
    <2>3. s \in Kept => emit'[w] # None /\ s \in Ends(emit'[w])
        BY <1>11, <1>13, EdgeFacts DEF Fallback
    <2>4. emit'[w] # None => OneCall(emit'[w]) /\ \A x \in Ends(emit'[w]) : x = s
        BY <1>13, EdgeFacts DEF Fallback
    <2>5. Arrived(w, s)
        BY <1>7, <1>8, <1>10, <2>2, <2>3, <2>4, SpanKinds DEF Arrived, Kept
    <2>6. emit'[w] # None => Ends(emit'[w]) = {s}
        BY <1>13, EdgeFacts DEF Fallback
    <2> QED BY <1>8, <1>14, <2>5, <2>6
<1> QED BY <1>6, <1>12, <1>13

Places == DroppedInv /\ EmitInv /\ RecordedInv /\ NotLost

LEMMA PlacesArrive ==
    ASSUME IInv, NEW w \in Workers, NEW s \in Spans, NextSpan(w, s), Arrived(w, s),
           \A v \in Workers : v # w => emit'[v] = emit[v]
    PROVE  Places'
<1>1. s # None /\ \A x \in Kept : x \in Spans
    BY SpanKinds, ConstantsAssumption DEF Kept
<1>2. /\ s \notin seen /\ seen' = seen \cup {s} /\ dropped' = dropped /\ emit[w] = None
      /\ Recorded' = Recorded
    BY DEF NextSpan, Recorded
<1>3. /\ ~InTable(s)
      /\ s \notin dropped
      /\ \A v \in Workers : emit[v] # None => s \notin Ends(emit[v])
      /\ \A e \in Recorded : s \notin Ends(e)
    BY <1>1, <1>2, FreshFacts
<1>4. seen \subseteq Spans /\ dropped \subseteq Spans
    BY DEF IInv, Typed, TypeOK
<1>5. DroppedInv'
    BY <1>2, <1>3, <1>4 DEF IInv, DroppedInv, Arrived
<1>6. \A x \in Spans : Out(x) /\ x # s => Out(x)'
    BY <1>2 DEF Arrived, Out
<1>7. emit'[w] # None => \A x \in Ends(emit'[w]) :
          /\ Out(x)'
          /\ \A v \in Workers : emit[v] # None => x \notin Ends(emit[v])
          /\ \A e \in Recorded : x \notin Ends(e)
    <2> SUFFICES ASSUME emit'[w] # None, NEW x \in Ends(emit'[w])
                 PROVE  /\ Out(x)'
                        /\ \A v \in Workers : emit[v] # None => x \notin Ends(emit[v])
                        /\ \A e \in Recorded : x \notin Ends(e)
        OBVIOUS
    <2>1. x \in Spans /\ ~InTable(x)' /\ (x = s \/ InTable(x))
        BY DEF Arrived
    <2>2. CASE x = s
        BY <1>2, <1>3, <2>1, <2>2 DEF Out
    <2>3. CASE InTable(x)
        <3>1. x \in seen /\ x \notin dropped
            BY <2>1, <2>3, ConstantsAssumption
            DEF IInv, TablesInv, GenPlaced, InTable, DroppedInv
        <3> QED BY <1>2, <2>1, <2>3, <3>1 DEF IInv, EmitInv, RecordedInv, Out
    <2> QED BY <2>1, <2>2, <2>3
<1>8. EmitInv'
    <2> SUFFICES ASSUME NEW v \in Workers, emit'[v] # None
                 PROVE  /\ OneCall(emit'[v])
                        /\ \A x \in Ends(emit'[v]) : Out(x)'
                        /\ \A u \in Workers : u # v /\ emit'[u] # None =>
                              Ends(emit'[v]) \cap Ends(emit'[u]) = {}
        BY DEF EmitInv, OneCall, Ends
    <2>1. CASE v = w
        BY <1>7, <2>1 DEF Arrived
    <2>2. CASE v # w
        <3>1. OneCall(emit'[v]) /\ \A x \in Ends(emit'[v]) : Out(x) /\ x # s
            BY <1>3, <2>2 DEF IInv, EmitInv
        <3>2. \A x \in Ends(emit'[v]) : Out(x)'
            BY <1>4, <1>6, <3>1 DEF Out
        <3>3. \A u \in Workers : u # v /\ emit'[u] # None =>
                Ends(emit'[v]) \cap Ends(emit'[u]) = {}
            BY <1>7, <2>2 DEF IInv, EmitInv
        <3> QED BY <3>1, <3>2, <3>3
    <2> QED BY <2>1, <2>2
<1>9. RecordedInv'
    <2> SUFFICES ASSUME NEW e \in Recorded
                 PROVE  /\ OneCall(e)
                        /\ \A x \in Ends(e) : Out(x)'
                        /\ \A v \in Workers : emit'[v] # None => Ends(e) \cap Ends(emit'[v]) = {}
                        /\ \A f \in Recorded : f # e => Ends(e) \cap Ends(f) = {}
        BY <1>2 DEF RecordedInv, OneCall, Ends
    <2>1. \A x \in Ends(e) : Out(x) /\ x # s
        BY <1>3 DEF IInv, RecordedInv
    <2>2. \A x \in Ends(e) : Out(x)'
        BY <1>4, <1>6, <2>1 DEF Out
    <2>3. \A v \in Workers : emit'[v] # None => Ends(e) \cap Ends(emit'[v]) = {}
        BY <1>7 DEF IInv, RecordedInv
    <2> QED BY <2>2, <2>3 DEF IInv, RecordedInv
<1>10. NotLost'
    <2> SUFFICES ASSUME NEW x \in seen' \cap Kept
                 PROVE  Accounted(x)' \/ Replaced(x)'
        BY DEF NotLost
    <2>1. CASE x = s
        BY <2>1 DEF Arrived, Accounted
    <2>2. CASE x # s
        <3>1. Accounted(x) \/ Replaced(x)
            BY <1>2, <2>2 DEF IInv, NotLost
        <3>2. CASE Replaced(x)
            BY <1>2, <3>2 DEF Replaced
        <3>3. CASE InTable(x)
            BY <1>2, <2>2, <3>3 DEF Arrived, Accounted, Replaced
        <3>4. CASE x \in dropped
            BY <1>2, <3>4 DEF Accounted
        <3>5. CASE \E v \in Workers : emit[v] # None /\ x \in Ends(emit[v])
            <4>1. PICK v \in Workers : emit[v] # None /\ x \in Ends(emit[v])
                BY <3>5
            <4>2. emit'[v] = emit[v]
                BY <1>2, <4>1
            <4> QED BY <4>1, <4>2 DEF Accounted, Ends
        <3>6. CASE \E e \in Recorded : x \in Ends(e)
            BY <1>2, <3>6 DEF Accounted, Ends
        <3> QED BY <3>1, <3>2, <3>3, <3>4, <3>5, <3>6 DEF Accounted
    <2> QED BY <2>1, <2>2
<1> QED BY <1>5, <1>8, <1>9, <1>10 DEF Places

LEMMA PlacesObserve ==
    ASSUME IInv, NEW w \in Workers, NEW s \in Spans, observe(w, s)
    PROVE  Places'
<1>1. NextSpan(w, s) /\ \A v \in Workers : v # w => emit'[v] = emit[v]
    BY DEF observe, observeInternal, Match, Hold, Overflow, EnterHere, NextSpan, IInv, Typed, TypeOK
<1>2. CASE observeInternal(w, s)
    BY <1>1, <1>2, PlacesArrive, ConstantsAssumption
    DEF observeInternal, NextSpan, Arrived, InTable, Kept, Clients, Entries
<1>3. CASE Match(w, s)
    BY <1>1, <1>3, ArriveMatch, PlacesArrive
<1>4. CASE Hold(w, s) \/ Overflow(w, s)
    BY <1>1, <1>4, ArriveUnpaired, PlacesArrive
<1>5. CASE EnterHere(w, s)
    <2>1. emit'[w] = Entry(s) /\ s \in Entries /\ s \notin seen
        BY <1>5 DEF EnterHere, NextSpan, IInv, Typed, TypeOK
    <2>2. \A x \in Spans : InTable(x)' <=> InTable(x)
        BY <1>5 DEF EnterHere, InTable
    <2>3. ~InTable(s)
        BY <2>1, FreshFacts, ConstantsAssumption
    <2>4. \A x \in Kept : x \in Spans
        BY SpanKinds DEF Kept
    <2>5. Arrived(w, s)
        BY <2>1, <2>2, <2>3, <2>4, EdgeFacts DEF Arrived
    <2> QED BY <1>1, <2>5, PlacesArrive
<1> QED BY <1>2, <1>3, <1>4, <1>5 DEF observe

(* A worker records its edge: the edge moves from the worker to the record. *)
LEMMA PlacesEmit ==
    ASSUME IInv, NEW w \in Workers, Emit(w)
    PROVE  Places'
<1>0. PICK e : e = emit[w]
    OBVIOUS
<1>1. /\ e # None /\ Recorded' = Recorded \cup {e}
      /\ emit' = [emit EXCEPT ![w] = None]
      /\ UNCHANGED <<cur, prev, dropped, seen>>
    BY <1>0 DEF Emit, record, Recorded
<1>2. emit'[w] = None /\ \A v \in Workers : v # w => emit'[v] = emit[v]
    BY <1>1 DEF IInv, Typed, TypeOK
<1>3. \A x : /\ InTable(x)' <=> InTable(x)
             /\ Out(x)' <=> Out(x)
             /\ Replaced(x)' <=> Replaced(x)
    BY <1>1 DEF InTable, Out, Replaced
<1>4. DroppedInv'
    BY <1>1, <1>3 DEF IInv, DroppedInv
<1>5. EmitInv'
    BY <1>2, <1>3 DEF IInv, EmitInv
<1>6. /\ OneCall(e)
      /\ \A x \in Ends(e) : Out(x)
      /\ \A v \in Workers : v # w /\ emit[v] # None => Ends(e) \cap Ends(emit[v]) = {}
      /\ \A f \in Recorded : Ends(f) \cap Ends(e) = {}
    BY <1>0, <1>1 DEF IInv, EmitInv, RecordedInv
<1>7. RecordedInv'
    BY <1>1, <1>2, <1>3, <1>6 DEF IInv, RecordedInv
<1>8. NotLost'
    <2> SUFFICES ASSUME NEW x \in seen \cap Kept
                 PROVE  Accounted(x)' \/ Replaced(x)'
        BY <1>1 DEF NotLost
    <2>1. CASE x \in Ends(e)
        BY <1>1, <2>1 DEF Accounted, Ends
    <2>2. CASE x \notin Ends(e)
        BY <1>0, <1>1, <1>2, <1>3, <2>2 DEF IInv, NotLost, Accounted, Ends
    <2> QED BY <2>1, <2>2
<1> QED BY <1>4, <1>5, <1>7, <1>8 DEF Places

(* A shard is rotated: its previous generation moves to the rotation. *)
LEMMA PlacesRotate ==
    ASSUME IInv, RotateShard
    PROVE  Places'
<1>0. PICK sh : sh = loop.shard
    OBVIOUS
<1>1. /\ prev' = [k \in Keys |-> IF ShardOf[k] = sh THEN cur[k] ELSE prev[k]]
      /\ cur' = [k \in Keys |-> IF ShardOf[k] = sh THEN None ELSE cur[k]]
      /\ dropped = {}
      /\ dropped' = {prev[k] : k \in HeldIn(prev, sh)}
      /\ UNCHANGED <<emit, seen>> /\ Recorded' = Recorded
    BY <1>0 DEF RotateShard, PrevRotated, Discarded, history, Recorded
<1>2. \A x : x # None /\ (InTable(x)' \/ x \in dropped') => InTable(x)
    BY <1>1 DEF InTable, HeldIn
<1>3. \A x : x # None /\ InTable(x) => InTable(x)' \/ x \in dropped'
    <2> SUFFICES ASSUME NEW x, x # None, NEW k \in Keys, cur[k] = x \/ prev[k] = x
                 PROVE  InTable(x)' \/ x \in dropped'
        BY DEF InTable
    <2>1. CASE ShardOf[k] = sh /\ prev[k] = x
        BY <1>1, <2>1 DEF HeldIn
    <2>2. CASE ShardOf[k] = sh /\ cur[k] = x
        BY <1>1, <2>2 DEF InTable
    <2>3. CASE ShardOf[k] # sh
        BY <1>1, <2>3 DEF InTable
    <2> QED BY <2>1, <2>2, <2>3
<1>4. \A x : Out(x) /\ x # None => Out(x)'
    BY <1>1, <1>2 DEF Out
<1>5. DroppedInv'
    <2> SUFFICES ASSUME NEW x \in dropped'
                 PROVE  x \in seen \cap (Clients \cup Servers) /\ ~InTable(x)'
        BY <1>1 DEF DroppedInv
    <2>1. PICK k \in Keys : ShardOf[k] = sh /\ prev[k] = x /\ x # None
        BY <1>1 DEF HeldIn
    <2>2. x \in seen \cap (Clients \cup Servers) /\ x.key = k
        BY <2>1 DEF IInv, TablesInv, GenPlaced
    <2>3. \A j \in Keys : j # k => cur[j] # x /\ prev[j] # x
        BY <2>1, <2>2 DEF IInv, TablesInv, GenPlaced
    <2>4. cur[k] = None
        BY <2>1 DEF IInv, TablesInv, KeyHeldOnce
    <2>5. ~InTable(x)'
        BY <1>1, <2>1, <2>3, <2>4 DEF InTable
    <2> QED BY <2>2, <2>5
<1>6. \A e \in Edges : \A x \in Ends(e) : x # None
    BY DEF Ends
<1>7. EmitInv'
    BY <1>1, <1>4, <1>6 DEF IInv, Typed, TypeOK, EmitInv
<1>8. RecordedInv'
    <2>1. Recorded \subseteq Edges
        BY DEF IInv, Typed, TypeOK, Recorded
    <2> QED BY <1>1, <1>4, <1>6, <2>1 DEF IInv, RecordedInv
<1>9. NotLost'
    <2> SUFFICES ASSUME NEW x \in seen \cap Kept
                 PROVE  Accounted(x)' \/ Replaced(x)'
        BY <1>1 DEF NotLost
    <2>1. x # None
        BY SpanKinds, ConstantsAssumption DEF Kept
    <2>2. Replaced(x) => Replaced(x)'
        BY <1>1 DEF Replaced
    <2> QED BY <1>1, <1>3, <2>1, <2>2 DEF IInv, NotLost, Accounted, Ends
<1> QED BY <1>5, <1>7, <1>8, <1>9 DEF Places

(* A discarded record becomes an edge to its inferred peer, or nothing. *)
LEMMA PlacesEvict ==
    ASSUME IInv, NEW s \in Spans, Evict(s)
    PROVE  Places'
<1>1. /\ s \in dropped /\ dropped' = dropped \ {s}
      /\ UNCHANGED <<cur, prev, emit, seen>>
    BY DEF Evict
<1>2. \A x : /\ InTable(x)' <=> InTable(x)
             /\ Out(x) => Out(x)'
             /\ Replaced(x)' <=> Replaced(x)
    BY <1>1 DEF InTable, Out, Replaced
<1>3. /\ s \in seen \cap (Clients \cup Servers) /\ Out(s)'
      /\ \A w \in Workers : emit[w] # None => s \notin Ends(emit[w])
      /\ \A e \in Recorded : s \notin Ends(e)
    BY <1>1, <1>2 DEF IInv, DroppedInv, EmitInv, RecordedInv, Out
<1>4. DroppedInv'
    BY <1>1, <1>2 DEF IInv, DroppedInv
<1>5. EmitInv'
    BY <1>1, <1>2 DEF IInv, EmitInv
<1>6. CASE s \in Clients \cap Named
    <2>0. PICK e : e = Inferred(s)
        OBVIOUS
    <2>1. Recorded' = Recorded \cup {e} /\ Ends(e) = {s} /\ OneCall(e)
        BY <1>6, <2>0, EdgeFacts DEF Evict, record, Recorded
    <2>2. RecordedInv'
        BY <1>1, <1>2, <1>3, <2>1 DEF IInv, RecordedInv
    <2>3. NotLost'
        <3> SUFFICES ASSUME NEW x \in seen \cap Kept
                     PROVE  Accounted(x)' \/ Replaced(x)'
            BY <1>1 DEF NotLost
        <3>1. CASE x = s
            BY <2>1, <3>1 DEF Accounted, Ends
        <3>2. CASE x # s
            BY <1>1, <1>2, <2>1, <3>2 DEF IInv, NotLost, Accounted, Ends
        <3> QED BY <3>1, <3>2
    <2> QED BY <1>4, <1>5, <2>2, <2>3 DEF Places
<1>7. CASE s \notin Clients \cap Named
    <2>1. Recorded' = Recorded
        BY <1>7 DEF Evict, Recorded
    <2>2. RecordedInv'
        BY <1>1, <1>2, <2>1 DEF IInv, RecordedInv
    <2>3. s \notin Kept
        BY <1>3, <1>7, ConstantsAssumption DEF Kept, Clients, Servers, Entries
    <2>4. NotLost'
        BY <1>1, <1>2, <2>1, <2>3 DEF IInv, NotLost, Accounted, Ends
    <2> QED BY <1>4, <1>5, <2>2, <2>4 DEF Places
<1> QED BY <1>6, <1>7

(* The steps that move edges on their way to the sink, or nothing at all. *)
LEMMA PlacesSame ==
    ASSUME IInv, UNCHANGED <<cur, prev, emit, dropped, seen>>, Recorded' = Recorded
    PROVE  Places'
<1>1. \A x : /\ InTable(x)' <=> InTable(x)
             /\ Out(x)' <=> Out(x)
             /\ Replaced(x)' <=> Replaced(x)
    BY DEF InTable, Out, Replaced
<1>2. DroppedInv' /\ EmitInv' /\ RecordedInv'
    BY <1>1 DEF IInv, DroppedInv, EmitInv, RecordedInv
<1>3. NotLost'
    BY <1>1 DEF IInv, NotLost, Accounted, Ends
<1> QED BY <1>2, <1>3 DEF Places

LEMMA PlacesStep ==
    ASSUME IInv, [Next]_vars
    PROVE  Places'
<1>1. ASSUME NEW w \in Workers, NEW s \in Spans, observe(w, s)
      PROVE  Places'
    BY <1>1, PlacesObserve
<1>2. ASSUME NEW w \in Workers, Emit(w)
      PROVE  Places'
    BY <1>2, PlacesEmit
<1>3. CASE RotateShard
    BY <1>3, PlacesRotate
<1>4. CASE RotateTick \/ LastRotate \/ FlushTick \/ RotateDone \/ Stop \/ Cancel
    BY <1>4, PlacesSame
    DEF RotateTick, LastRotate, BeginRotate, FlushTick, RotateDone, Stop, Cancel, history, Recorded
<1>5. ASSUME NEW s \in Spans, Evict(s)
      PROVE  Places'
    BY <1>5, PlacesEvict
<1>6. CASE FlushSwap
    <2>1. writing = {}
        BY <1>6 DEF FlushSwap, IInv, Typed
    <2>2. Recorded' = Recorded
        BY <1>6, <2>1 DEF FlushSwap, Recorded
    <2> QED BY <1>6, <2>2, PlacesSame DEF FlushSwap
<1>7. ASSUME NEW ok \in BOOLEAN, WriteEdges(ok)
      PROVE  Places'
    <2>1. Recorded' = Recorded
        BY <1>7 DEF WriteEdges, Recorded
    <2> QED BY <1>7, <2>1, PlacesSame DEF WriteEdges
<1>8. CASE UNCHANGED vars
    BY <1>8, PlacesSame DEF vars, Recorded
<1> QED BY <1>1, <1>2, <1>3, <1>4, <1>5, <1>6, <1>7, <1>8 DEF Next, Loop

-----------------------------------------------------------------------------
(* The invariant is inductive, and implies what the runs check. *)

(* IInv holds initially and is preserved by every step of workers, timers, *)
(* flushes and stops: for any numbers of them.                             *)
THEOREM Invariance == Spec => []IInv
<1>1. Init => IInv
    BY InitInv
<1>2. IInv /\ [Next]_vars => IInv'
    BY TablesStep, TypedStep, PlacesStep DEF IInv, Places
<1> QED BY <1>1, <1>2, PTL DEF Spec

(* Every variable of the builder keeps its type. *)
THEOREM TypeCorrect == Spec => []TypeOK
<1>1. IInv => TypeOK
    BY DEF IInv, Typed
<1> QED BY <1>1, Invariance, PTL

(* take leaves no second record of a key behind (graph.go, shard.take). *)
THEOREM KeyHeldOnceAlways == Spec => []KeyHeldOnce
<1>1. IInv => KeyHeldOnce
    BY DEF IInv, TablesInv
<1> QED BY <1>1, Invariance, PTL

(* The memory ceiling of the pairing table, for every limit. *)
THEOREM MemoryBound == Spec => []GenerationBound
<1>1. IInv => GenerationBound
    BY DEF IInv, TablesInv, GenTyped, GenerationBound
<1> QED BY <1>1, Invariance, PTL

LEMMA WaitingFacts ==
    ASSUME IInv, NEW s, s # None
    PROVE  /\ s \in Waiting <=>
                \/ InTable(s) \/ s \in dropped
                \/ \E w \in Workers : emit[w] # None /\ s \in Ends(emit[w])
           /\ s \in CountedSpans <=> \E e \in Recorded : s \in Ends(e)
BY DEF Waiting, Tabled, InFlight, InTable, CountedSpans

(* No span is counted by two edges, or can be counted a second time. *)
THEOREM CountedOnceAlways == Spec => []CountedOnce
<1>1. IInv => CountedOnce
    <2> SUFFICES ASSUME IInv PROVE CountedOnce
        OBVIOUS
    <2>1. \A e, f \in Recorded : e # f => Ends(e) \cap Ends(f) = {}
        BY DEF IInv, RecordedInv
    <2>2. ASSUME NEW s, s \in CountedSpans, s \in Waiting
          PROVE  FALSE
        <3>1. PICK e \in Recorded : s \in Ends(e)
            BY <2>2 DEF CountedSpans
        <3>2. s # None
            BY <3>1 DEF Ends
        <3> QED BY <2>2, <3>1, <3>2, WaitingFacts DEF IInv, RecordedInv, Out
    <2> QED BY <2>1, <2>2 DEF CountedOnce
<1> QED BY <1>1, Invariance, PTL

(* A nameable client or an entry point that was observed is not lost. *)
THEOREM EdgeNotLostAlways == Spec => []EdgeNotLost
<1>1. IInv => EdgeNotLost
    <2> SUFFICES ASSUME IInv, NEW s \in seen \cap Kept
                 PROVE  s \in Waiting \cup CountedSpans \/ Replaced(s)
        BY DEF EdgeNotLost, Kept
    <2>1. s # None
        BY SpanKinds, ConstantsAssumption DEF Kept
    <2>2. Accounted(s) \/ Replaced(s)
        BY DEF IInv, NotLost
    <2> QED BY <2>1, <2>2, WaitingFacts DEF Accounted
<1> QED BY <1>1, Invariance, PTL

(* A record of the current generation survives at least one rotation. *)
THEOREM SurvivesOneRotationAlways == Spec => SurvivesOneRotation
<1>1. IInv /\ [Next]_vars =>
        [seen' = seen => \A k \in Keys : cur[k] # None => cur[k] \in {cur'[k], prev'[k]}]_vars
    <2> SUFFICES ASSUME IInv, Next, seen' = seen, NEW k \in Keys, cur[k] # None
                 PROVE  cur[k] \in {cur'[k], prev'[k]}
        OBVIOUS
    <2>1. ASSUME NEW w \in Workers, NEW s \in Spans, observe(w, s)
          PROVE  FALSE
        BY <2>1 DEF observe, observeInternal, Match, Hold, Overflow, EnterHere, NextSpan
    <2>2. CASE RotateShard
        BY <2>2 DEF RotateShard, PrevRotated
    <2>3. CASE UNCHANGED <<cur, prev>>
        BY <2>3
    <2>4. UNCHANGED <<cur, prev>> \/ RotateShard
        BY <2>1 DEF Next, Loop, Emit, RotateTick, LastRotate, BeginRotate, FlushTick, Evict,
                    RotateDone, FlushSwap, WriteEdges, Stop, Cancel
    <2> QED BY <2>2, <2>3, <2>4
<1> QED BY <1>1, Invariance, PTL DEF Spec, SurvivesOneRotation

-----------------------------------------------------------------------------
(***************************************************************************)
(* The counters, and the aggregates.  An edge about to be recorded has not *)
(* been recorded before, so the sums behind both grow by exactly one call. *)
(***************************************************************************)
LEMMA EdgeEnds ==
    \A e \in Edges : /\ Ends(e) # {}
                     /\ e.to = None => e.from # None
                     /\ EdgeDuration(e) \in Nat
<1> SUFFICES ASSUME NEW e \in Edges
             PROVE  Ends(e) # {} /\ (e.to = None => e.from # None) /\ EdgeDuration(e) \in Nat
    OBVIOUS
<1>1. \A s \in Spans : s # None
    BY ConstantsAssumption
<1>2. (e.to = None => e.from # None) /\ Ends(e) # {}
    BY <1>1, SpanKinds DEF Edges, Ends
<1>3. EdgeDuration(e) \in Nat
    BY ConstantsAssumption DEF EdgeDuration, Edges, Clients, Servers, Entries, IsSpan
<1> QED BY <1>2, <1>3

(* The edge a worker has yet to record, or one made of a record that the   *)
(* rotation has discarded, is not among the recorded ones.                 *)
LEMMA FreshEdge ==
    ASSUME IInv
    PROVE  /\ \A w \in Workers : emit[w] # None => emit[w] \in Edges \ Recorded
           /\ \A s \in dropped \cap Clients \cap Named : Inferred(s) \in Edges \ Recorded
<1>1. ASSUME NEW w \in Workers, emit[w] # None
      PROVE  emit[w] \in Edges \ Recorded
    <2>1. emit[w] \in Edges
        BY <1>1 DEF IInv, Typed, TypeOK
    <2> QED BY <1>1, <2>1, EdgeEnds DEF IInv, RecordedInv
<1>2. ASSUME NEW s \in dropped \cap Clients \cap Named
      PROVE  Inferred(s) \in Edges \ Recorded
    <2>1. Inferred(s) \in Edges
        BY DEF Inferred, Edges
    <2>2. Ends(Inferred(s)) = {s}
        BY EdgeFacts
    <2> QED BY <2>1, <2>2 DEF IInv, RecordedInv, Out
<1> QED BY <1>1, <1>2

StatsInv == IsFiniteSet(Recorded) /\ StatsMatchEdges

(* Recording one new edge and counting it. *)
LEMMA StatsRecord ==
    ASSUME IInv, StatsInv, NEW e \in Edges \ Recorded, Recorded' = Recorded \cup {e},
           stats'.paired = Counted(e, stats).paired,
           stats'.inferredPeers = Counted(e, stats).inferredPeers,
           stats'.entryPoints = Counted(e, stats).entryPoints
    PROVE  StatsInv'
<1> DEFINE P(R) == {f \in R : f.from # None /\ f.to # None}
           I(R) == {f \in R : f.to = None}
           N(R) == {f \in R : f.from = None}
<1>1. IsFiniteSet(Recorded) /\ IsFiniteSet(Recorded')
    BY FS_AddElement DEF StatsInv
<1>2. /\ IsFiniteSet(P(Recorded)) /\ IsFiniteSet(I(Recorded)) /\ IsFiniteSet(N(Recorded))
    BY <1>1, FS_Subset
<1>3. /\ stats.paired = Cardinality(P(Recorded))
      /\ stats.inferredPeers = Cardinality(I(Recorded))
      /\ stats.entryPoints = Cardinality(N(Recorded))
    BY DEF StatsInv, StatsMatchEdges
<1>4. stats \in [paired : Nat, inferredPeers : Nat, entryPoints : Nat,
                 evicted : Nat, edgesWritten : Nat, pendingDropped : Nat]
    BY DEF IInv, Typed, TypeOK
<1>5. e \notin P(Recorded) /\ e \notin I(Recorded) /\ e \notin N(Recorded)
    OBVIOUS
<1>6. CASE e.to = None
    <2>1. /\ P(Recorded') = P(Recorded) /\ N(Recorded') = N(Recorded)
          /\ I(Recorded') = I(Recorded) \cup {e}
        BY <1>6, EdgeEnds
    <2>2. Cardinality(I(Recorded')) = Cardinality(I(Recorded)) + 1
        BY <1>2, <1>5, <2>1, FS_AddElement
    <2>3. /\ stats'.paired = stats.paired /\ stats'.entryPoints = stats.entryPoints
          /\ stats'.inferredPeers = stats.inferredPeers + 1
        BY <1>4, <1>6 DEF Counted
    <2> QED BY <1>1, <1>3, <2>1, <2>2, <2>3 DEF StatsInv, StatsMatchEdges
<1>7. CASE e.to # None /\ e.from = None
    <2>1. /\ P(Recorded') = P(Recorded) /\ I(Recorded') = I(Recorded)
          /\ N(Recorded') = N(Recorded) \cup {e}
        BY <1>7
    <2>2. Cardinality(N(Recorded')) = Cardinality(N(Recorded)) + 1
        BY <1>2, <1>5, <2>1, FS_AddElement
    <2>3. /\ stats'.paired = stats.paired /\ stats'.inferredPeers = stats.inferredPeers
          /\ stats'.entryPoints = stats.entryPoints + 1
        BY <1>4, <1>7 DEF Counted
    <2> QED BY <1>1, <1>3, <2>1, <2>2, <2>3 DEF StatsInv, StatsMatchEdges
<1>8. CASE e.to # None /\ e.from # None
    <2>1. /\ N(Recorded') = N(Recorded) /\ I(Recorded') = I(Recorded)
          /\ P(Recorded') = P(Recorded) \cup {e}
        BY <1>8
    <2>2. Cardinality(P(Recorded')) = Cardinality(P(Recorded)) + 1
        BY <1>2, <1>5, <2>1, FS_AddElement
    <2>3. /\ stats'.entryPoints = stats.entryPoints /\ stats'.inferredPeers = stats.inferredPeers
          /\ stats'.paired = stats.paired + 1
        BY <1>4, <1>8 DEF Counted
    <2> QED BY <1>1, <1>3, <2>1, <2>2, <2>3 DEF StatsInv, StatsMatchEdges
<1> QED BY <1>6, <1>7, <1>8

LEMMA StatsSame ==
    ASSUME StatsInv, Recorded' = Recorded, stats'.paired = stats.paired,
           stats'.inferredPeers = stats.inferredPeers, stats'.entryPoints = stats.entryPoints
    PROVE  StatsInv'
BY DEF StatsInv, StatsMatchEdges

LEMMA StatsStep ==
    ASSUME IInv, StatsInv, [Next]_vars
    PROVE  StatsInv'
<1>0. stats \in [paired : Nat, inferredPeers : Nat, entryPoints : Nat,
                 evicted : Nat, edgesWritten : Nat, pendingDropped : Nat]
    BY DEF IInv, Typed, TypeOK
<1>1. ASSUME NEW w \in Workers, NEW s \in Spans, observe(w, s)
      PROVE  StatsInv'
    <2>1. Recorded' = Recorded
        BY <1>1 DEF observe, observeInternal, Match, Hold, Overflow, EnterHere, NextSpan, Recorded
    <2>2. stats' = stats \/ stats' = [stats EXCEPT !.pendingDropped = @ + 1]
        BY <1>1 DEF observe, observeInternal, Match, Hold, Overflow, EnterHere
    <2>3. /\ stats'.paired = stats.paired /\ stats'.inferredPeers = stats.inferredPeers
          /\ stats'.entryPoints = stats.entryPoints
        BY <1>0, <2>2
    <2> QED BY <2>1, <2>3, StatsSame
<1>2. ASSUME NEW w \in Workers, Emit(w)
      PROVE  StatsInv'
    <2>1. PICK e : e = emit[w]
        OBVIOUS
    <2>2. e \in Edges \ Recorded
        BY <1>2, <2>1, FreshEdge DEF Emit
    <2>3. Recorded' = Recorded \cup {e} /\ stats' = Counted(e, stats)
        BY <1>2, <2>1 DEF Emit, record, Recorded
    <2> QED BY <2>2, <2>3, StatsRecord
<1>3. ASSUME NEW s \in Spans, Evict(s)
      PROVE  StatsInv'
    <2>1. CASE s \in Clients \cap Named
        <3>1. PICK e : e = Inferred(s)
            OBVIOUS
        <3>2. e \in Edges \ Recorded
            BY <1>3, <2>1, <3>1, FreshEdge DEF Evict
        <3>3. Recorded' = Recorded \cup {e} /\ stats' = [Counted(e, stats) EXCEPT !.evicted = @ + 1]
            BY <1>3, <2>1, <3>1 DEF Evict, EvictCounts, record, Recorded
        <3>4. Counted(e, stats) \in [paired : Nat, inferredPeers : Nat, entryPoints : Nat,
                                     evicted : Nat, edgesWritten : Nat, pendingDropped : Nat]
            BY CountedType DEF IInv
        <3>5. /\ stats'.paired = Counted(e, stats).paired
              /\ stats'.inferredPeers = Counted(e, stats).inferredPeers
              /\ stats'.entryPoints = Counted(e, stats).entryPoints
            BY <3>3, <3>4
        <3> QED BY <3>2, <3>3, <3>5, StatsRecord
    <2>2. CASE s \notin Clients \cap Named
        <3>1. Recorded' = Recorded /\ stats' = [stats EXCEPT !.evicted = @ + 1]
            BY <1>3, <2>2 DEF Evict, EvictCounts, Recorded
        <3>2. /\ stats'.paired = stats.paired /\ stats'.inferredPeers = stats.inferredPeers
              /\ stats'.entryPoints = stats.entryPoints
            BY <1>0, <3>1
        <3> QED BY <3>1, <3>2, StatsSame
    <2> QED BY <2>1, <2>2
<1>4. CASE RotateTick \/ LastRotate \/ FlushTick \/ RotateShard \/ RotateDone \/ Stop \/ Cancel
    <2>1. Recorded' = Recorded /\ stats' = stats
        BY <1>4 DEF RotateTick, LastRotate, BeginRotate, FlushTick, RotateShard, RotateDone,
                    Stop, Cancel, history, Recorded
    <2> QED BY <2>1, StatsSame
<1>5. CASE FlushSwap
    <2>1. writing = {}
        BY <1>5 DEF FlushSwap, IInv, Typed
    <2>2. Recorded' = Recorded /\ stats' = stats
        BY <1>5, <2>1 DEF FlushSwap, Recorded
    <2> QED BY <2>2, StatsSame
<1>6. ASSUME NEW ok \in BOOLEAN, WriteEdges(ok)
      PROVE  StatsInv'
    <2>1. Recorded' = Recorded
        BY <1>6 DEF WriteEdges, Recorded
    <2>2. PICK n : n = Cardinality(DOMAIN out)
        OBVIOUS
    <2>3. stats' = stats \/ stats' = [stats EXCEPT !.edgesWritten = @ + n]
        BY <1>6, <2>2 DEF WriteEdges
    <2>4. /\ stats'.paired = stats.paired /\ stats'.inferredPeers = stats.inferredPeers
          /\ stats'.entryPoints = stats.entryPoints
        BY <1>0, <2>3
    <2> QED BY <2>1, <2>4, StatsSame
<1>7. CASE UNCHANGED vars
    BY <1>7, StatsSame DEF vars, Recorded
<1> QED BY <1>1, <1>2, <1>3, <1>4, <1>5, <1>6, <1>7 DEF Next, Loop

(* The bucket of a latency: the first whose bound it does not exceed, or   *)
(* the one after the last bound.                                           *)
LEMMA BucketOf ==
    ASSUME NEW d \in Nat
    PROVE  /\ bucketIndex(d) \in 1 .. BucketCount
           /\ bucketIndex(d) < BucketCount => d <= LatencyBounds[bucketIndex(d)]
           /\ \A j \in 1 .. Len(LatencyBounds) : d <= LatencyBounds[j] => bucketIndex(d) <= j
<1> DEFINE n == Len(LatencyBounds)
           fits == {i \in 1 .. n : d <= LatencyBounds[i]}
<1>1. n \in Nat /\ BucketCount = n + 1
    BY ConstantsAssumption DEF BucketCount
<1>2. /\ fits = {} => bucketIndex(d) = n + 1
      /\ fits # {} => bucketIndex(d) \in fits /\ \A j \in fits : bucketIndex(d) <= j
    <2>1. CASE fits = {}
        BY <1>1, <2>1 DEF bucketIndex
    <2>2. CASE fits # {}
        <3>1. \E i \in fits : \A j \in fits : i <= j
            <4>1. fits \in SUBSET Int /\ IsFiniteSet(fits)
                <5>1. fits \in SUBSET (1 .. n) /\ IsFiniteSet(1 .. n) /\ 1 .. n \subseteq Int
                    BY <1>1, FS_Interval
                <5> HIDE DEF fits
                <5> QED BY <5>1, FS_Subset
            <4> HIDE DEF fits
            <4> QED BY <2>2, <4>1, Extremes
        <3>2. bucketIndex(d) = CHOOSE i \in fits : \A j \in fits : i <= j
            BY <2>2 DEF bucketIndex
        <3> HIDE DEF fits
        <3> QED BY <2>2, <3>1, <3>2
    <2> QED BY <2>1, <2>2
<1>3. CASE fits = {}
    BY <1>1, <1>2, <1>3
<1>4. CASE fits # {}
    BY <1>1, <1>2, <1>4
<1> QED BY <1>3, <1>4

(* The bucket of a call is the one whose bounds enclose its latency. *)
LEMMA BucketFacts ==
    ASSUME NEW e \in Edges
    PROVE  /\ bucketIndex(EdgeDuration(e)) \in 1 .. BucketCount
           /\ \A i \in 1 .. BucketCount : InBucketOf(e, i) <=> i = bucketIndex(EdgeDuration(e))
<1>1. PICK d, n, b : d = EdgeDuration(e) /\ n = Len(LatencyBounds) /\ b = bucketIndex(d)
    OBVIOUS
<1>2. d \in Nat /\ n \in Nat /\ BucketCount = n + 1 /\ LatencyBounds \in Seq(Nat)
    BY <1>1, EdgeEnds, ConstantsAssumption DEF BucketCount
<1>3. \A i \in 1 .. n : LatencyBounds[i] \in Nat
    BY <1>1, <1>2
<1>4. \A i, j \in 1 .. n : i <= j => LatencyBounds[i] <= LatencyBounds[j]
    <2>1. DOMAIN LatencyBounds = 1 .. n
        BY <1>1, <1>2
    <2>2. \A i, j \in 1 .. n : i < j => LatencyBounds[i] < LatencyBounds[j]
        BY <2>1, BoundsAssumption
    <2>3. \A i, j \in 1 .. n : i = j \/ i < j \/ i > j
        BY <1>2
    <2> QED BY <1>3, <2>2, <2>3
<1>5. /\ b \in 1 .. n + 1
      /\ b <= n => d <= LatencyBounds[b]
      /\ \A j \in 1 .. n : d <= LatencyBounds[j] => b <= j
    <2>1. /\ b \in 1 .. BucketCount
          /\ b < BucketCount => d <= LatencyBounds[b]
          /\ \A j \in 1 .. Len(LatencyBounds) : d <= LatencyBounds[j] => b <= j
        BY <1>1, <1>2, BucketOf
    <2> QED BY <1>1, <1>2, <2>1
<1>6. ASSUME NEW i \in 1 .. n + 1
      PROVE  InBucketOf(e, i) <=> i = b
    <2>1. InBucketOf(e, i) <=> /\ i <= n => d <= LatencyBounds[i]
                               /\ i > 1 => ~(d <= LatencyBounds[i - 1])
        <3>1. i > 1 => (d > LatencyBounds[i - 1] <=> ~(d <= LatencyBounds[i - 1]))
            <4>1. i > 1 => LatencyBounds[i - 1] \in Nat
                BY <1>2, <1>3
            <4> QED BY <1>2, <4>1
        <3> QED BY <1>1, <1>2, <3>1 DEF InBucketOf
    <2>2. CASE i = b
        <3>1. i > 1 => i - 1 \in 1 .. n /\ ~(b <= i - 1)
            BY <1>2, <2>2
        <3> QED BY <1>2, <1>5, <2>1, <2>2, <3>1
    <2>3. CASE i < b
        BY <1>2, <1>5, <2>1, <2>3
    <2>4. CASE i > b
        <3>1. b \in 1 .. n /\ i - 1 \in 1 .. n /\ b <= i - 1
            BY <1>2, <1>5, <2>4
        <3>2. d <= LatencyBounds[b] /\ LatencyBounds[b] <= LatencyBounds[i - 1]
            BY <1>4, <1>5, <3>1
        <3>3. d <= LatencyBounds[i - 1]
            BY <1>2, <1>3, <3>1, <3>2
        <3> QED BY <1>2, <1>5, <2>1, <2>4, <3>3
    <2> QED BY <1>2, <1>5, <2>2, <2>3, <2>4
<1> QED BY <1>2, <1>1, <1>5, <1>6

LEMMA DurationsFinite ==
    ASSUME NEW E \in SUBSET Edges, IsFiniteSet(E)
    PROVE  /\ {0} \cup {EdgeDuration(e) : e \in E} \in SUBSET Int
           /\ IsFiniteSet({0} \cup {EdgeDuration(e) : e \in E})
<1> DEFINE T == {EdgeDuration(e) : e \in E}
           f == [e \in E |-> EdgeDuration(e)]
<1>1. f \in Surjection(E, T)
    BY DEF Surjection
<1>2. IsFiniteSet(T)
    BY <1>1, FS_Surjection
<1>3. IsFiniteSet({0} \cup T)
    BY <1>2, FS_AddElement
<1>4. {0} \cup T \in SUBSET Int
    BY EdgeEnds
<1> QED BY <1>3, <1>4

(* Adding a call to a sample is what one edge more makes of it. *)
LEMMA SampleAdd ==
    ASSUME NEW E \in SUBSET Edges, IsFiniteSet(E), NEW e \in Edges \ E
    PROVE  SampleOf(E \cup {e}) = AddCall(SampleOf(E), e)
<1> DEFINE F == E \cup {e}
           d == EdgeDuration(e)
           x == SampleOf(E)
<1>1. d \in Nat
    BY EdgeEnds
<1>2. Cardinality(F) = x.calls + 1
    BY FS_AddElement DEF SampleOf
<1>3. Cardinality({f \in F : EdgeIsError(f)})
        = IF EdgeIsError(e) THEN x.errors + 1 ELSE x.errors
    <2>1. PICK S : S = {f \in E : EdgeIsError(f)}
        OBVIOUS
    <2>2. IsFiniteSet(S) /\ x.errors = Cardinality(S) /\ e \notin S
        BY <2>1, FS_Subset DEF SampleOf
    <2>3. {f \in F : EdgeIsError(f)} = IF EdgeIsError(e) THEN S \cup {e} ELSE S
        BY <2>1
    <2>4. Cardinality(S \cup {e}) = Cardinality(S) + 1
        BY <2>2, FS_AddElement
    <2> QED BY <2>2, <2>3, <2>4
<1>4. SumOver(Durations, F) = x.sum + d
    <2>1. \A f \in E \cup {e} : Durations[f] \in Nat
        BY EdgeEnds DEF Durations
    <2>2. SumOver(Durations, F) = Durations[e] + SumOver(Durations, E)
        BY <2>1, SumAdd
    <2>3. SumOver(Durations, E) \in Nat /\ x.sum = SumOver(Durations, E)
        BY <2>1, SumType DEF SampleOf
    <2>4. Durations[e] = d
        BY DEF Durations
    <2> QED BY <1>1, <2>2, <2>3, <2>4
<1>5. Max({0} \cup {EdgeDuration(f) : f \in F}) = IF d > x.max THEN d ELSE x.max
    <2>1. PICK S : S = {0} \cup {EdgeDuration(f) : f \in E}
        OBVIOUS
    <2>2. S \in SUBSET Int /\ IsFiniteSet(S) /\ S # {} /\ x.max = Max(S)
        BY <2>1, DurationsFinite DEF SampleOf
    <2>3. {0} \cup {EdgeDuration(f) : f \in F} = S \cup {d}
        BY <2>1
    <2>4. d \in Int
        BY <1>1
    <2> HIDE DEF d, x
    <2>5. Max(S \cup {d}) = IF d > Max(S) THEN d ELSE Max(S)
        BY <2>2, <2>4, MaxAdd
    <2> QED BY <2>2, <2>3, <2>5
<1>6. [i \in 1 .. BucketCount |-> Cardinality({f \in F : InBucketOf(f, i)})]
        = [x.buckets EXCEPT ![bucketIndex(d)] = @ + 1]
    <2>1. PICK b \in 1 .. BucketCount : b = bucketIndex(d)
        BY BucketFacts
    <2>2. x.buckets = [i \in 1 .. BucketCount |-> Cardinality({f \in E : InBucketOf(f, i)})]
        BY DEF SampleOf
    <2>3. ASSUME NEW i \in 1 .. BucketCount
          PROVE  Cardinality({f \in F : InBucketOf(f, i)})
                   = IF i = b THEN x.buckets[i] + 1 ELSE x.buckets[i]
        <3>1. PICK S : S = {f \in E : InBucketOf(f, i)}
            OBVIOUS
        <3>2. IsFiniteSet(S) /\ x.buckets[i] = Cardinality(S) /\ e \notin S
            BY <2>2, <3>1, FS_Subset
        <3>3. {f \in F : InBucketOf(f, i)} = IF i = b THEN S \cup {e} ELSE S
            BY <2>1, <3>1, BucketFacts
        <3>4. Cardinality(S \cup {e}) = Cardinality(S) + 1
            BY <3>2, FS_AddElement
        <3> QED BY <3>2, <3>3, <3>4
    <2>4. [x.buckets EXCEPT ![b] = @ + 1]
            = [i \in 1 .. BucketCount |-> IF i = b THEN x.buckets[i] + 1 ELSE x.buckets[i]]
        BY <2>2
    <2> QED BY <2>1, <2>3, <2>4
<1>7. SampleOf(F) = [calls |-> Cardinality(F),
                     errors |-> Cardinality({f \in F : EdgeIsError(f)}),
                     sum |-> SumOver(Durations, F),
                     max |-> Max({0} \cup {EdgeDuration(f) : f \in F}),
                     buckets |-> [i \in 1 .. BucketCount |->
                                    Cardinality({f \in F : InBucketOf(f, i)})]]
    BY DEF SampleOf
<1>8. AddCall(x, e) = [calls |-> x.calls + 1,
                       errors |-> IF EdgeIsError(e) THEN x.errors + 1 ELSE x.errors,
                       sum |-> x.sum + d,
                       max |-> IF d > x.max THEN d ELSE x.max,
                       buckets |-> [x.buckets EXCEPT ![bucketIndex(d)] = @ + 1]]
    BY DEF AddCall
<1> HIDE DEF F, d, x
<1>9. SampleOf(F) = AddCall(x, e)
    BY <1>2, <1>3, <1>4, <1>5, <1>6, <1>7, <1>8
<1> QED BY <1>9 DEF F, x

(* The sample record creates is the sample of no edge. *)
LEMMA SampleNone == SampleOf({}) = NewSample
<1>1. Cardinality({}) = 0 /\ SumOver(Durations, {}) = 0
    BY FS_EmptySet, SumEmpty
<1>2. Max({0} \cup {EdgeDuration(e) : e \in {}}) = 0
    <2>1. {0} \cup {EdgeDuration(e) : e \in {}} = {0}
        OBVIOUS
    <2>2. {0} \in SUBSET Int /\ IsFiniteSet({0})
        BY FS_Singleton
    <2>3. Max({0}) \in {0}
        BY <2>2, MaxAdd
    <2> QED BY <2>1, <2>3
<1>3. {e \in {} : EdgeIsError(e)} = {} /\ \A i : {e \in {} : InBucketOf(e, i)} = {}
    OBVIOUS
<1> QED BY <1>1, <1>2, <1>3 DEF SampleOf, NewSample

(* The edges behind one aggregate. *)
With(E, k) == {e \in E : EdgeKey(e) = k}

LEMMA AggregatesWith ==
    ASSUME NEW a, NEW E
    PROVE  Aggregates(a, E) <=> /\ DOMAIN a = {EdgeKey(e) : e \in E}
                                /\ \A k \in DOMAIN a : a[k] = SampleOf(With(E, k))
BY DEF Aggregates, With

LEMMA AggregatesNone == Aggregates([k \in {} |-> NewSample], {})
BY DEF Aggregates

(* record brings the aggregate of the edge's key up to date, and leaves    *)
(* the others as they are.                                                 *)
LEMMA AggRecord ==
    ASSUME Aggregates(agg, aggregated), aggregated \in SUBSET Edges, IsFiniteSet(aggregated),
           NEW e \in Edges \ aggregated, record(e)
    PROVE  Aggregates(agg', aggregated')
<1>1. PICK k : k = EdgeKey(e)
    OBVIOUS
<1>2. PICK x : x = AddCall(IF k \in DOMAIN agg THEN agg[k] ELSE NewSample, e)
    OBVIOUS
<1>3. /\ agg' = [j \in DOMAIN agg \cup {k} |-> IF j # k THEN agg[j] ELSE x]
      /\ aggregated' = aggregated \cup {e}
    BY <1>1, <1>2 DEF record
<1>4. /\ DOMAIN agg = {EdgeKey(f) : f \in aggregated}
      /\ \A j \in DOMAIN agg : agg[j] = SampleOf(With(aggregated, j))
    BY AggregatesWith
<1>5. DOMAIN agg' = {EdgeKey(f) : f \in aggregated'}
    BY <1>1, <1>3, <1>4
<1>6. \A j \in DOMAIN agg' : j # k => agg'[j] = SampleOf(With(aggregated', j))
    <2>1. \A j : j # k => With(aggregated', j) = With(aggregated, j)
        BY <1>1, <1>3 DEF With
    <2> QED BY <1>3, <1>4, <2>1
<1>7. agg'[k] = SampleOf(With(aggregated', k))
    <2>1. PICK F : F = With(aggregated, k)
        OBVIOUS
    <2>2. F \in SUBSET Edges /\ IsFiniteSet(F) /\ e \in Edges \ F
        BY <2>1, FS_Subset DEF With
    <2>3. With(aggregated', k) = F \cup {e}
        BY <1>1, <1>3, <2>1 DEF With
    <2>4. SampleOf(F \cup {e}) = AddCall(SampleOf(F), e)
        BY <2>2, SampleAdd
    <2>5. (IF k \in DOMAIN agg THEN agg[k] ELSE NewSample) = SampleOf(F)
        <3>1. CASE k \in DOMAIN agg
            BY <1>4, <2>1, <3>1
        <3>2. CASE k \notin DOMAIN agg
            <4>1. F = {}
                BY <1>4, <2>1, <3>2 DEF With
            <4> QED BY <3>2, <4>1, SampleNone
        <3> QED BY <3>1, <3>2
    <2>6. agg'[k] = x
        BY <1>3
    <2>7. x = AddCall(SampleOf(F), e)
        BY <1>2, <2>5, Zenon
    <2>8. agg'[k] = SampleOf(F \cup {e})
        BY <2>4, <2>6, <2>7
    <2> QED BY <2>3, <2>8
<1> QED BY <1>5, <1>6, <1>7, AggregatesWith

LEMMA AggregatesStep ==
    ASSUME IInv, StatsInv, AggregatesExact, [Next]_vars
    PROVE  AggregatesExact'
<1> USE DEF AggregatesExact
<1>0. /\ aggregated \in SUBSET Edges /\ IsFiniteSet(aggregated)
      /\ aggregated \subseteq Recorded
    <2>1. aggregated \in SUBSET Recorded
        BY DEF Recorded
    <2> QED BY <2>1, FS_Subset DEF StatsInv, IInv, Typed, TypeOK
<1>1. ASSUME NEW w \in Workers, NEW s \in Spans, observe(w, s)
      PROVE  AggregatesExact'
    <2>1. UNCHANGED <<agg, aggregated, out, writing>>
        BY <1>1 DEF observe, observeInternal, Match, Hold, Overflow, EnterHere, NextSpan
    <2> QED BY <2>1
<1>2. ASSUME NEW w \in Workers, Emit(w)
      PROVE  AggregatesExact'
    <2>1. PICK e : e = emit[w]
        OBVIOUS
    <2>2. e \in Edges \ aggregated
        BY <1>0, <1>2, <2>1, FreshEdge DEF Emit
    <2>3. record(e) /\ UNCHANGED <<out, writing>>
        BY <1>2, <2>1 DEF Emit
    <2>4. Aggregates(agg', aggregated')
        BY <1>0, <2>2, <2>3, AggRecord
    <2> QED BY <2>3, <2>4
<1>3. ASSUME NEW s \in Spans, Evict(s)
      PROVE  AggregatesExact'
    <2>1. CASE s \in Clients \cap Named
        <3>1. PICK e : e = Inferred(s)
            OBVIOUS
        <3>2. e \in Edges \ aggregated
            BY <1>0, <1>3, <2>1, <3>1, FreshEdge DEF Evict
        <3>3. record(e) /\ UNCHANGED <<out, writing>>
            BY <1>3, <2>1, <3>1 DEF Evict
        <3>4. Aggregates(agg', aggregated')
            BY <1>0, <3>2, <3>3, AggRecord
        <3> QED BY <3>3, <3>4
    <2>2. CASE s \notin Clients \cap Named
        BY <1>3, <2>2 DEF Evict
    <2> QED BY <2>1, <2>2
<1>4. CASE RotateTick \/ LastRotate \/ FlushTick \/ RotateShard \/ RotateDone \/ Stop \/ Cancel
    <2>1. UNCHANGED <<agg, aggregated, out, writing>>
        BY <1>4 DEF RotateTick, LastRotate, BeginRotate, FlushTick, RotateShard, RotateDone,
                    Stop, Cancel, history
    <2> QED BY <2>1
<1>5. CASE FlushSwap
    BY <1>5, AggregatesNone DEF FlushSwap, AggSwapped
<1>6. ASSUME NEW ok \in BOOLEAN, WriteEdges(ok)
      PROVE  AggregatesExact'
    <2>1. /\ UNCHANGED <<agg, aggregated>>
          /\ out' = [k \in {} |-> NewSample] /\ writing' = {}
        BY <1>6 DEF WriteEdges
    <2> QED BY <2>1, AggregatesNone
<1>7. CASE UNCHANGED vars
    BY <1>7 DEF vars
<1> QED BY <1>1, <1>2, <1>3, <1>4, <1>5, <1>6, <1>7 DEF Next, Loop

LEMMA SumsInit == Init => StatsInv /\ AggregatesExact
<1> SUFFICES ASSUME Init PROVE StatsInv /\ AggregatesExact
    OBVIOUS
<1>1. Recorded = {}
    BY DEF Init, Recorded
<1>2. StatsInv
    <2>1. IsFiniteSet({}) /\ Cardinality({}) = 0
        BY FS_EmptySet
    <2>2. /\ {e \in {} : e.from # None /\ e.to # None} = {}
          /\ {e \in {} : e.to = None} = {} /\ {e \in {} : e.from = None} = {}
        OBVIOUS
    <2> QED BY <1>1, <2>1, <2>2 DEF Init, StatsInv, StatsMatchEdges
<1> QED BY <1>2, AggregatesNone DEF Init, AggregatesExact

THEOREM SumsInvariance == Spec => [](StatsInv /\ AggregatesExact)
<1>1. Init => StatsInv /\ AggregatesExact
    BY SumsInit
<1>2. IInv /\ (StatsInv /\ AggregatesExact) /\ [Next]_vars => (StatsInv /\ AggregatesExact)'
    BY StatsStep, AggregatesStep
<1> QED BY <1>1, <1>2, Invariance, PTL DEF Spec

(* The counters of Stats agree with the edges recorded: a pair, an         *)
(* inferred peer and an entry point are each counted once.                 *)
THEOREM StatsMatchEdgesAlways == Spec => []StatsMatchEdges
<1>1. StatsInv /\ AggregatesExact => StatsMatchEdges
    BY DEF StatsInv
<1> QED BY <1>1, SumsInvariance, PTL

(* Calls, errors, latency sum, maximum and histogram of every aggregate,   *)
(* in memory or on its way to the sink, are those of its edges.            *)
THEOREM AggregatesExactAlways == Spec => []AggregatesExact
<1>1. StatsInv /\ AggregatesExact => AggregatesExact
    OBVIOUS
<1> QED BY <1>1, SumsInvariance, PTL

-----------------------------------------------------------------------------
(***************************************************************************)
(* The graph the API draws.  Aggregates are exact, so a group of them      *)
(* counts what it groups; the buckets of a group are then a histogram of   *)
(* the calls behind it, which is all the quantiles are computed from.      *)
(***************************************************************************)
(* The members of C with a key, and with one of a set of keys. *)
Keyed(C, key, r)   == {e \in C : key[e] = r}
KeyedIn(C, key, R) == {e \in C : key[e] \in R}

(* Calls counted group by group are the calls of all the groups. *)
LEMMA CountGroups ==
    ASSUME NEW C, IsFiniteSet(C), NEW key, NEW R, IsFiniteSet(R), NEW f,
           \A r \in R : f[r] = Cardinality(Keyed(C, key, r))
    PROVE  SumOver(f, R) = Cardinality(KeyedIn(C, key, R))
<1>1. PICK F, one : F = [r \in R |-> Keyed(C, key, r)] /\ one = [e \in C |-> 1]
    OBVIOUS
<1>2. \A r \in R : F[r] = {e \in C : key[e] = r} /\ F[r] = Keyed(C, key, r) /\ F[r] \in SUBSET C
    BY <1>1 DEF Keyed
<1>3. \A S \in SUBSET C : IsFiniteSet(S) /\ SumOver(one, S) = Cardinality(S)
    <2> SUFFICES ASSUME NEW S \in SUBSET C PROVE IsFiniteSet(S) /\ SumOver(one, S) = Cardinality(S)
        OBVIOUS
    <2>1. IsFiniteSet(S)
        BY FS_Subset
    <2>2. \A x \in S : one[x] = 1
        BY <1>1
    <2> QED BY <2>1, <2>2, SumCard
<1>4. \A r \in R : IsFiniteSet(F[r]) /\ f[r] = SumOver(one, F[r])
    BY <1>2, <1>3
<1>5. \A r, q \in R : r # q => F[r] \cap F[q] = {}
    BY <1>2
<1>6. \A r \in R : \A x \in F[r] : one[x] \in Nat
    BY <1>1, <1>2
<1>7. SumOver(one, UNION {F[r] : r \in R}) = SumOver(f, R)
    BY <1>4, <1>5, <1>6, SumFamily
<1>8. UNION {F[r] : r \in R} = KeyedIn(C, key, R) /\ KeyedIn(C, key, R) \in SUBSET C
    BY <1>2 DEF KeyedIn
<1> QED BY <1>3, <1>7, <1>8

(* A longer latency is in no earlier bucket. *)
LEMMA BucketsOrdered ==
    ASSUME NEW d \in Nat, NEW c \in Nat, d <= c
    PROVE  bucketIndex(d) <= bucketIndex(c)
<1>1. PICK a, b, n : a = bucketIndex(d) /\ b = bucketIndex(c) /\ n = Len(LatencyBounds)
    OBVIOUS
<1>2. n \in Nat /\ BucketCount = n + 1 /\ \A i \in 1 .. n : LatencyBounds[i] \in Nat
    BY <1>1, ConstantsAssumption DEF BucketCount
<1>3. /\ a \in 1 .. n + 1 /\ \A j \in 1 .. n : d <= LatencyBounds[j] => a <= j
      /\ b \in 1 .. n + 1 /\ (b < n + 1 => c <= LatencyBounds[b])
    BY <1>1, <1>2, BucketOf
<1>4. CASE b = n + 1
    BY <1>1, <1>2, <1>3, <1>4
<1>5. CASE b < n + 1
    <2>1. b \in 1 .. n /\ d <= LatencyBounds[b]
        BY <1>2, <1>3, <1>5
    <2> QED BY <1>1, <1>3, <2>1
<1> QED BY <1>2, <1>3, <1>4, <1>5

(* The counts of a reference sample. *)
LEMMA SampleFields ==
    ASSUME NEW E
    PROVE  /\ SampleOf(E).calls = Cardinality(E)
           /\ SampleOf(E).errors = Cardinality({e \in E : EdgeIsError(e)})
           /\ \A i \in 1 .. BucketCount : SampleOf(E).buckets[i] = Cardinality({e \in E : InBucketOf(e, i)})
<1>1. SampleOf(E).calls = Cardinality(E)
    BY DEF SampleOf
<1>2. SampleOf(E).errors = Cardinality({e \in E : EdgeIsError(e)})
    BY DEF SampleOf
<1>3. \A i \in 1 .. BucketCount : SampleOf(E).buckets[i] = Cardinality({e \in E : InBucketOf(e, i)})
    <2>1. SampleOf(E).buckets = [i \in 1 .. BucketCount |-> Cardinality({e \in E : InBucketOf(e, i)})]
        BY DEF SampleOf
    <2> QED BY <2>1
<1> QED BY <1>1, <1>2, <1>3

(* What the sums of a group count. *)
LEMMA AddedCounts ==
    ASSUME Aggregates(out, writing), IsFiniteSet(writing), writing \in SUBSET Edges,
           NEW K \in SUBSET DOMAIN out, NEW E, E = {e \in writing : EdgeKey(e) \in K}
    PROVE  /\ IsFiniteSet(K)
           /\ Added(out, K).calls = Cardinality(E)
           /\ Added(out, K).errors = Cardinality({e \in E : EdgeIsError(e)})
           /\ \A i \in 1 .. BucketCount :
                Added(out, K).buckets[i] = Cardinality({e \in E : bucketIndex(EdgeDuration(e)) = i})
<1>1. PICK key : key = [e \in writing |-> EdgeKey(e)]
    OBVIOUS
<1>2. /\ DOMAIN out = {key[e] : e \in writing}
      /\ \A k \in DOMAIN out : out[k] = SampleOf(With(writing, k))
    BY <1>1, AggregatesWith
<1>3. IsFiniteSet(K)
    <2>1. IsFiniteSet({key[e] : e \in writing})
        BY ImageFinite
    <2> QED BY <1>2, <2>1, FS_Subset
<1>4. ASSUME NEW C \in SUBSET writing, NEW f, \A k \in K : f[k] = Cardinality({e \in C : EdgeKey(e) = k})
      PROVE  SumOver(f, K) = Cardinality({e \in C : EdgeKey(e) \in K})
    <2>1. IsFiniteSet(C)
        BY FS_Subset
    <2>2. \A k : Keyed(C, key, k) = {e \in C : EdgeKey(e) = k}
        BY <1>1 DEF Keyed
    <2>3. KeyedIn(C, key, K) = {e \in C : EdgeKey(e) \in K}
        BY <1>1 DEF KeyedIn
    <2>4. \A k \in K : f[k] = Cardinality(Keyed(C, key, k))
        BY <1>4, <2>2
    <2>5. SumOver(f, K) = Cardinality(KeyedIn(C, key, K))
        BY <1>3, <2>1, <2>4, CountGroups
    <2> QED BY <2>3, <2>5
<1>5. Added(out, K).calls = Cardinality(E)
    <2>1. PICK f : f = [k \in K |-> out[k]["calls"]]
        OBVIOUS
    <2>2. \A k \in K : f[k] = Cardinality({e \in writing : EdgeKey(e) = k})
        <3>1. \A k \in K : out[k].calls = Cardinality(With(writing, k))
            BY <1>2, SampleFields
        <3> QED BY <2>1, <3>1 DEF With
    <2>3. SumOver(f, K) = Cardinality(E)
        BY <1>4, <2>2
    <2> QED BY <2>1, <2>3 DEF Added, Column
<1>6. Added(out, K).errors = Cardinality({e \in E : EdgeIsError(e)})
    <2>1. PICK f, C : f = [k \in K |-> out[k]["errors"]] /\ C = {e \in writing : EdgeIsError(e)}
        OBVIOUS
    <2>2. \A k : {e \in With(writing, k) : EdgeIsError(e)} = {e \in C : EdgeKey(e) = k}
        BY <2>1 DEF With
    <2>3. \A k \in K : f[k] = Cardinality({e \in C : EdgeKey(e) = k})
        <3>1. \A k \in K : out[k].errors = Cardinality({e \in With(writing, k) : EdgeIsError(e)})
            BY <1>2, SampleFields
        <3> QED BY <2>1, <2>2, <3>1
    <2>4. {e \in C : EdgeKey(e) \in K} = {e \in E : EdgeIsError(e)} /\ C \in SUBSET writing
        BY <2>1
    <2>5. SumOver(f, K) = Cardinality({e \in C : EdgeKey(e) \in K})
        BY <1>4, <2>3, <2>4
    <2> QED BY <2>1, <2>4, <2>5 DEF Added, Column
<1>7. ASSUME NEW i \in 1 .. BucketCount
      PROVE  Added(out, K).buckets[i] = Cardinality({e \in E : bucketIndex(EdgeDuration(e)) = i})
    <2>1. PICK f, C : f = [k \in K |-> out[k].buckets[i]] /\ C = {e \in writing : InBucketOf(e, i)}
        OBVIOUS
    <2>2. \A k : {e \in With(writing, k) : InBucketOf(e, i)} = {e \in C : EdgeKey(e) = k}
        BY <2>1 DEF With
    <2>3. \A k \in K : f[k] = Cardinality({e \in C : EdgeKey(e) = k})
        <3> SUFFICES ASSUME NEW k \in K PROVE f[k] = Cardinality({e \in C : EdgeKey(e) = k})
            OBVIOUS
        <3>1. out[k].buckets[i] = Cardinality({e \in With(writing, k) : InBucketOf(e, i)})
            <4>1. PICK S : S = With(writing, k)
                OBVIOUS
            <4>2. SampleOf(S).buckets[i] = Cardinality({e \in S : InBucketOf(e, i)})
                BY SampleFields
            <4>3. out[k] = SampleOf(S)
                BY <1>2, <4>1
            <4> QED BY <4>1, <4>2, <4>3
        <3> QED BY <2>1, <2>2, <3>1
    <2>4. {e \in C : EdgeKey(e) \in K} = {e \in E : bucketIndex(EdgeDuration(e)) = i} /\ C \in SUBSET writing
        <3>1. \A e \in writing : InBucketOf(e, i) <=> i = bucketIndex(EdgeDuration(e))
            BY BucketFacts
        <3> QED BY <2>1, <3>1
    <2>5. SumOver(f, K) = Cardinality({e \in C : EdgeKey(e) \in K})
        BY <1>4, <2>3, <2>4
    <2>6. Added(out, K).buckets[i] = SumOver(f, K)
        BY <2>1 DEF Added
    <2> QED BY <2>4, <2>5, <2>6
<1> QED BY <1>3, <1>5, <1>6, <1>7

(* A group of the graph, its edges and the calls behind them. *)
LEMMA GroupIs ==
    ASSUME Aggregates(out, writing), NEW level, NEW scope,
           NEW g \in DOMAIN GraphEdges(out, level, scope)
    PROVE  \E K \in SUBSET DOMAIN out :
              /\ GraphEdges(out, level, scope)[g] = Added(out, K)
              /\ Behind(level, scope, g) = {e \in writing : EdgeKey(e) \in K}
              /\ Behind(level, scope, g) # {}
<1>1. PICK visible : visible = {k \in DOMAIN out : Visible(scope, k)}
    OBVIOUS
<1>2. PICK K : K = {k \in visible : Grouping(level, k) = g}
    OBVIOUS
<1>3. g \in {Grouping(level, k) : k \in visible}
    BY <1>1 DEF GraphEdges
<1>4. GraphEdges(out, level, scope)[g] = Added(out, K)
    BY <1>1, <1>2, <1>3 DEF GraphEdges
<1>5. DOMAIN out = {EdgeKey(e) : e \in writing}
    BY DEF Aggregates
<1>6. Behind(level, scope, g) = {e \in writing : EdgeKey(e) \in K}
    BY <1>1, <1>2, <1>5 DEF Behind
<1>7. Behind(level, scope, g) # {}
    BY <1>1, <1>2, <1>3, <1>5, <1>6
<1> QED BY <1>1, <1>2, <1>4, <1>6, <1>7

(* A point on the way from a lower to an upper bound lies between them. *)
LEMMA Products ==
    ASSUME NEW w \in Nat, NEW t \in Nat, NEW s \in Nat, t <= s
    PROVE  w * t \in Nat /\ w * s \in Nat /\ w * t <= w * s
<1>1. PICK r \in Nat : s = t + r
    <2>1. s - t \in Nat /\ s = t + (s - t)
        OBVIOUS
    <2> QED BY <2>1
<1>2. w * s = w * t + w * r
    BY <1>1
<1>3. w * t \in Nat /\ w * r \in Nat
    OBVIOUS
<1> QED BY <1>2, <1>3

LEMMA Interpolates ==
    ASSUME NEW lower \in Nat, NEW upper \in Nat, lower <= upper,
           NEW c \in Nat, NEW t \in Nat, t <= 100 * c,
           NEW x, x = lower * 100 * c + (upper - lower) * t
    PROVE  x <= upper * (100 * c) /\ x >= lower * (100 * c)
<1>1. PICK w, d : w = upper - lower /\ d = 100 * c
    OBVIOUS
<1>2. w \in Nat /\ d \in Nat /\ t <= d /\ upper = lower + w
    BY <1>1
<1>3. w * t \in Nat /\ w * d \in Nat /\ w * t <= w * d
    BY <1>2, Products
<1>4. lower * 100 * c = lower * d
    BY <1>1
<1>5. lower * d \in Nat
    BY <1>2
<1>6. upper * d = lower * d + w * d
    BY <1>2
<1>7. x = lower * d + w * t
    BY <1>1, <1>4
<1> QED BY <1>1, <1>3, <1>5, <1>6, <1>7

(* The calls up to a bucket, and those within a latency. *)
Below(E, i)  == {e \in E : bucketIndex(EdgeDuration(e)) <= i}
Within(E, d) == {e \in E : EdgeDuration(e) <= d}

(* The buckets of a histogram of E. *)
Histogram(E, counts) ==
    \A i \in 1 .. BucketCount : counts[i] = Cardinality({e \in E : bucketIndex(EdgeDuration(e)) = i})

(* There is a bound, hence a bucket before the last. *)
LEMMA BucketCountIs == BucketCount \in Nat /\ BucketCount = Len(LatencyBounds) + 1 /\ BucketCount > 1
<1>1. LatencyBounds \in Seq(Nat) /\ LatencyBounds # <<>>
    BY ConstantsAssumption, BoundsAssumption
<1>2. Len(LatencyBounds) \in Nat /\ Len(LatencyBounds) # 0
    BY <1>1
<1> QED BY <1>2 DEF BucketCount

(* The buckets up to the i-th hold the calls that are not in a later one. *)
LEMMA BelowCounted ==
    ASSUME NEW E \in SUBSET Edges, IsFiniteSet(E), NEW counts, Histogram(E, counts),
           NEW i \in 0 .. BucketCount
    PROVE  UpTo(counts, i) = Cardinality(Below(E, i)) /\ UpTo(counts, i) \in Nat
<1>1. PICK key, R : key = [e \in E |-> bucketIndex(EdgeDuration(e))] /\ R = 1 .. i
    OBVIOUS
<1>2. i \in Nat /\ IsFiniteSet(R) /\ R \in SUBSET (1 .. BucketCount)
    BY <1>1, BucketCountIs, FS_Interval
<1>3. \A r \in R : counts[r] = Cardinality(Keyed(E, key, r))
    <2>1. \A r : Keyed(E, key, r) = {e \in E : bucketIndex(EdgeDuration(e)) = r}
        BY <1>1 DEF Keyed
    <2> QED BY <1>2, <2>1 DEF Histogram
<1>4. SumOver(counts, R) = Cardinality(KeyedIn(E, key, R))
    BY <1>2, <1>3, CountGroups
<1>5. KeyedIn(E, key, R) = Below(E, i)
    <2>1. \A e \in E : key[e] \in 1 .. BucketCount
        BY <1>1, BucketFacts
    <2> QED BY <1>1, <1>2, <2>1, BucketCountIs DEF Below, KeyedIn
<1>6. IsFiniteSet(Below(E, i))
    BY FS_Subset DEF Below
<1> QED BY <1>1, <1>4, <1>5, <1>6, FS_CardinalityType DEF UpTo

(* The latency q percent do not exceed, by what it is. *)
LEMMA TrueQuantileIs ==
    ASSUME NEW E \in SUBSET Edges, IsFiniteSet(E), E # {}, NEW q \in Quantiles, NEW t, t = TrueQuantile(E, q)
    PROVE  /\ t \in Nat
           /\ 100 * Cardinality(Within(E, t)) >= q * Cardinality(E)
           /\ \A e \in E : 100 * Cardinality(Within(E, EdgeDuration(e))) >= q * Cardinality(E)
                             => t <= EdgeDuration(e)
<1>1. PICK n : n = Cardinality(E)
    OBVIOUS
<1>2. n \in Nat /\ q \in {95, 99}
    BY <1>1, FS_CardinalityType DEF Quantiles
<1>3. PICK D : D = {EdgeDuration(e) : e \in E}
    OBVIOUS
<1>4. D \in SUBSET Nat /\ D # {} /\ IsFiniteSet(D)
    <2>1. PICK f : f = [e \in E |-> EdgeDuration(e)]
        OBVIOUS
    <2>2. D = {f[e] : e \in E}
        BY <1>3, <2>1
    <2>3. IsFiniteSet(D)
        BY <2>2, ImageFinite
    <2> QED BY <1>3, <2>3, EdgeEnds
<1>5. PICK T : T = {d \in D : 100 * Cardinality(Within(E, d)) >= q * n}
    OBVIOUS
<1>6. T \in SUBSET Nat /\ IsFiniteSet(T)
    <2>1. T \in SUBSET D
        BY <1>5
    <2> QED BY <1>4, <2>1, FS_Subset
<1>7. T # {}
    <2>1. PICK m \in D : \A y \in D : y <= m
        BY <1>4, Extremes
    <2>2. Within(E, m) = E
        BY <1>3, <2>1 DEF Within
    <2>3. 100 * n >= q * n
        BY <1>2
    <2> QED BY <1>1, <1>5, <2>1, <2>2, <2>3
<1>8. t = Min(T)
    BY <1>1, <1>3, <1>5 DEF TrueQuantile, Within
<1>9. t \in T /\ \A y \in T : t <= y
    <2>1. T \in SUBSET Int
        BY <1>6
    <2> QED BY <1>6, <1>7, <1>8, <2>1, MinIs
<1>10. \A e \in E : 100 * Cardinality(Within(E, EdgeDuration(e))) >= q * n => t <= EdgeDuration(e)
    BY <1>3, <1>5, <1>9
<1> QED BY <1>1, <1>5, <1>6, <1>9, <1>10

(* It lies in the first bucket up to which there are that many. *)
LEMMA QuantileBucket ==
    ASSUME NEW E \in SUBSET Edges, IsFiniteSet(E), E # {}, NEW q \in Quantiles,
           NEW n, n = Cardinality(E), NEW b, b = bucketIndex(TrueQuantile(E, q))
    PROVE  /\ n \in Nat \ {0} /\ b \in 1 .. BucketCount
           /\ 100 * Cardinality(Below(E, b)) >= q * n
           /\ \A i \in 1 .. BucketCount : 100 * Cardinality(Below(E, i)) >= q * n => b <= i
<1>1. PICK t : t = TrueQuantile(E, q)
    OBVIOUS
<1>2. /\ t \in Nat
      /\ 100 * Cardinality(Within(E, t)) >= q * n
      /\ \A e \in E : 100 * Cardinality(Within(E, EdgeDuration(e))) >= q * n => t <= EdgeDuration(e)
    BY <1>1, TrueQuantileIs
<1>3. b = bucketIndex(t) /\ b \in 1 .. BucketCount
    BY <1>1, <1>2, BucketOf
<1>4. q \in {95, 99} /\ n \in Nat \ {0}
    BY FS_CardinalityType, FS_EmptySet DEF Quantiles
<1>5. \A S \in SUBSET E : IsFiniteSet(S) /\ Cardinality(S) \in Nat
    BY FS_Subset, FS_CardinalityType
<1>6. \A S \in SUBSET E : \A U \in SUBSET S : Cardinality(U) <= Cardinality(S)
    BY <1>5, FS_Subset
<1>7. \A d : Within(E, d) \in SUBSET E
    BY DEF Within
<1>8. \A i : Below(E, i) \in SUBSET E
    BY DEF Below
<1>9. \A e \in E : EdgeDuration(e) \in Nat /\ bucketIndex(EdgeDuration(e)) \in Nat
    BY EdgeEnds, BucketFacts, BucketCountIs
<1>10. 100 * Cardinality(Below(E, b)) >= q * n
    <2>1. Within(E, t) \in SUBSET Below(E, b)
        BY <1>2, <1>3, <1>9, BucketsOrdered DEF Within, Below
    <2>2. PICK x, y : x = Cardinality(Within(E, t)) /\ y = Cardinality(Below(E, b))
        OBVIOUS
    <2>3. x \in Nat /\ y \in Nat /\ x <= y
        BY <1>5, <1>6, <1>7, <1>8, <2>1, <2>2
    <2> QED BY <1>2, <1>4, <2>2, <2>3
<1>11. ASSUME NEW i \in 1 .. BucketCount, 100 * Cardinality(Below(E, i)) >= q * n
       PROVE  b <= i
    <2>1. Below(E, i) # {}
        <3>1. Cardinality(Below(E, i)) \in Nat
            BY <1>5, <1>8
        <3>2. Cardinality(Below(E, i)) # 0
            BY <1>4, <1>11, <3>1
        <3> QED BY <3>2, FS_EmptySet
    <2>2. PICK D, f : D = {f[e] : e \in Below(E, i)} /\ f = [e \in Below(E, i) |-> EdgeDuration(e)]
        OBVIOUS
    <2>3. D \in SUBSET Int /\ IsFiniteSet(D) /\ D # {}
        <3>1. IsFiniteSet(D)
            BY <1>5, <1>8, <2>2, ImageFinite
        <3> QED BY <1>8, <1>9, <2>1, <2>2, <3>1
    <2>4. PICK m \in D : \A y \in D : y <= m
        BY <2>3, Extremes
    <2>5. PICK e \in Below(E, i) : EdgeDuration(e) = m
        BY <2>2, <2>4
    <2>6. e \in E /\ bucketIndex(m) <= i /\ m \in Nat
        BY <1>9, <2>5 DEF Below
    <2>7. Below(E, i) \in SUBSET Within(E, m)
        BY <1>8, <2>2, <2>4 DEF Within
    <2>8. 100 * Cardinality(Within(E, m)) >= q * n
        <3>1. PICK x, y : x = Cardinality(Below(E, i)) /\ y = Cardinality(Within(E, m))
            OBVIOUS
        <3>2. x \in Nat /\ y \in Nat /\ x <= y
            BY <1>5, <1>6, <1>7, <1>8, <2>7, <3>1
        <3> QED BY <1>4, <1>11, <3>1, <3>2
    <2>9. t <= m
        BY <1>2, <2>5, <2>6, <2>8
    <2>10. b <= bucketIndex(m)
        BY <1>2, <1>3, <2>6, <2>9, BucketsOrdered
    <2> QED BY <1>3, <1>9, <2>5, <2>6, <2>10, BucketCountIs
<1> QED BY <1>3, <1>4, <1>10, <1>11

(* The quantile is interpolated in the bucket of the true one: the first up *)
(* to which there are as many calls as it asks for.                        *)
LEMMA QuantileFits ==
    ASSUME NEW E \in SUBSET Edges, IsFiniteSet(E), E # {}, NEW q \in Quantiles,
           NEW counts \in [1 .. BucketCount -> Nat], Histogram(E, counts)
    PROVE  InBucket(histogramQuantile(counts, q), bucketIndex(TrueQuantile(E, q)))
<1>1. PICK n, b, target, m :
          /\ n = Cardinality(E) /\ b = bucketIndex(TrueQuantile(E, q)) /\ target = q * n
          /\ m = BucketCount
    OBVIOUS
<1>2. /\ n \in Nat \ {0} /\ b \in 1 .. m
      /\ 100 * Cardinality(Below(E, b)) >= target
      /\ \A i \in 1 .. m : 100 * Cardinality(Below(E, i)) >= target => b <= i
    BY <1>1, QuantileBucket
<1>3. \A i \in 0 .. m : UpTo(counts, i) = Cardinality(Below(E, i)) /\ UpTo(counts, i) \in Nat
    BY <1>1, BelowCounted
<1>4. m \in Nat /\ m = Len(LatencyBounds) + 1 /\ m > 1
    BY <1>1, BucketCountIs
<1>5. \A e \in E : bucketIndex(EdgeDuration(e)) \in 1 .. m
    BY <1>1, BucketFacts
<1>6. UpTo(counts, m) = n
    <2>1. Below(E, m) = E
        BY <1>4, <1>5 DEF Below
    <2> QED BY <1>1, <1>3, <1>4, <2>1
<1>7. target \in Nat /\ target > 0
    <2>1. q \in {95, 99}
        BY DEF Quantiles
    <2> QED BY <1>1, <1>2, <2>1
<1>8. PICK first : first = {i \in 1 .. m : 100 * UpTo(counts, i) >= target}
    OBVIOUS
<1>9. b \in first /\ \A i \in first : b <= i
    BY <1>2, <1>3, <1>8
<1>10. Min(first \cup {m}) = b
    <2>1. PICK S : S = first \cup {m}
        OBVIOUS
    <2>2. S \in SUBSET (1 .. m) /\ IsFiniteSet(1 .. m)
        <3>1. m \in 1 .. m /\ 1 \in Int /\ m \in Int
            BY <1>4
        <3>2. first \in SUBSET (1 .. m)
            BY <1>8
        <3> QED BY <2>1, <3>1, <3>2, FS_Interval
    <2>3. S \in SUBSET Int /\ IsFiniteSet(S) /\ S # {}
        BY <2>1, <2>2, FS_Subset
    <2>4. b \in S /\ \A i \in S : b <= i
        BY <1>2, <1>9, <2>1
    <2> QED BY <2>1, <2>3, <2>4, MinIs
<1>11. PICK x : x = histogramQuantile(counts, q)
    OBVIOUS
<1>12. x = LET lower == IF b = 1 THEN 0 ELSE LatencyBounds[b - 1]
           IN  IF target = 0 THEN <<0, 1>>
               ELSE IF b = m THEN <<LatencyBounds[m - 1], 1>>
               ELSE << lower * 100 * counts[b]
                         + (LatencyBounds[b] - lower) * (target - 100 * Prev(counts, b)),
                       100 * counts[b] >>
    BY <1>1, <1>6, <1>8, <1>10, <1>11 DEF histogramQuantile
<1>13. /\ \A i \in 1 .. m - 1 : LatencyBounds[i] \in Nat
       /\ \A i, j \in 1 .. m - 1 : i < j => LatencyBounds[i] < LatencyBounds[j]
    <2>1. LatencyBounds \in Seq(Nat) /\ m - 1 = Len(LatencyBounds)
        BY <1>4, ConstantsAssumption
    <2>2. DOMAIN LatencyBounds = 1 .. m - 1 /\ \A i \in 1 .. m - 1 : LatencyBounds[i] \in Nat
        BY <2>1
    <2>3. \A i, j \in 1 .. m - 1 : i < j => LatencyBounds[i] < LatencyBounds[j]
        BY <2>2, BoundsAssumption
    <2> QED BY <2>2, <2>3
<1>14. CASE b = m
    <2>1. x = <<LatencyBounds[m - 1], 1>>
        BY <1>7, <1>12, <1>14
    <2>2. x[1] = LatencyBounds[m - 1] /\ x[2] = 1 /\ LatencyBounds[m - 1] \in Nat
        BY <1>4, <1>13, <2>1
    <2>3. x[1] = LatencyBounds[b - 1] * x[2]
        BY <1>14, <2>2
    <2>4. InBucket(x, b)
        BY <1>1, <1>14, <2>3 DEF InBucket
    <2> QED BY <1>1, <1>11, <2>4
<1>15. CASE b # m
    <2>1. PICK lower, upper, c, t : /\ lower = IF b = 1 THEN 0 ELSE LatencyBounds[b - 1]
                                    /\ upper = LatencyBounds[b] /\ c = counts[b]
                                    /\ t = target - 100 * UpTo(counts, b - 1)
        OBVIOUS
    <2>2. /\ b \in 1 .. m - 1 /\ lower \in Nat /\ upper \in Nat /\ lower <= upper
          /\ b > 1 => lower = LatencyBounds[b - 1]
        BY <1>2, <1>4, <1>13, <1>15, <2>1
    <2>3. c \in Nat
        BY <1>1, <1>2, <2>1
    <2>4. b - 1 \in 0 .. m /\ UpTo(counts, b - 1) \in Nat /\ UpTo(counts, b) \in Nat
        BY <1>2, <1>3, <1>4
    <2>5. UpTo(counts, b) = UpTo(counts, b - 1) + c
        <3>1. PICK R : R = 1 .. b - 1
            OBVIOUS
        <3>2. b \in Nat /\ b >= 1 /\ b <= m /\ 1 \in Int /\ b - 1 \in Int
            BY <1>2, <1>4
        <3>3. IsFiniteSet(R)
            BY <3>1, <3>2, FS_Interval
        <3>4. b \notin R
            BY <3>1, <3>2
        <3>5. 1 .. b = R \cup {b}
            BY <3>1, <3>2
        <3>6. R \in SUBSET (1 .. m)
            BY <1>4, <3>1, <3>2
        <3>7. SumOver(counts, R \cup {b}) = counts[b] + SumOver(counts, R)
            <4>1. \A r \in R \cup {b} : counts[r] \in Nat
                BY <1>1, <1>2, <3>6
            <4> QED BY <3>3, <3>4, <4>1, SumAdd
        <3>8. PICK s : s = SumOver(counts, R)
            OBVIOUS
        <3>9. s \in Nat /\ s = UpTo(counts, b - 1)
            BY <2>4, <3>1, <3>8 DEF UpTo
        <3>10. UpTo(counts, b) = counts[b] + s
            BY <3>5, <3>7, <3>8 DEF UpTo
        <3> QED BY <2>1, <2>3, <3>9, <3>10
    <2>6. t \in Nat
        <3>1. CASE b = 1
            <4>1. Below(E, 0) = {}
                BY <1>4, <1>5 DEF Below
            <4>2. UpTo(counts, 0) = 0
                BY <1>3, <1>4, <4>1, FS_EmptySet
            <4> QED BY <1>7, <2>1, <3>1, <4>2
        <3>2. CASE b > 1
            <4>1. b - 1 \in 1 .. m /\ b - 1 \notin first
                BY <1>2, <1>4, <1>9, <3>2
            <4>2. ~(100 * UpTo(counts, b - 1) >= target)
                BY <1>8, <4>1
            <4> QED BY <1>7, <2>1, <2>4, <4>2
        <3> QED BY <1>2, <3>1, <3>2
    <2>7. t <= 100 * c
        <3>1. 100 * UpTo(counts, b) >= target
            BY <1>8, <1>9
        <3> QED BY <1>7, <2>1, <2>3, <2>5, <2>4, <3>1
    <2>8. x = <<lower * 100 * c + (upper - lower) * t, 100 * c>>
        BY <1>7, <1>12, <1>15, <2>1 DEF Prev
    <2>9. PICK y : y = lower * 100 * c + (upper - lower) * t
        OBVIOUS
    <2>10. y <= upper * (100 * c) /\ y >= lower * (100 * c)
        BY <2>2, <2>3, <2>6, <2>7, <2>9, Interpolates
    <2>11. x[1] = y /\ x[2] = 100 * c
        BY <2>8, <2>9
    <2>12. x[1] <= LatencyBounds[b] * x[2] /\ (b > 1 => x[1] >= LatencyBounds[b - 1] * x[2])
        BY <2>1, <2>2, <2>10, <2>11
    <2>13. InBucket(x, b)
        BY <1>1, <1>15, <2>12 DEF InBucket
    <2> QED BY <1>1, <1>11, <2>13
<1> QED BY <1>14, <1>15

(* The calls into the nodes are the calls in scope. *)
LEMMA NodesCount ==
    ASSUME Aggregates(out, writing), IsFiniteSet(writing), writing \in SUBSET Edges, NEW level, NEW scope,
           NEW edges, edges = GraphEdges(out, level, scope), NEW nodes, nodes = GraphNodes(edges),
           \A g \in DOMAIN edges : edges[g].calls = Cardinality(Behind(level, scope, g))
    PROVE  Column(nodes, "calls", DOMAIN nodes)
             = Cardinality({e \in writing : Visible(scope, EdgeKey(e))})
<1>1. PICK G, N : G = DOMAIN edges /\ N = DOMAIN nodes
    OBVIOUS
<1>2. PICK V, key : /\ V = {e \in writing : Visible(scope, EdgeKey(e))}
                    /\ key = [e \in V |-> Grouping(level, EdgeKey(e))]
    OBVIOUS
<1>3. IsFiniteSet(V)
    BY <1>2, FS_Subset
<1>4. G = {key[e] : e \in V}
    <2>1. DOMAIN out = {EdgeKey(e) : e \in writing}
        BY DEF Aggregates
    <2>2. G = {Grouping(level, k) : k \in {j \in DOMAIN out : Visible(scope, j)}}
        BY <1>1 DEF GraphEdges
    <2> QED BY <1>2, <2>1, <2>2
<1>5. IsFiniteSet(G)
    BY <1>3, <1>4, ImageFinite
<1>6. N = UNION {{g[1], g[2]} : g \in G}
    BY <1>1 DEF GraphNodes
<1>7. IsFiniteSet(N)
    <2>1. PICK f, h : f = [g \in G |-> g[1]] /\ h = [g \in G |-> g[2]]
        OBVIOUS
    <2>2. IsFiniteSet({f[g] : g \in G}) /\ IsFiniteSet({h[g] : g \in G})
        BY <1>5, ImageFinite
    <2>3. N = {f[g] : g \in G} \cup {h[g] : g \in G}
        BY <1>6, <2>1
    <2> QED BY <2>2, <2>3, FS_Union
<1>8. PICK c, F, into : /\ c = [g \in G |-> edges[g]["calls"]]
                        /\ F = [n \in N |-> {g \in G : g[2] = n}]
                        /\ into = [n \in N |-> nodes[n]["calls"]]
    OBVIOUS
<1>9. \A g \in G : c[g] = Cardinality(Keyed(V, key, g)) /\ c[g] \in Nat
    <2> SUFFICES ASSUME NEW g \in G PROVE c[g] = Cardinality(Keyed(V, key, g)) /\ c[g] \in Nat
        OBVIOUS
    <2>1. Keyed(V, key, g) = Behind(level, scope, g)
        BY <1>2 DEF Keyed, Behind
    <2>2. IsFiniteSet(Keyed(V, key, g))
        BY <1>3, FS_Subset DEF Keyed
    <2>3. c[g] = Cardinality(Behind(level, scope, g))
        BY <1>1, <1>8
    <2> QED BY <2>1, <2>2, <2>3, FS_CardinalityType
<1>10. \A n \in N : IsFiniteSet(F[n]) /\ into[n] = SumOver(c, F[n])
    <2> SUFFICES ASSUME NEW n \in N PROVE IsFiniteSet(F[n]) /\ into[n] = SumOver(c, F[n])
        OBVIOUS
    <2>1. F[n] = {g \in G : g[2] = n} /\ F[n] \in SUBSET G
        BY <1>8
    <2>2. IsFiniteSet(F[n])
        BY <1>5, <2>1, FS_Subset
    <2>3. PICK f, S : S = F[n] /\ f = [g \in S |-> edges[g]["calls"]]
        OBVIOUS
    <2>4. into[n] = SumOver(f, S)
        BY <1>1, <1>8, <2>1, <2>3 DEF GraphNodes, Column
    <2>5. \A g \in S : f[g] = c[g]
        BY <1>8, <2>1, <2>3
    <2>6. SumOver(f, S) = SumOver(c, S)
        BY <2>2, <2>3, <2>5, SumEqual
    <2> QED BY <2>2, <2>3, <2>4, <2>6
<1>11. \A n, k \in N : n # k => F[n] \cap F[k] = {}
    BY <1>8
<1>12. \A n \in N : \A g \in F[n] : c[g] \in Nat
    BY <1>8, <1>9
<1>13. SumOver(c, UNION {F[n] : n \in N}) = SumOver(into, N)
    BY <1>7, <1>10, <1>11, <1>12, SumFamily
<1>14. UNION {F[n] : n \in N} = G
    <2>1. \A g \in G : g[2] \in N
        BY <1>6
    <2>2. \A n \in N : F[n] = {g \in G : g[2] = n}
        BY <1>8
    <2>3. \A g \in G : g \in F[g[2]]
        BY <2>1, <2>2
    <2>4. G \subseteq UNION {F[n] : n \in N}
        BY <2>1, <2>3
    <2>5. UNION {F[n] : n \in N} \subseteq G
        BY <2>2
    <2> QED BY <2>4, <2>5
<1>15. SumOver(c, G) = Cardinality(KeyedIn(V, key, G))
    BY <1>3, <1>5, <1>9, CountGroups
<1>16. KeyedIn(V, key, G) = V
    BY <1>4 DEF KeyedIn
<1>17. Column(nodes, "calls", DOMAIN nodes) = SumOver(into, N)
    BY <1>1, <1>8 DEF Column
<1> QED BY <1>2, <1>13, <1>14, <1>15, <1>16, <1>17

(* A graph drawn from exact aggregates is faithful. *)
LEMMA ExactIsFaithful ==
    ASSUME Aggregates(out, writing), IsFiniteSet(writing), writing \in SUBSET Edges
    PROVE  GraphFaithful
<1>1. ASSUME NEW level \in Levels, NEW scope \in Views
      PROVE  LET edges == GraphEdges(out, level, scope)
                 nodes == GraphNodes(edges)
             IN  /\ \A g \in DOMAIN edges :
                      LET E == Behind(level, scope, g)
                      IN  /\ edges[g].calls = Cardinality(E)
                          /\ edges[g].errors = Cardinality({e \in E : EdgeIsError(e)})
                          /\ \A q \in Quantiles :
                               InBucket(histogramQuantile(edges[g].buckets, q),
                                        bucketIndex(TrueQuantile(E, q)))
                 /\ Column(nodes, "calls", DOMAIN nodes)
                      = Cardinality({e \in writing : Visible(scope, EdgeKey(e))})
    <2>1. PICK edges, nodes : edges = GraphEdges(out, level, scope) /\ nodes = GraphNodes(edges)
        OBVIOUS
    <2>2. ASSUME NEW g \in DOMAIN edges
          PROVE  LET E == Behind(level, scope, g)
                 IN  /\ edges[g].calls = Cardinality(E)
                     /\ edges[g].errors = Cardinality({e \in E : EdgeIsError(e)})
                     /\ \A q \in Quantiles :
                          InBucket(histogramQuantile(edges[g].buckets, q),
                                   bucketIndex(TrueQuantile(E, q)))
        <3>1. PICK E : E = Behind(level, scope, g)
            OBVIOUS
        <3>2. PICK K \in SUBSET DOMAIN out :
                 /\ edges[g] = Added(out, K) /\ E = {e \in writing : EdgeKey(e) \in K} /\ E # {}
            BY <2>1, <2>2, <3>1, GroupIs
        <3>3. PICK a : a = Added(out, K)
            OBVIOUS
        <3>4. /\ a.calls = Cardinality(E)
              /\ a.errors = Cardinality({e \in E : EdgeIsError(e)})
              /\ \A i \in 1 .. BucketCount :
                    a.buckets[i] = Cardinality({e \in E : bucketIndex(EdgeDuration(e)) = i})
            BY <3>2, <3>3, AddedCounts
        <3>5. IsFiniteSet(E) /\ E \in SUBSET Edges
            <4>1. E \in SUBSET writing
                BY <3>2
            <4> QED BY <4>1, FS_Subset
        <3>6. a.buckets \in [1 .. BucketCount -> Nat] /\ Histogram(E, a.buckets)
            <4>1. a.buckets = [i \in 1 .. BucketCount |-> a.buckets[i]]
                BY <3>3 DEF Added
            <4>2. \A i \in 1 .. BucketCount : a.buckets[i] \in Nat
                <5> SUFFICES ASSUME NEW i \in 1 .. BucketCount PROVE a.buckets[i] \in Nat
                    OBVIOUS
                <5>1. IsFiniteSet({e \in E : bucketIndex(EdgeDuration(e)) = i})
                    BY <3>5, FS_Subset
                <5> QED BY <3>4, <5>1, FS_CardinalityType
            <4> QED BY <3>4, <4>1, <4>2 DEF Histogram
        <3>7. \A q \in Quantiles : InBucket(histogramQuantile(a.buckets, q), bucketIndex(TrueQuantile(E, q)))
            BY <3>2, <3>5, <3>6, QuantileFits
        <3> QED BY <3>1, <3>2, <3>3, <3>4, <3>7
    <2>3. \A g \in DOMAIN edges : edges[g].calls = Cardinality(Behind(level, scope, g))
        BY <2>2
    <2>4. Column(nodes, "calls", DOMAIN nodes) = Cardinality({e \in writing : Visible(scope, EdgeKey(e))})
        BY <2>1, <2>3, NodesCount
    <2> QED BY <2>1, <2>2, <2>4
<1> QED BY <1>1 DEF GraphFaithful

(* The graph handleTopology draws from the snapshot flush writes counts    *)
(* every call behind it once, at every level and in every scope, and       *)
(* histogramQuantile answers with a latency of the bucket the true         *)
(* quantile is in.                                                         *)
THEOREM GraphFaithfulAlways == Spec => []GraphFaithful
<1>1. IInv /\ StatsInv /\ AggregatesExact => GraphFaithful
    <2> SUFFICES ASSUME IInv, StatsInv, AggregatesExact PROVE GraphFaithful
        OBVIOUS
    <2>1. writing \in SUBSET Recorded /\ writing \in SUBSET Edges
        BY DEF Recorded, IInv, Typed, TypeOK
    <2>2. IsFiniteSet(writing)
        BY <2>1, FS_Subset DEF StatsInv
    <2> QED BY <2>1, <2>2, ExactIsFaithful DEF AggregatesExact
<1> QED BY <1>1, Invariance, SumsInvariance, PTL

-----------------------------------------------------------------------------
(***************************************************************************)
(* The builder implements the ledger of spans: the initial states map to   *)
(* the ledger's, and every step to one of its steps or to none.            *)
(***************************************************************************)
HasEdge(x) == \E e \in Recorded : x \in Ends(e)

Carried(x) == \E w \in Workers : emit[w] # None /\ x \in Ends(emit[w])

IsWaiting(x) == InTable(x) \/ x \in dropped \/ Carried(x)

StatusOf(x) == IF x \notin seen THEN "unseen"
               ELSE IF HasEdge(x) THEN "counted"
               ELSE IF IsWaiting(x) THEN "waiting"
               ELSE "discarded"

LEMMA StatusIs ==
    /\ \A x \in Spans : Status[x] = StatusOf(x) /\ Status'[x] = StatusOf(x)'
    /\ Status = [x \in Spans |-> Status[x]] /\ Status' = [x \in Spans |-> Status'[x]]
<1>1. \A x \in Spans : x # None
    BY ConstantsAssumption
<1>2. \A x \in Spans : x \in CountedSpans <=> HasEdge(x)
    BY DEF CountedSpans, HasEdge
<1>3. \A x \in Spans : x \in CountedSpans' <=> HasEdge(x)'
    BY DEF CountedSpans, HasEdge
<1>4. \A x \in Spans : x \in Waiting <=> IsWaiting(x)
    BY <1>1 DEF Waiting, Tabled, InFlight, IsWaiting, InTable, Carried
<1>5. \A x \in Spans : x \in Waiting' <=> IsWaiting(x)'
    BY <1>1 DEF Waiting, Tabled, InFlight, IsWaiting, InTable, Carried
<1>6. \A x \in Spans : Status[x] = StatusOf(x)
    BY <1>2, <1>4 DEF Status, StatusOf
<1>7. \A x \in Spans : Status'[x] = StatusOf(x)'
    BY <1>3, <1>5 DEF Status, StatusOf
<1>8. Status = [x \in Spans |-> Status[x]] /\ Status' = [x \in Spans |-> Status'[x]]
    BY DEF Status
<1> QED BY <1>6, <1>7, <1>8

(* What changes in the ledger when one or two spans change their status. *)
LEMMA StatusChange ==
    /\ (\A x \in Spans : StatusOf(x)' = StatusOf(x)) => Status' = Status
    /\ \A s \in Spans :
         (\A x \in Spans : x # s => StatusOf(x)' = StatusOf(x))
           => Status' = [Status EXCEPT ![s] = StatusOf(s)']
    /\ \A s, t \in Spans :
         s # t /\ (\A x \in Spans : x \notin {s, t} => StatusOf(x)' = StatusOf(x))
           => Status' = [Status EXCEPT ![s] = StatusOf(s)', ![t] = StatusOf(t)']
<1>1. ASSUME \A x \in Spans : StatusOf(x)' = StatusOf(x)
      PROVE  Status' = Status
    <2>1. \A x \in Spans : Status'[x] = Status[x]
        BY <1>1, StatusIs
    <2> QED BY <2>1, StatusIs
<1>2. ASSUME NEW s \in Spans, \A x \in Spans : x # s => StatusOf(x)' = StatusOf(x)
      PROVE  Status' = [Status EXCEPT ![s] = StatusOf(s)']
    <2>1. PICK v : v = StatusOf(s)'
        OBVIOUS
    <2>2. \A x \in Spans : Status'[x] = IF x = s THEN v ELSE Status[x]
        BY <1>2, <2>1, StatusIs
    <2>3. PICK f : f = Status
        OBVIOUS
    <2>4. PICK g : g = Status'
        OBVIOUS
    <2>5. f = [x \in Spans |-> f[x]] /\ g = [x \in Spans |-> g[x]]
        BY <2>3, <2>4, StatusIs
    <2>6. \A x \in Spans : g[x] = IF x = s THEN v ELSE f[x]
        BY <2>2, <2>3, <2>4
    <2>7. g = [f EXCEPT ![s] = v]
        BY <2>5, <2>6
    <2> QED BY <2>1, <2>3, <2>4, <2>7
<1>3. ASSUME NEW s \in Spans, NEW t \in Spans, s # t,
             \A x \in Spans : x \notin {s, t} => StatusOf(x)' = StatusOf(x)
      PROVE  Status' = [Status EXCEPT ![s] = StatusOf(s)', ![t] = StatusOf(t)']
    <2>1. PICK v : v = StatusOf(s)'
        OBVIOUS
    <2>2. PICK u : u = StatusOf(t)'
        OBVIOUS
    <2>3. \A x \in Spans : Status'[x] = IF x = t THEN u ELSE IF x = s THEN v ELSE Status[x]
        BY <1>3, <2>1, <2>2, StatusIs
    <2>4. PICK f : f = Status
        OBVIOUS
    <2>5. PICK g : g = Status'
        OBVIOUS
    <2>6. f = [x \in Spans |-> f[x]] /\ g = [x \in Spans |-> g[x]]
        BY <2>4, <2>5, StatusIs
    <2>7. \A x \in Spans : g[x] = IF x = t THEN u ELSE IF x = s THEN v ELSE f[x]
        BY <2>3, <2>4, <2>5
    <2>8. g = [f EXCEPT ![s] = v, ![t] = u]
        BY <2>6, <2>7
    <2> QED BY <2>1, <2>2, <2>4, <2>5, <2>8
<1> QED BY <1>1, <1>2, <1>3

(* The arrival of s at w: no other span changes its status but the ones    *)
(* that leave the table and that w does not carry off.                     *)
LEMMA LedgerArrive ==
    ASSUME IInv, NEW w \in Workers, NEW s \in Spans, NextSpan(w, s), Arrived(w, s),
           \A v \in Workers : v # w => emit'[v] = emit[v]
    PROVE  /\ Status[s] = "unseen" /\ StatusOf(s)' \in {"waiting", "discarded"}
           /\ StatusOf(s)' = "waiting" <=> InTable(s)' \/ (emit'[w] # None /\ s \in Ends(emit'[w]))
           /\ \A x \in Spans :
                x # s /\ (InTable(x) => InTable(x)' \/ (emit'[w] # None /\ x \in Ends(emit'[w])))
                  => StatusOf(x)' = StatusOf(x)
           /\ \A x \in Spans : x # s /\ InTable(x) => Status[x] = "waiting"
           /\ \A x \in Spans :
                x # s /\ InTable(x) /\ ~InTable(x)' /\ ~(emit'[w] # None /\ x \in Ends(emit'[w]))
                  => StatusOf(x)' = "discarded"
<1>1. /\ s \notin seen /\ seen' = seen \cup {s} /\ dropped' = dropped /\ emit[w] = None
      /\ Recorded' = Recorded /\ s # None
    BY ConstantsAssumption DEF NextSpan, Recorded
<1>2. /\ ~InTable(s) /\ s \notin dropped
      /\ \A v \in Workers : emit[v] # None => s \notin Ends(emit[v])
      /\ \A e \in Recorded : s \notin Ends(e)
    BY <1>1, FreshFacts
<1>3. \A x : HasEdge(x)' <=> HasEdge(x)
    BY <1>1 DEF HasEdge, Ends
<1>4. \A x : Carried(x)' <=> Carried(x) \/ (emit'[w] # None /\ x \in Ends(emit'[w]))
    BY <1>1 DEF Carried, Ends
<1>5. ASSUME NEW x \in Spans, InTable(x)
      PROVE  x \in seen /\ ~HasEdge(x) /\ ~Carried(x) /\ x \notin dropped
    <2>1. x \in seen
        BY <1>5, ConstantsAssumption DEF IInv, TablesInv, GenPlaced, InTable
    <2> QED BY <1>5, <2>1 DEF IInv, DroppedInv, EmitInv, RecordedInv, Out, HasEdge, Carried
<1>6. Status[s] = "unseen"
    BY <1>1, StatusIs DEF StatusOf
<1>7. IsWaiting(s)' <=> InTable(s)' \/ (emit'[w] # None /\ s \in Ends(emit'[w]))
    BY <1>1, <1>2, <1>4 DEF IsWaiting, Carried
<1>8. /\ StatusOf(s)' \in {"waiting", "discarded"}
      /\ StatusOf(s)' = "waiting" <=> IsWaiting(s)'
    <2>1. ~HasEdge(s)'
        BY <1>2, <1>3 DEF HasEdge
    <2> QED BY <1>1, <2>1 DEF StatusOf
<1>9. ASSUME NEW x \in Spans, x # s,
             InTable(x) => InTable(x)' \/ (emit'[w] # None /\ x \in Ends(emit'[w]))
      PROVE  StatusOf(x)' = StatusOf(x)
    <2>1. InTable(x)' => InTable(x)
        BY <1>9 DEF Arrived
    <2>2. emit'[w] # None /\ x \in Ends(emit'[w]) => InTable(x)
        BY <1>9 DEF Arrived
    <2>3. IsWaiting(x)' <=> IsWaiting(x)
        BY <1>1, <1>4, <1>9, <2>1, <2>2 DEF IsWaiting
    <2> QED BY <1>1, <1>3, <1>9, <2>3 DEF StatusOf
<1>10. ASSUME NEW x \in Spans, x # s, InTable(x)
       PROVE  Status[x] = "waiting"
    <2>1. StatusOf(x) = "waiting"
        BY <1>5, <1>10 DEF StatusOf, IsWaiting
    <2> QED BY <2>1, StatusIs
<1>11. ASSUME NEW x \in Spans, x # s, InTable(x), ~InTable(x)',
              ~(emit'[w] # None /\ x \in Ends(emit'[w]))
       PROVE  StatusOf(x)' = "discarded"
    <2>1. x \in seen' /\ ~HasEdge(x)' /\ ~IsWaiting(x)'
        BY <1>1, <1>3, <1>4, <1>5, <1>11 DEF IsWaiting
    <2> QED BY <2>1 DEF StatusOf
<1> QED BY <1>6, <1>7, <1>8, <1>9, <1>10, <1>11

(* An arrival that displaces nothing. *)
LEMMA LedgerAlone ==
    ASSUME NEW s \in Spans, Status[s] = "unseen",
           StatusOf(s)' = "waiting" \/ (StatusOf(s)' = "discarded" /\ s \notin Kept),
           \A x \in Spans : x # s => StatusOf(x)' = StatusOf(x)
    PROVE  Ledger!Next
<1>1. Status' = [Status EXCEPT ![s] = StatusOf(s)']
    BY StatusChange
<1>2. CASE StatusOf(s)' = "waiting"
    <2>1. Status' = [Status EXCEPT ![s] = "waiting"]
        BY <1>1, <1>2
    <2>2. Ledger!Arrive(s)
        BY <2>1 DEF Ledger!Arrive
    <2> QED BY <2>2 DEF Ledger!Next
<1>3. CASE StatusOf(s)' = "discarded" /\ s \notin Kept
    <2>1. Status' = [Status EXCEPT ![s] = "discarded"]
        BY <1>1, <1>3
    <2>2. Ledger!Ignore(s)
        BY <1>3, <2>1 DEF Ledger!Ignore, Ledger!Kept, Kept
    <2> QED BY <2>2 DEF Ledger!Next
<1> QED BY <1>2, <1>3

LEMMA LedgerObserve ==
    ASSUME IInv, NEW w \in Workers, NEW s \in Spans, observe(w, s)
    PROVE  Ledger!Next
<1>1. NextSpan(w, s) /\ \A v \in Workers : v # w => emit'[v] = emit[v]
    BY DEF observe, observeInternal, Match, Hold, Overflow, EnterHere, NextSpan, IInv, Typed, TypeOK
<1>2. CASE observeInternal(w, s)
    <2>1. Arrived(w, s) /\ s \notin Kept /\ emit' = emit /\ emit[w] = None
        BY <1>2, ConstantsAssumption
        DEF observeInternal, NextSpan, Arrived, InTable, Kept, Clients, Entries
    <2>2. \A x : InTable(x)' <=> InTable(x)
        BY <1>2 DEF observeInternal, InTable
    <2>3. Status[s] = "unseen" /\ StatusOf(s)' \in {"waiting", "discarded"}
        BY <1>1, <2>1, LedgerArrive
    <2>4. \A x \in Spans : x # s => StatusOf(x)' = StatusOf(x)
        BY <1>1, <2>1, <2>2, LedgerArrive
    <2> QED BY <2>1, <2>3, <2>4, LedgerAlone
<1>3. CASE Match(w, s)
    <2>1. /\ Arrived(w, s) /\ emit'[w] # None /\ s \in Ends(emit'[w])
          /\ \A x \in Spans : InTable(x) => InTable(x)' \/ x \in Ends(emit'[w])
        BY <1>3, ArriveMatch
    <2>2. Status[s] = "unseen" /\ StatusOf(s)' = "waiting"
        BY <1>1, <2>1, LedgerArrive
    <2>3. \A x \in Spans : x # s => StatusOf(x)' = StatusOf(x)
        BY <1>1, <2>1, LedgerArrive
    <2> QED BY <2>2, <2>3, LedgerAlone
<1>4. CASE Hold(w, s) \/ Overflow(w, s)
    <2>1. Arrived(w, s) /\ (emit'[w] # None => Ends(emit'[w]) = {s})
        BY <1>4, ArriveUnpaired
    <2>2. PICK o : /\ Displaced(o, s)
                   /\ \A x \in Spans : InTable(x) => InTable(x)' \/ x = o
        BY <1>4, ArriveUnpaired
    <2>3. /\ Status[s] = "unseen"
          /\ StatusOf(s)' = "waiting" \/ (StatusOf(s)' = "discarded" /\ s \notin Kept)
        BY <1>1, <2>1, LedgerArrive DEF Arrived
    <2>4. \A x \in Spans : x # s /\ x # o => StatusOf(x)' = StatusOf(x)
        BY <1>1, <2>1, <2>2, LedgerArrive
    <2>5. CASE o = None
        <3>1. \A x \in Spans : x # s => StatusOf(x)' = StatusOf(x)
            BY <2>4, <2>5, ConstantsAssumption
        <3> QED BY <2>3, <3>1, LedgerAlone
    <2>6. CASE o # None
        <3>1. /\ o \in Spans /\ o # s /\ o.key = s.key
              /\ {s, o} \subseteq Clients \/ {s, o} \subseteq Servers
              /\ InTable(o) /\ ~InTable(o)'
            BY <2>2, <2>6 DEF Displaced
        <3>2. Status[o] = "waiting" /\ StatusOf(o)' = "discarded"
            <4>1. ~(emit'[w] # None /\ o \in Ends(emit'[w]))
                BY <2>1, <3>1
            <4> QED BY <1>1, <2>1, <3>1, <4>1, LedgerArrive
        <3>3. Status' = [Status EXCEPT ![s] = StatusOf(s)', ![o] = StatusOf(o)']
            BY <2>4, <3>1, StatusChange
        <3>4. PICK v \in {"waiting", "discarded"} : v = StatusOf(s)' /\ (v = "discarded" => s \notin Kept)
            BY <2>3
        <3>5. Status' = [Status EXCEPT ![s] = v, ![o] = "discarded"]
            BY <3>2, <3>3, <3>4
        <3>6. [x \in Spans |-> x.key][s] = [x \in Spans |-> x.key][o]
            BY <3>1
        <3>7. Ledger!Displace(s, o)
            BY <2>3, <3>1, <3>2, <3>4, <3>5, <3>6 DEF Ledger!Displace, Ledger!Kept, Kept
        <3> QED BY <3>1, <3>7 DEF Ledger!Next
    <2> QED BY <2>5, <2>6
<1>5. CASE EnterHere(w, s)
    <2>1. emit'[w] = Entry(s) /\ s \in Entries /\ s \notin seen
        BY <1>5 DEF EnterHere, NextSpan, IInv, Typed, TypeOK
    <2>2. \A x : InTable(x)' <=> InTable(x)
        BY <1>5 DEF EnterHere, InTable
    <2>3. ~InTable(s)
        BY <2>1, FreshFacts, ConstantsAssumption
    <2>4. Arrived(w, s)
        BY <2>1, <2>2, <2>3, SpanKinds, EdgeFacts DEF Arrived, Kept
    <2>5. Status[s] = "unseen" /\ StatusOf(s)' = "waiting"
        BY <1>1, <2>1, <2>4, LedgerArrive, EdgeFacts
    <2>6. \A x \in Spans : x # s => StatusOf(x)' = StatusOf(x)
        BY <1>1, <2>2, <2>4, LedgerArrive
    <2> QED BY <2>5, <2>6, LedgerAlone
<1> QED BY <1>2, <1>3, <1>4, <1>5 DEF observe

(* Recording an edge counts the spans it is made of. *)
LEMMA LedgerRecord ==
    ASSUME IInv, NEW e \in Edges, Recorded' = Recorded \cup {e}, OneCall(e), seen' = seen,
           \A x \in Ends(e) : x \in seen /\ Status[x] = "waiting",
           \A x \in Spans : x \notin Ends(e) => (IsWaiting(x)' <=> IsWaiting(x))
    PROVE  Ledger!Next
<1>1. \A x : HasEdge(x)' <=> HasEdge(x) \/ x \in Ends(e)
    BY DEF HasEdge, Ends
<1>2. \A x \in Spans : x \notin Ends(e) => StatusOf(x)' = StatusOf(x)
    BY <1>1 DEF StatusOf
<1>3. \A x \in Ends(e) : StatusOf(x)' = "counted"
    BY <1>1 DEF StatusOf
<1>4. \A s \in Spans : s # None
    BY ConstantsAssumption
<1>5. ASSUME NEW s \in Kept, Ends(e) = {s}
      PROVE  Ledger!Next
    <2>1. s \in Spans
        BY SpanKinds DEF Kept
    <2>2. Status' = [Status EXCEPT ![s] = StatusOf(s)']
        BY <1>2, <1>5, <2>1, StatusChange
    <2>3. Status' = [Status EXCEPT ![s] = "counted"]
        BY <1>3, <1>5, <2>2
    <2>4. Ledger!CountOne(s)
        BY <1>5, <2>3 DEF Ledger!CountOne, Ledger!Kept, Kept
    <2> QED BY <2>1, <2>4 DEF Ledger!Next
<1>6. CASE e \in [from : Clients, to : Servers]
    <2>1. PICK c \in Clients, v \in Servers : e = Pair(c, v)
        BY <1>6 DEF Pair
    <2>2. Ends(e) = {c, v} /\ c \in Spans /\ v \in Spans /\ c # v
        BY <2>1, EdgeFacts, SpanKinds
    <2>3. c.key = v.key
        BY <1>4, <2>1, <2>2 DEF OneCall, Pair
    <2>4. Status' = [Status EXCEPT ![c] = StatusOf(c)', ![v] = StatusOf(v)']
        BY <1>2, <2>2, StatusChange
    <2>5. Status' = [Status EXCEPT ![c] = "counted", ![v] = "counted"]
        BY <1>3, <2>2, <2>4
    <2>6. [x \in Spans |-> x.key][c] = [x \in Spans |-> x.key][v]
        BY <2>2, <2>3
    <2>7. Ledger!CountPair(c, v)
        BY <2>2, <2>5, <2>6 DEF Ledger!CountPair
    <2> QED BY <2>2, <2>7 DEF Ledger!Next
<1>7. CASE e \in [from : Clients \cap Named, to : {None}]
    <2>1. PICK c \in Clients \cap Named : e = Inferred(c)
        BY <1>7 DEF Inferred
    <2>2. Ends(e) = {c} /\ c \in Kept
        BY <2>1, EdgeFacts DEF Kept
    <2> QED BY <1>5, <2>2
<1>8. CASE e \in [from : {None}, to : Entries]
    <2>1. PICK v \in Entries : e = Entry(v)
        BY <1>8 DEF Entry
    <2>2. Ends(e) = {v} /\ v \in Kept
        BY <2>1, EdgeFacts DEF Kept
    <2> QED BY <1>5, <2>2
<1> QED BY <1>6, <1>7, <1>8 DEF Edges

LEMMA LedgerEmit ==
    ASSUME IInv, NEW w \in Workers, Emit(w)
    PROVE  Ledger!Next
<1>1. PICK e : e = emit[w]
    OBVIOUS
<1>2. /\ e # None /\ Recorded' = Recorded \cup {e} /\ e \in Edges
      /\ UNCHANGED <<cur, prev, dropped, seen>>
      /\ emit'[w] = None /\ \A v \in Workers : v # w => emit'[v] = emit[v]
    BY <1>1 DEF Emit, record, Recorded, IInv, Typed, TypeOK
<1>3. OneCall(e)
    BY <1>1, <1>2 DEF IInv, EmitInv
<1>4. \A x \in Ends(e) : x \in seen /\ Status[x] = "waiting"
    <2> SUFFICES ASSUME NEW x \in Ends(e) PROVE x \in seen /\ Status[x] = "waiting"
        OBVIOUS
    <2>1. x \in seen /\ x \in Spans
        BY <1>1, <1>2 DEF IInv, EmitInv, Out, Typed, TypeOK
    <2>2. ~HasEdge(x)
        BY <1>1, <1>2 DEF HasEdge, IInv, RecordedInv
    <2>3. IsWaiting(x)
        BY <1>1, <1>2 DEF IsWaiting, Carried
    <2> QED BY <2>1, <2>2, <2>3, StatusIs DEF StatusOf
<1>5. \A x \in Spans : x \notin Ends(e) => (IsWaiting(x)' <=> IsWaiting(x))
    <2>1. \A x : x \notin Ends(e) => (Carried(x)' <=> Carried(x))
        BY <1>1, <1>2 DEF Carried, Ends
    <2> QED BY <1>2, <2>1 DEF IsWaiting, InTable
<1> QED BY <1>2, <1>3, <1>4, <1>5, LedgerRecord

LEMMA LedgerEvict ==
    ASSUME IInv, NEW s \in Spans, Evict(s)
    PROVE  Ledger!Next
<1>1. /\ s \in dropped /\ dropped' = dropped \ {s}
      /\ UNCHANGED <<cur, prev, emit, seen>>
    BY DEF Evict
<1>2. s \in seen \cap (Clients \cup Servers) /\ ~InTable(s) /\ ~HasEdge(s) /\ ~Carried(s)
    BY <1>1 DEF IInv, DroppedInv, EmitInv, RecordedInv, Out, HasEdge, Carried
<1>3. Status[s] = "waiting"
    BY <1>1, <1>2, StatusIs DEF StatusOf, IsWaiting
<1>4. \A x : /\ InTable(x)' <=> InTable(x)
             /\ Carried(x)' <=> Carried(x)
    BY <1>1 DEF InTable, Carried, Ends
<1>5. \A x \in Spans : x # s => (IsWaiting(x)' <=> IsWaiting(x))
    BY <1>1, <1>4 DEF IsWaiting
<1>6. CASE s \in Clients \cap Named
    <2>1. PICK e : e = Inferred(s)
        OBVIOUS
    <2>2. Recorded' = Recorded \cup {e} /\ Ends(e) = {s} /\ OneCall(e) /\ e \in Edges
        BY <1>6, <2>1, EdgeFacts DEF Evict, record, Recorded, Inferred, Edges
    <2>3. \A x \in Ends(e) : x \in seen /\ Status[x] = "waiting"
        BY <1>2, <1>3, <2>2
    <2>4. \A x \in Spans : x \notin Ends(e) => (IsWaiting(x)' <=> IsWaiting(x))
        BY <1>5, <2>2
    <2> QED BY <1>1, <2>2, <2>3, <2>4, LedgerRecord
<1>7. CASE s \notin Clients \cap Named
    <2>1. Recorded' = Recorded
        BY <1>7 DEF Evict, Recorded
    <2>2. \A x : HasEdge(x)' <=> HasEdge(x)
        BY <2>1 DEF HasEdge, Ends
    <2>3. StatusOf(s)' = "discarded"
        BY <1>1, <1>2, <1>4, <2>2 DEF StatusOf, IsWaiting
    <2>4. \A x \in Spans : x # s => StatusOf(x)' = StatusOf(x)
        BY <1>1, <1>5, <2>2 DEF StatusOf
    <2>5. Status' = [Status EXCEPT ![s] = StatusOf(s)']
        BY <2>4, StatusChange
    <2>6. Status' = [Status EXCEPT ![s] = "discarded"]
        BY <2>3, <2>5
    <2>7. s \notin Kept
        BY <1>2, <1>7, ConstantsAssumption DEF Kept, Clients, Servers, Entries
    <2>8. Ledger!Expire(s)
        BY <1>3, <2>6, <2>7 DEF Ledger!Expire, Ledger!Kept, Kept
    <2> QED BY <2>8 DEF Ledger!Next
<1> QED BY <1>6, <1>7

(* Steps that move spans within the table and the rotation, edges towards  *)
(* the sink, or nothing.                                                   *)
LEMMA LedgerSame ==
    ASSUME seen' = seen, Recorded' = Recorded,
           \A x \in Spans : IsWaiting(x)' <=> IsWaiting(x)
    PROVE  Status' = Status
<1>1. \A x : HasEdge(x)' <=> HasEdge(x)
    BY DEF HasEdge, Ends
<1>2. \A x \in Spans : StatusOf(x)' = StatusOf(x)
    BY <1>1 DEF StatusOf
<1> QED BY <1>2, StatusChange

LEMMA LedgerStep ==
    ASSUME IInv, [Next]_vars
    PROVE  Ledger!Next \/ Status' = Status
<1>0. ASSUME UNCHANGED <<cur, prev, emit, dropped, seen>>, Recorded' = Recorded
      PROVE  Status' = Status
    <2>1. \A x : IsWaiting(x)' <=> IsWaiting(x)
        BY <1>0 DEF IsWaiting, InTable, Carried, Ends
    <2> QED BY <1>0, <2>1, LedgerSame
<1>1. ASSUME NEW w \in Workers, NEW s \in Spans, observe(w, s)
      PROVE  Ledger!Next
    BY <1>1, LedgerObserve
<1>2. ASSUME NEW w \in Workers, Emit(w)
      PROVE  Ledger!Next
    BY <1>2, LedgerEmit
<1>3. CASE RotateShard
    <2>1. PICK sh : sh = loop.shard
        OBVIOUS
    <2>2. /\ prev' = [k \in Keys |-> IF ShardOf[k] = sh THEN cur[k] ELSE prev[k]]
          /\ cur' = [k \in Keys |-> IF ShardOf[k] = sh THEN None ELSE cur[k]]
          /\ dropped = {}
          /\ dropped' = {prev[k] : k \in HeldIn(prev, sh)}
          /\ UNCHANGED <<emit, seen>> /\ Recorded' = Recorded
        BY <1>3, <2>1 DEF RotateShard, PrevRotated, Discarded, history, Recorded
    <2>3. ASSUME NEW x \in Spans
          PROVE  IsWaiting(x)' <=> IsWaiting(x)
        <3>1. x # None
            BY ConstantsAssumption
        <3>2. InTable(x)' \/ x \in dropped' => InTable(x)
            BY <2>2, <3>1 DEF InTable, HeldIn
        <3>3. InTable(x) => InTable(x)' \/ x \in dropped'
            <4> SUFFICES ASSUME NEW k \in Keys, cur[k] = x \/ prev[k] = x
                         PROVE  InTable(x)' \/ x \in dropped'
                BY DEF InTable
            <4>1. CASE ShardOf[k] = sh /\ prev[k] = x
                BY <2>2, <3>1, <4>1 DEF HeldIn
            <4>2. CASE ShardOf[k] = sh /\ cur[k] = x
                BY <2>2, <4>2 DEF InTable
            <4>3. CASE ShardOf[k] # sh
                BY <2>2, <4>3 DEF InTable
            <4> QED BY <4>1, <4>2, <4>3
        <3>4. Carried(x)' <=> Carried(x)
            BY <2>2 DEF Carried, Ends
        <3> QED BY <2>2, <3>2, <3>3, <3>4 DEF IsWaiting
    <2> QED BY <2>2, <2>3, LedgerSame
<1>4. CASE RotateTick \/ LastRotate \/ FlushTick \/ RotateDone \/ Stop \/ Cancel
    BY <1>0, <1>4
    DEF RotateTick, LastRotate, BeginRotate, FlushTick, RotateDone, Stop, Cancel, history, Recorded
<1>5. ASSUME NEW s \in Spans, Evict(s)
      PROVE  Ledger!Next
    BY <1>5, LedgerEvict
<1>6. CASE FlushSwap
    <2>1. writing = {}
        BY <1>6 DEF FlushSwap, IInv, Typed
    <2>2. Recorded' = Recorded
        BY <1>6, <2>1 DEF FlushSwap, Recorded
    <2> QED BY <1>0, <1>6, <2>2 DEF FlushSwap
<1>7. ASSUME NEW ok \in BOOLEAN, WriteEdges(ok)
      PROVE  Status' = Status
    <2>1. Recorded' = Recorded
        BY <1>7 DEF WriteEdges, Recorded
    <2> QED BY <1>0, <1>7, <2>1 DEF WriteEdges
<1>8. CASE UNCHANGED vars
    BY <1>0, <1>8 DEF vars, Recorded
<1> QED BY <1>1, <1>2, <1>3, <1>4, <1>5, <1>6, <1>7, <1>8 DEF Next, Loop

(* The builder refines the ledger: whatever the generations, the shards,   *)
(* the goroutines and the timers do, a span is counted once, discarded     *)
(* only if the ledger lets it, and neither is ever revised.                *)
THEOREM ImplementsLedger == Spec => LedgerSpec
<1>1. Init => Ledger!Init
    <2> SUFFICES ASSUME Init PROVE Ledger!Init
        OBVIOUS
    <2>1. \A x \in Spans : StatusOf(x) = "unseen"
        BY DEF Init, StatusOf
    <2>2. \A x \in Spans : Status[x] = "unseen"
        BY <2>1, StatusIs
    <2>3. Status = [x \in Spans |-> "unseen"]
        BY <2>2, StatusIs
    <2> QED BY <2>3 DEF Ledger!Init
<1>2. IInv /\ [Next]_vars => [Ledger!Next]_Status
    BY LedgerStep
<1> QED BY <1>1, <1>2, Invariance, PTL DEF Spec, LedgerSpec, Ledger!Spec

=============================================================================
