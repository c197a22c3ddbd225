---------------------------- MODULE TopologyView ----------------------------
(***************************************************************************)
(* The service graph the API answers with, handleTopology of               *)
(* internal/api/server.go, over the edges the topology builder hands to    *)
(* WriteEdges.  ClickHouse adds up the rows of an edge whenever it merges  *)
(* them; the query adds up what is left, by the level asked for.           *)
(***************************************************************************)
EXTENDS Topology

CONSTANTS Placed,  \* Placed[s]: the namespace and workload of service s, for those
                   \* that run in Kubernetes
          Views    \* the services of the scopes to ask with

Levels    == {"service", "workload", "namespace"}
Quantiles == {95, 99}

(* groupExprs: an end with no place in Kubernetes keeps its own name. *)
LabelAt(level, x) ==
    IF x \in DOMAIN Placed /\ level # "service"
    THEN IF level = "workload" THEN Placed[x] ELSE <<Placed[x][1]>>
    ELSE <<x>>

(* filterTopology: either end is in scope. *)
Visible(scope, k) == {k[1], k[2]} \cap scope # {}

Grouping(level, k) == <<LabelAt(level, k[1]), LabelAt(level, k[2]), k[3]>>

Column(rows, f, K) == SumOver([k \in K |-> rows[k][f]], K)

Added(rows, K) ==
    [calls   |-> Column(rows, "calls", K),
     errors  |-> Column(rows, "errors", K),
     sum     |-> Column(rows, "sum", K),
     max     |-> Max({rows[k].max : k \in K}),
     buckets |-> [i \in 1 .. BucketCount |-> SumOver([k \in K |-> rows[k].buckets[i]], K)]]

(* The edges of the graph: GROUP BY src, dst, conn_type. *)
GraphEdges(rows, level, scope) ==
    LET visible == {k \in DOMAIN rows : Visible(scope, k)}
    IN  [g \in {Grouping(level, k) : k \in visible} |->
            Added(rows, {k \in visible : Grouping(level, k) = g})]

(* upsertNode: every end is a node, and has the calls of the edges into it. *)
GraphNodes(edges) ==
    [n \in UNION {{g[1], g[2]} : g \in DOMAIN edges} |->
        LET into == {g \in DOMAIN edges : g[2] = n}
        IN  [calls  |-> Column(edges, "calls", into),
             errors |-> Column(edges, "errors", into)]]

UpTo(counts, i) == SumOver(counts, 1 .. i)

(* mutant: the bucket itself is counted as before it *)
PrevAfter(counts, i) == UpTo(counts, i)
(* The calls in the buckets before the i-th. *)
Prev(counts, i)      == UpTo(counts, i - 1)

(* histogramQuantile, as a fraction; q in percent, so that the counts are  *)
(* hundredfold.  The last bucket has only a lower bound to give.           *)
histogramQuantile(counts, q) ==
    LET target == q * UpTo(counts, BucketCount)
        first  == {i \in 1 .. BucketCount : 100 * UpTo(counts, i) >= target}
        i      == Min(first \cup {BucketCount})
        lower  == IF i = 1 THEN 0 ELSE LatencyBounds[i - 1]
    IN  IF target = 0 THEN <<0, 1>>
        ELSE IF i = BucketCount THEN <<LatencyBounds[BucketCount - 1], 1>>
        ELSE << lower * 100 * counts[i]
                  + (LatencyBounds[i] - lower) * (target - 100 * Prev(counts, i)),
                100 * counts[i] >>

-----------------------------------------------------------------------------
(* The calls behind an edge of the graph, and the latency that q percent   *)
(* of them do not exceed.                                                  *)
Behind(level, scope, g) ==
    {e \in writing : Visible(scope, EdgeKey(e)) /\ Grouping(level, EdgeKey(e)) = g}

TrueQuantile(E, q) ==
    LET within(d) == Cardinality({e \in E : EdgeDuration(e) <= d})
    IN  Min({d \in {EdgeDuration(e) : e \in E} : 100 * within(d) >= q * Cardinality(E)})

InBucket(x, i) ==
    IF i = BucketCount THEN x[1] = LatencyBounds[i - 1] * x[2]
    ELSE /\ x[1] <= LatencyBounds[i] * x[2]
         /\ i > 1 => x[1] >= LatencyBounds[i - 1] * x[2]

(* The graph drawn from the snapshot flush writes counts every call behind *)
(* it once, at every level and in every scope, on its edge and on the node *)
(* it goes to, and a quantile shown lies in the bucket the true one is in: *)
(* above the last bound, it is that bound.                                 *)
GraphFaithful ==
    \A level \in Levels, scope \in Views :
        LET edges == GraphEdges(out, level, scope)
            nodes == GraphNodes(edges)
        IN  /\ \A g \in DOMAIN edges :
                 LET E == Behind(level, scope, g)
                 IN  /\ edges[g].calls = Cardinality(E)
                     /\ edges[g].errors = Cardinality({e \in E : EdgeIsError(e)})
                     /\ \A q \in Quantiles :
                          InBucket(histogramQuantile(edges[g].buckets, q),
                                   bucketIndex(TrueQuantile(E, q)))
            /\ Column(nodes, "calls", DOMAIN nodes)
                 = Cardinality({e \in writing : Visible(scope, EdgeKey(e))})
=============================================================================
