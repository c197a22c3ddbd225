----------------------------- MODULE MCTopology -----------------------------
(***************************************************************************)
(* Small instances of Topology for TLC.                                    *)
(***************************************************************************)
EXTENDS TopologyView, TLC

CONSTANTS w1, w2, k1, k2

MCWorkers == {w1, w2}
MCKeys == {k1, k2}

(* Both keys in one shard, and one key per shard. *)
OneShard  == [k \in MCKeys |-> 0]
TwoShards == [k \in MCKeys |-> IF k = k1 THEN 0 ELSE 1]

MCBounds == <<1, 4>>

Span(id, kind, key, svc, peer, conn, dur, err) ==
    [id |-> id, kind |-> kind, key |-> key, svc |-> svc, peer |-> peer,
     conn |-> conn, dur |-> dur, err |-> err]

Shop(id, key, peer, err) == Span(id, "client", key, "shop", peer, "database", 5, err)
Orders(id, key, dur) == Span(id, "server", key, "orders", NoPeer, "external", dur, dur > 2)

(* Call k1 is seen from both ends, its client span twice (an exporter that *)
(* retried); call k2 from both ends, with a target that has no name.       *)
RetrySpans == {
    Shop(1, k1, "db:orders", FALSE), Orders(2, k1, 3), Shop(3, k1, "db:orders", FALSE),
    Shop(4, k2, NoPeer, FALSE), Orders(5, k2, 1) }

(* Two calls with the same target, one whose server reports no latency, a  *)
(* request from outside, and spans the builder has no use for.             *)
MixedSpans == {
    Shop(1, k1, "db:orders", FALSE), Orders(2, k1, 0),
    Shop(3, k2, "db:orders", TRUE),
    Span(4, "server", NoKey, "shop", NoPeer, "external", 4, FALSE),
    Span(5, "internal", k1, "shop", NoPeer, "external", 1, FALSE) }

(* Both services run in one namespace; the database does not. *)
MCPlaced == "shop" :> <<"prod", "shop">> @@ "orders" :> <<"prod", "orders-v2">>
MCViews == {{"shop", "orders"}, {"orders"}}

WorkerSymmetry == Permutations(MCWorkers)
=============================================================================
