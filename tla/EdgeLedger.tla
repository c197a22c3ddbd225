----------------------------- MODULE EdgeLedger -----------------------------
(***************************************************************************)
(* What the topology builder promises about each span, whatever the        *)
(* generations, shards, goroutines and timers that bring it about.         *)
(*                                                                         *)
(* A span that reaches the builder waits, is counted in exactly one edge,  *)
(* or is discarded; neither of the last two is ever revised.  A CLIENT     *)
(* span whose target can be named is discarded only when another CLIENT    *)
(* span with the same span ID takes its place, and an entry point never.   *)
(***************************************************************************)
CONSTANTS Spans,    \* the spans that may reach the builder
          Clients,  \* CLIENT and PRODUCER spans with a span ID
          Servers,  \* SERVER and CONSUMER spans with a parent
          Entries,  \* SERVER and CONSUMER spans without a parent
          Named,    \* the spans for which peerNameOf is not empty
          Key       \* Key[s]: the span ID of the call s is one end of

VARIABLE status     \* what has become of each span

Statuses == {"unseen", "waiting", "counted", "discarded"}

(* Spans that are never dropped without a successor. *)
Kept == (Clients \cap Named) \cup Entries

Init == status = [s \in Spans |-> "unseen"]

(* A span arrives and waits, either for its other end or for the edge it   *)
(* is about to be counted in.                                              *)
Arrive(s) ==
    /\ status[s] = "unseen"
    /\ status' = [status EXCEPT ![s] = "waiting"]

(* A span arrives that says nothing about the topology, or finds no room.  *)
Ignore(s) ==
    /\ status[s] = "unseen"
    /\ s \notin Kept
    /\ status' = [status EXCEPT ![s] = "discarded"]

(* A span arrives and displaces a waiting one: the same end of the same    *)
(* call, seen again.                                                       *)
Displace(s, t) ==
    /\ status[s] = "unseen"
    /\ status[t] = "waiting"
    /\ Key[s] = Key[t]
    /\ {s, t} \subseteq Clients \/ {s, t} \subseteq Servers
    /\ \E v \in {"waiting", "discarded"} :
         /\ v = "discarded" => s \notin Kept
         /\ status' = [status EXCEPT ![s] = v, ![t] = "discarded"]

(* A waiting span is given up without an edge. *)
Expire(s) ==
    /\ status[s] = "waiting"
    /\ s \notin Kept
    /\ status' = [status EXCEPT ![s] = "discarded"]

(* One edge is counted: for a call seen from both ends, or from one end. *)
CountPair(c, v) ==
    /\ status[c] = "waiting"
    /\ status[v] = "waiting"
    /\ c \in Clients
    /\ v \in Servers
    /\ Key[c] = Key[v]
    /\ status' = [status EXCEPT ![c] = "counted", ![v] = "counted"]

CountOne(s) ==
    /\ status[s] = "waiting"
    /\ s \in Kept
    /\ status' = [status EXCEPT ![s] = "counted"]

Next == \/ \E s \in Spans : Arrive(s) \/ Ignore(s) \/ Expire(s) \/ CountOne(s)
        \/ \E s, t \in Spans : Displace(s, t) \/ CountPair(s, t)

Spec == Init /\ [][Next]_status
=============================================================================
