------------------------------- MODULE Traces -------------------------------
(***************************************************************************)
(* A trace in ClickHouse and in the trace views: Store.Process of          *)
(* internal/storage/clickhouse/store.go, the trace_index table and its     *)
(* materialized view in schema.go, handleTraceSearch and handleTraceDetail *)
(* of internal/api/server.go.                                              *)
(*                                                                         *)
(* The spans of a trace arrive in blocks, as the services that made them   *)
(* export them.  Each block leaves one row in the index; ClickHouse merges *)
(* rows of the same trace when it likes, if they are of the same day.  The *)
(* search filters rows and then groups what is left by trace.              *)
(***************************************************************************)
EXTENDS Naturals, Sums

CONSTANTS Traces,       \* what a trace may be: sets of spans
          Filters,      \* searches
          Scopes,       \* sets of services, what a user may see
          MaxBlocks,    \* bound: blocks in which a trace arrives
          MaxHotspots,  \* rows of the hotspot list (10 in the code)
          Pad,          \* what the detail adds to the trace's range (a minute)
          Day,          \* the length of a day
          Everything    \* the scope of a super administrator

(* A span; parent is 0 for a root.  Names and services are numbers, with   *)
(* the order strings have, and 0 is the empty string.                      *)
IsSpan(s) ==
    /\ {s.id, s.name, s.service} \subseteq Nat \ {0}
    /\ {s.parent, s.start, s.end} \subseteq Nat
    /\ s.kind \in {"internal", "server", "client", "producer", "consumer"}
    /\ s.db \in BOOLEAN /\ s.messaging \in BOOLEAN /\ s.error \in BOOLEAN

(* The spans of one trace: identifiers are its own, and it has one root.   *)
IsTrace(T) ==
    /\ IsFiniteSet(T) /\ \A s \in T : IsSpan(s)
    /\ \A r, s \in T : r.id = s.id \/ (r.parent = 0 /\ s.parent = 0) => r = s

IsFilter(f) == {f.service, f.min} \subseteq Nat /\ f.errors \in BOOLEAN

ASSUME TracesAssumption ==
    /\ \A T \in Traces : IsTrace(T)
    /\ \A f \in Filters : IsFilter(f)
    /\ {MaxBlocks, MaxHotspots, Pad} \subseteq Nat /\ Day \in Nat \ {0}

VARIABLES
    spans,   \* the spans of the trace
    stored,  \* those in the spans table
    index    \* the trace's rows in trace_index

traceVars == <<spans, stored, index>>

InitT ==
    /\ spans \in Traces
    /\ stored = {}
    /\ index = {}

(* convertSpan: a clock that went back gives no duration. *)
Duration(s) == IF s.end > s.start THEN s.end - s.start ELSE 0

-----------------------------------------------------------------------------
(* trace_index *)

(* Of the root, if the block has it. *)
OfRoot(B, f(_)) == Max({f(s) : s \in {r \in B : r.parent = 0}} \cup {0})

(* trace_index_mv: the row of a block.  blocks is not a column: it tells   *)
(* which blocks a row stands for.                                          *)
RowOf(B) ==
    [start    |-> Min({s.start : s \in B}),
     end      |-> Max({s.start : s \in B}),
     root     |-> OfRoot(B, LAMBDA s : s.service),
     name     |-> OfRoot(B, LAMBDA s : s.name),
     duration |-> OfRoot(B, Duration),
     spans    |-> Cardinality(B),
     errors   |-> Cardinality({s \in B : s.error}),
     services |-> {s.service : s \in B},
     blocks   |-> {B}]

(* The columns of a row. *)
Columns(r) ==
    << r.start, r.end, r.root, r.name, r.duration, r.spans, r.errors, r.services >>

SumOf(R, f(_)) == SumOver([x \in R |-> f(x)], R)

Combined(R, name) ==
    [start    |-> Min({r.start : r \in R}),
     end      |-> Max({r.end : r \in R}),
     root     |-> Max({r.root : r \in R}),
     name     |-> name,
     duration |-> Max({r.duration : r \in R}),
     spans    |-> SumOf(R, LAMBDA r : r.spans),
     errors   |-> SumOf(R, LAMBDA r : r.errors),
     services |-> UNION {r.services : r \in R},
     blocks   |-> UNION {r.blocks : r \in R}]

(* mutant: the name comes from any row, with or without the root *)
CombineAny(R) == Combined(R, (CHOOSE r \in R : TRUE).name)
(* Rows become one by their columns' functions, in a merge and in a query. *)
Combine(R)    == Combined(R, Max({r.name : r \in R}))

(* Process: a batch of spans. *)
Insert(B) ==
    /\ B \subseteq spans \ stored
    /\ B # {}
    /\ Cardinality(UNION {r.blocks : r \in index}) < MaxBlocks
    /\ stored' = stored \cup B
    /\ index' = index \cup {RowOf(B)}
    /\ UNCHANGED spans

(* Outside: ClickHouse merges two rows of a partition, toDate(start). *)
Merge(a, b) ==
    /\ a # b
    /\ a.start \div Day = b.start \div Day
    /\ index' = (index \ {a, b}) \cup {Combine({a, b})}
    /\ UNCHANGED <<spans, stored>>

NextT ==
    \/ \E B \in SUBSET spans : Insert(B)
    \/ \E a, b \in index : Merge(a, b)

SpecT == InitT /\ [][NextT]_traceVars

-----------------------------------------------------------------------------
(* handleTraceSearch, over a range of time the whole trace is in *)

InScope(scope, services) == scope = Everything \/ scope \cap services # {}

Matches(f, r) ==
    /\ f.service # 0 => f.service \in r.services
    /\ r.duration >= f.min
    /\ f.errors => r.errors > 0
    /\ InScope(f.scope, r.services)

Grouped(R) == IF R = {} THEN {} ELSE {Combine(R)}

(* The rows of the answer. *)
Search(f) == Grouped({r \in index : Matches(f, r)})

(* A search shows a trace only if the trace as a whole passes its filter,  *)
(* and never more of it than is stored; the root's name and service, once  *)
(* shown, are right.  Without a filter, or once the index has one row, it  *)
(* shows the trace exactly, however its spans were spread over blocks and  *)
(* whatever has been merged.                                               *)
SearchFaithful ==
    stored # {} =>
        \A f \in Filters :
            LET whole == RowOf(stored)
            IN  /\ \A found \in Search(f) :
                     /\ Matches(f, whole)
                     /\ found.spans <= whole.spans /\ found.errors <= whole.errors
                     /\ found.services \subseteq whole.services
                     /\ <<found.root, found.name>> \in {<<0, 0>>, <<whole.root, whole.name>>}
                /\ (f.service = 0 /\ f.min = 0 /\ ~f.errors /\ f.scope = Everything)
                   \/ Cardinality(index) = 1 =>
                     {Columns(r) : r \in Search(f)}
                       = IF Matches(f, whole) THEN {Columns(whole)} ELSE {}

-----------------------------------------------------------------------------
(* handleTraceDetail *)

(* The spans shown: those in the range of the index rows in scope. *)
Shown(scope) ==
    LET R == {r \in index : InScope(scope, r.services)}
    IN  IF R = {} THEN {}
        ELSE LET row == Combine(R)
             IN  {s \in stored : s.start + Pad >= row.start /\ s.start <= row.end + Pad}

Children(s, V) == {c \in V : c.parent = s.id}

(* mutant: taken row by row, before the children's rows have come *)
SelfSoFar(s, V) ==
    LET children == SumOf({c \in Children(s, V) : c.start < s.start}, Duration)
    IN  IF children < Duration(s) THEN Duration(s) - children ELSE 0
(* The time a span does not spend in its children, which may overlap. *)
Self(s, V) ==
    LET children == SumOf(Children(s, V), Duration)
    IN  IF children < Duration(s) THEN Duration(s) - children ELSE 0

categoryOf(s) ==
    CASE s.db -> "database"
      [] ~s.db /\ s.messaging -> "messaging"
      [] ~s.db /\ ~s.messaging /\ s.kind \in {"client", "producer"} -> "outbound"
      [] OTHER -> "code"

(* The self time of each group. *)
SelfBy(V, key(_)) ==
    [k \in {key(s) : s \in V} |-> SumOf({s \in V : key(s) = k}, LAMBDA s : Self(s, V))]

buildBreakdown(V) == <<SelfBy(V, categoryOf), SelfBy(V, LAMBDA s : s.service)>>

HotspotGroups(V) == SelfBy(V, LAMBDA s : <<s.service, s.name>>)

(* buildHotspots: the groups of the longest self time; any, of equal ones. *)
Hotspots(V) ==
    LET groups == HotspotGroups(V)
    IN  CHOOSE H \in SUBSET DOMAIN groups :
            /\ Cardinality(H) = Min({MaxHotspots, Cardinality(DOMAIN groups)})
            /\ \A h \in H, g \in DOMAIN groups \ H : groups[h] >= groups[g]

Total(slices) == SumOver(slices, DOMAIN slices)

(* Every child runs inside its parent, and no two of one parent at once.   *)
Sequential(V) ==
    /\ \E r \in V : r.parent = 0 /\ \A s \in V \ {r} : \E p \in V \ {s} : s \in Children(p, V)
    /\ \A p \in V : \A c \in Children(p, V) :
          /\ p.start <= c.start /\ c.start <= c.end /\ c.end <= p.end
          /\ \A d \in Children(p, V) \ {c} : c.end <= d.start \/ d.end <= c.start

(* The breakdowns by category and by service account for the same time,    *)
(* and the hotspots for no more of it; and of a trace that is there as a   *)
(* whole and ran one step at a time they account for exactly the root's    *)
(* duration, whatever the order of its rows.                               *)
ViewAddsUp ==
    \A scope \in Scopes \cup {Everything} :
        LET V     == Shown(scope)
            views == buildBreakdown(V)
            total == Total(views[1])
            hot   == HotspotGroups(V)
        IN  /\ Total(views[2]) = total
            /\ LET listed == SumOver(hot, Hotspots(V))
               IN  listed <= total
                   /\ (Cardinality(DOMAIN hot) <= MaxHotspots => listed = total)
            /\ V = spans /\ Sequential(V) =>
                 \E r \in V : r.parent = 0 /\ total = Duration(r)
=============================================================================
