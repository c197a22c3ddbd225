------------------------------- MODULE MCParts -------------------------------
(***************************************************************************)
(* Small instances of five parts that share no state, for TLC: each        *)
(* behaviour is one part's, and the others stay as they begin, so that the *)
(* states are those of one part or another and not of their product.       *)
(***************************************************************************)
EXTENDS AgentRegistry, AgentDumps, LoginLimiter, PodTelemetry, Traces

CONSTANTS u1, u2, s1, g1, g2, a1, a2, p1, p2, x1, x2, t1, t2, i1, i2, h1, h2, \* registry
          o1, o2,  \* captures
          k1, k2   \* attempts

CONSTANT Parts  \* the parts a run is about

VARIABLE part   \* the one a behaviour is about

-----------------------------------------------------------------------------
(* Projects and agents *)

MCMemberOf == u1 :> {g1} @@ u2 :> {g2} @@ s1 :> {}

SaveOf(p, A, G) == [kind |-> "save", project |-> p, apps |-> A, groups |-> G]
TokenOf(p, t)   == [kind |-> "token", project |-> p, token |-> t]

SaveRequests == {
    SaveOf(p1, {a1}, {g1}), SaveOf(p1, {a2}, {g2}), SaveOf(p1, {a1, a2}, {g1, g2}),
    SaveOf(p2, {a1}, {g2}) }
DropRequests == {
    [kind |-> "dropGroup", group |-> g1], [kind |-> "dropProject", project |-> p1],
    [kind |-> "newProject", project |-> p1] }
TokenRequests == { TokenOf(p1, t1), TokenOf(p2, t2), TokenOf(p1, None) }
Trigger(u) == [kind |-> "capture", user |-> u, instance |-> i1, service |-> a1]

MCRequests == SaveRequests \cup DropRequests \cup TokenRequests \cup {Trigger(u1), Trigger(s1)}

Runs(i, h, t, url) == [service |-> a1, instance |-> i, host |-> h, token |-> t, apiUrl |-> url]

(* No process reports; two report the same instance, of which one knows a  *)
(* token; two instances know a token each.                                 *)
NoReports == x1 :> Runs(i1, h1, t1, FALSE) @@ x2 :> Runs(i2, h1, t1, FALSE)
SameRow   == x1 :> Runs(i1, h1, t1, TRUE) @@ x2 :> Runs(i1, h2, None, TRUE)
TwoRows   == x1 :> Runs(i1, h1, t1, TRUE) @@ x2 :> Runs(i2, h2, t2, TRUE)

NoLists   == [p \in Projects |-> [apps |-> {}, groups |-> {}]]
BothHave  == [p \in Projects |-> [apps |-> {a1}, groups |-> {g1}]]
NoToken   == [p \in Projects |-> None]
OneToken  == p1 :> t1 @@ p2 :> None
TwoTokens == p1 :> t1 @@ p2 :> t2

Case(live, lists, made, reports, tokens) ==
    [live |-> live, lists |-> lists, made |-> made, proc |-> reports, token |-> tokens]

(* Three requests about projects; or two processes, a trigger and a request. *)
MCCases ==
    { Case(live, NoLists, made, NoReports, NoToken) :
        live \in {{p1, p2}, {p2}},
        made \in {R \in SUBSET (SaveRequests \cup DropRequests) : Cardinality(R) = 3} }
    \cup
    { Case({p1, p2}, BothHave, {r, Trigger(u1)}, x[1], x[2]) :
        r \in SaveRequests \cup DropRequests \cup TokenRequests,
        x \in {<<SameRow, TwoTokens>>, <<TwoRows, OneToken>>} }
    \cup
    { Case({p1, p2}, NoLists, {r, Trigger(s1)}, SameRow, OneToken) : r \in SaveRequests }

(* One process and nothing else. *)
OneProcess == { Case({p1}, NoLists, {}, [x \in Agents |-> Runs(i1, h1, t1, TRUE)], NoToken) }

-----------------------------------------------------------------------------
(* The agent's dump store *)

MCOps == {o1, o2}
MCKind == [o \in MCOps |-> IF o = o2 THEN "memory" ELSE "cpu"]
MCStops == {s1}

-----------------------------------------------------------------------------
(* Pods *)

PText(n, of) == [name |-> n, is |-> "text", value |-> of]
PodRef == [key |-> "k8s.pod.name", ref |-> "NABIZ_K8S_POD"]

(* What a container may set itself; the last one sets a variable twice. *)
UserEnvs == {
    <<>>, <<PText("OTEL_SERVICE_NAME", <<"mine">>)>>, <<PText("NABIZ_K8S_POD", <<"mine">>)>>,
    << PText("PATH", <<"x">>),
       [name |-> "OTEL_RESOURCE_ATTRIBUTES", is |-> "attrs", value |-> <<PodRef>>] >>,
    <<PText("PATH", <<"a">>), PText("PATH", <<"b">>)>> }

Runnable(n, e) == [name |-> <<n>>, env |-> e, mounts |-> <<>>]

(* Parts of names that look like hashes are among those people give. *)
Hash == <<"7d9f8b6c5d">>
MCHashlike == {"web", "api", "shop", "7d9f8b6c5d", "x2k9p"}
Workloads == {<<"web">>, <<"shop", "api">>, <<"shop">> \o Hash}

NameIn(w, owner) ==
    CASE owner = "Deployment" -> w \o Hash \o <<"x2k9p">>
      [] owner = "StatefulSet" -> w \o <<"0">>
      [] OTHER -> w

Submitted(w, owner, inject, container, service, containers) ==
    [name |-> NameIn(w, owner),
     generateName |-> IF owner = "Deployment" THEN w \o Hash ELSE <<>>,
     deployment |-> IF owner = "Deployment" THEN w ELSE <<>>,
     namespace |-> <<"prod">>, node |-> <<"n1">>, inject |-> inject, injected |-> FALSE,
     container |-> container, service |-> service, label |-> <<>>,
     volumes |-> <<>>, inits |-> <<>>, containers |-> containers]

MCPods ==
    { Submitted(w, owner, inject, container, service, <<Runnable("app", e)>> \o more) :
        w \in Workloads, owner \in {"Deployment", "StatefulSet", "none"}, inject \in BOOLEAN,
        container \in {<<>>, <<"side">>}, service \in {<<>>, <<"named">>},
        e \in UserEnvs, more \in {<<>>, <<Runnable("side", <<>>)>>} }

Attr(key, value) == [key |-> key, value |-> value]

(* The peer's address under both names, in either order; a status that     *)
(* fits its column and one that does not.                                  *)
MCSpanAttrs == {
    <<>>,
    << Attr("server.address", <<"db">>), Attr("net.peer.name", <<"10">>),
       Attr("http.status_code", 503) >>,
    << Attr("net.peer.name", <<"10">>), Attr("server.address", <<"db">>),
       Attr("http.status_code", 70000) >> }

-----------------------------------------------------------------------------
(* Traces *)

SpanOf(id, parent, service, kind, db, from, to, error) ==
    [id |-> id, parent |-> parent, name |-> id, service |-> service, kind |-> kind, db |-> db,
     messaging |-> FALSE, error |-> error, start |-> from, end |-> to]

(* A root, two calls in it that may overlap or outlive it, and a query in  *)
(* the first or beside it that may end before it begins; two services, and *)
(* two days.                                                               *)
MCTraces ==
    { { SpanOf(1, 0, 2, "server", FALSE, 0, 10, e), SpanOf(2, 1, 2, "client", FALSE, a, a + 3, FALSE),
        SpanOf(3, p, 1, "server", FALSE, b, b + 2, TRUE), SpanOf(4, p, 1, k, TRUE, 5, d, FALSE) } :
        e \in BOOLEAN, a \in {0, 1}, p \in {1, 2}, b \in {1, 3, 12},
        k \in {"client", "internal"}, d \in {4, 5, 8} }
MCFilters == [service : {0, 1, 2}, min : {0, 5}, errors : BOOLEAN, scope : {{1}, {2}, Everything}]

MCScopes == {{}, {1}, {2}}

-----------------------------------------------------------------------------
AtRest == Case({}, NoLists, {}, NoReports, NoToken)

PartsInit ==
    /\ part \in Parts
    /\ IF part = "registry" THEN InitR ELSE InitRWith(AtRest)
    /\ InitD
    /\ InitL
    /\ part # "pods" => pod = CHOOSE p \in Pods : TRUE
    /\ InitP
    /\ part # "traces" => spans = CHOOSE T \in Traces : TRUE
    /\ InitT

PartsNext ==
    \/ /\ part = "registry" /\ NextR
       /\ UNCHANGED <<part, storeVars, limiterVars, telemetryVars, traceVars>>
    \/ /\ part = "captures" /\ NextD
       /\ UNCHANGED <<part, vars, limiterVars, telemetryVars, traceVars>>
    \/ /\ part = "attempts" /\ NextL
       /\ UNCHANGED <<part, vars, storeVars, telemetryVars, traceVars>>
    \/ /\ part = "pods" /\ NextP
       /\ UNCHANGED <<part, vars, storeVars, limiterVars, traceVars>>
    \/ /\ part = "traces" /\ NextT
       /\ UNCHANGED <<part, vars, storeVars, limiterVars, telemetryVars>>

partsVars == <<part, vars, storeVars, limiterVars, telemetryVars, traceVars>>

PartsSpec == PartsInit /\ [][PartsNext]_partsVars /\ FairnessR /\ FairnessD
=============================================================================
