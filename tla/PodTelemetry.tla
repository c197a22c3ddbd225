---------------------------- MODULE PodTelemetry ----------------------------
(***************************************************************************)
(* How a pod's place in the cluster reaches its spans: the admission       *)
(* webhook and the injection (internal/k8s/webhook.go, inject.go), the     *)
(* kubelet that resolves the environment, the SDK that turns it into       *)
(* resource attributes, and the conversion in the collector                *)
(* (internal/otlp/convert.go).                                             *)
(*                                                                         *)
(* The pod has no name yet when it is admitted: the injected variables     *)
(* refer to fields and to each other, and the kubelet replaces a reference *)
(* $(X) only by a variable X that stands before it in the list.  A name is *)
(* the sequence of its parts between dashes.                               *)
(***************************************************************************)
EXTENDS Naturals, SequencesExt

CONSTANTS Pods,        \* pods as they are submitted, each with the node it gets
          Hashlike,    \* name parts of 3 to 10 lower-case letters and digits
          SpanAttrs,   \* attributes of a span, in the order they arrive
          MaxCopies    \* bound: pods made from an admitted one

NoName == <<>>

IsList(s) == s \in Seq(ToSet(s))

(* A pod of a Deployment has the Deployment's name and two hashes.  A      *)
(* container's name is its own in the pod.  Of volumes, init containers    *)
(* and mounts only those of the injection are in the model.                *)
IsPod(p) ==
    /\ DOMAIN p = {"name", "generateName", "deployment", "namespace", "node", "inject",
                   "injected", "container", "service", "label", "volumes", "inits", "containers"}
    /\ p.deployment # NoName =>
          /\ IsList(p.deployment)
          /\ \E replicaSetHash, podHash \in Hashlike :
                /\ p.generateName = Append(p.deployment, replicaSetHash)
                /\ p.name = Append(p.generateName, podHash)
    /\ p.volumes = <<>> /\ p.inits = <<>> /\ IsList(p.containers)
    /\ \A i \in DOMAIN p.containers :
          LET c == p.containers[i]
          IN  /\ DOMAIN c = {"name", "env", "mounts"} /\ IsList(c.env) /\ c.mounts = <<>>
              /\ \A j \in DOMAIN p.containers : p.containers[j].name = c.name => j = i

ASSUME TelemetryAssumption ==
    /\ \A p \in Pods : IsPod(p)
    /\ \A attrs \in SpanAttrs : Len(attrs) \in Nat /\ DOMAIN attrs = 1 .. Len(attrs)
    /\ MaxCopies \in Nat

VARIABLES
    pod,     \* the pod
    phase,   \* "submitted", "admitted", "running" or "exported"
    env,     \* the variables of the instrumented process, resolved
    span,    \* the columns of a span it exports
    copies,
    given    \* history: the variables each container was submitted with

telemetryVars == <<pod, phase, env, span, copies, given>>

EnvOf(containers) ==
    [n \in {containers[i].name : i \in DOMAIN containers} |->
        LET i == CHOOSE j \in DOMAIN containers : containers[j].name = n
        IN  containers[i].env]

InitP ==
    /\ pod \in Pods
    /\ phase = "submitted"
    /\ env = <<>>
    /\ span = <<>>
    /\ copies = 0
    /\ given = EnvOf(pod.containers)

Indices(s, P(_)) == {i \in DOMAIN s : P(s[i])}
Names(list)      == {list[i].name : i \in DOMAIN list}

-----------------------------------------------------------------------------
(* Inject *)

ShouldInject(p) == p.inject /\ ~p.injected

(* targetContainer: the first container unless the annotation names one *)
Targets(p) ==
    IF p.container = NoName THEN {1} \cap DOMAIN p.containers
    ELSE Indices(p.containers, LAMBDA c : c.name = p.container)

(* serviceName *)
ServiceName(p, target) ==
    IF p.service # NoName THEN p.service
    ELSE IF p.label # NoName THEN p.label
    ELSE IF p.generateName # NoName THEN p.generateName
    ELSE target.name

Field(name, of) == [name |-> name, is |-> "field", value |-> of]
Text(name, of)  == [name |-> name, is |-> "text", value |-> of]
Attrs(name, of) == [name |-> name, is |-> "attrs", value |-> of]

Dimensions(target) ==
    << [key |-> "k8s.namespace.name", ref |-> "NABIZ_K8S_NAMESPACE"],
       [key |-> "k8s.pod.name",       ref |-> "NABIZ_K8S_POD"],
       [key |-> "k8s.node.name",      ref |-> "NABIZ_K8S_NODE"],
       [key |-> "k8s.container.name", text |-> target.name] >>

Fields ==
    << Field("NABIZ_K8S_NAMESPACE", "namespace"), Field("NABIZ_K8S_POD", "name"),
       Field("NABIZ_K8S_NODE", "node") >>

Exports(p, target) ==
    << Text("CORECLR_ENABLE_PROFILING", <<"1">>),
       Text("OTEL_SERVICE_NAME", ServiceName(p, target)),
       Attrs("OTEL_RESOURCE_ATTRIBUTES", Dimensions(target)) >>

(* mutant: the references come before what they refer to *)
FieldsLast(p, target)         == Exports(p, target) \o Fields
(* The other variables are constants, and CORECLR_ENABLE_PROFILING stands  *)
(* for them.                                                               *)
instrumentationEnv(p, target) == Fields \o Exports(p, target)

(* mutant: the variables that are there already come again *)
AppendEnv(existing, added) == existing \o added
(* The user's own setting always wins. *)
mergeEnv(existing, added) ==
    LET present == Names(existing)
        merged[n \in 0 .. Len(added)] ==
            IF n = 0 THEN existing
            ELSE IF added[n].name \in present THEN merged[n - 1]
            ELSE Append(merged[n - 1], added[n])
    IN  merged[Len(added)]

(* addVolume, addInitContainer and appendVolumeMount *)
AddOnce(s, x) == IF x \in ToSet(s) THEN s ELSE Append(s, x)

Injected(p, t) ==
    [p EXCEPT
        !.volumes = AddOnce(@, "nabiz-dotnet-auto"),
        !.inits = AddOnce(@, "nabiz-dotnet-init"),
        !.containers[t].mounts = AddOnce(@, "nabiz-dotnet-auto"),
        !.containers[t].env = mergeEnv(@, instrumentationEnv(p, p.containers[t])),
        !.injected = TRUE]

(* handleMutate lets every pod through: without the annotation, or when    *)
(* there is no container to instrument, as it is.  An API server that does *)
(* not reach the webhook does the same.                                    *)
Admit ==
    /\ phase = "submitted"
    /\ phase' = "admitted"
    /\ \/ /\ ShouldInject(pod)
          /\ \E t \in Targets(pod) : pod' = Injected(pod, t)
       \/ UNCHANGED pod
    /\ UNCHANGED <<env, span, copies, given>>

(* Outside: a pod is made from the manifest of one that has been admitted, *)
(* with or without its marker, and with one more container or not.         *)
Copy ==
    /\ phase = "admitted"
    /\ copies < MaxCopies
    /\ copies' = copies + 1
    /\ phase' = "submitted"
    /\ \E marked \in {pod.injected, FALSE}, more \in {<<>>, <<[name |-> <<"proxy">>, env |-> <<>>, mounts |-> <<>>]>>} :
          /\ more # <<>> => <<"proxy">> \notin DOMAIN given
          /\ pod' = [pod EXCEPT !.injected = marked, !.containers = more \o @]
          /\ given' = [n \in DOMAIN given \cup {more[i].name : i \in DOMAIN more} |->
                          IF n \in DOMAIN given THEN given[n] ELSE <<>>]
    /\ UNCHANGED <<env, span>>

-----------------------------------------------------------------------------
(* The kubelet and the SDK, as the injection relies on them (outside) *)

Unresolved == <<"$">>

Latest(S) == CHOOSE i \in S : \A j \in S : j <= i

(* The value a variable of the container's list has for those after it. *)
Plain(p, e) == IF e.is = "field" THEN p[e.value] ELSE e.value

Reference(p, list, i, a) ==
    IF "text" \in DOMAIN a THEN a.text
    ELSE LET before == {j \in 1 .. i - 1 : list[j].name = a.ref}
         IN  IF before = {} THEN Unresolved ELSE Plain(p, list[Latest(before)])

Resolved(p, list) ==
    [n \in {list[i].name : i \in DOMAIN list} |->
        LET i == Latest(Indices(list, LAMBDA e : e.name = n))
            e == list[i]
        IN  IF e.is # "attrs" THEN Plain(p, e)
            ELSE [j \in DOMAIN e.value |->
                    [key |-> e.value[j].key, value |-> Reference(p, list, i, e.value[j])]]]

Instrumented(p) ==
    Indices(p.containers, LAMBDA c : \E i \in DOMAIN c.env : c.env[i].name = "CORECLR_ENABLE_PROFILING")

Start ==
    /\ phase = "admitted"
    /\ phase' = "running"
    /\ \E c \in Instrumented(pod) :
          env' = [container |-> c, of |-> Resolved(pod, pod.containers[c].env)]
    /\ UNCHANGED <<pod, span, copies, given>>

(* What the SDK may find by itself, of a pod of a Deployment. *)
Detected ==
    {<<>>} \cup
    IF pod.deployment = NoName THEN {}
    ELSE { <<[key |-> "k8s.replicaset.name", value |-> pod.generateName]>>,
           <<[key |-> "k8s.deployment.name", value |-> pod.deployment]>> }

(* The name in OTEL_SERVICE_NAME comes last. *)
Resource(found) ==
    (IF "OTEL_RESOURCE_ATTRIBUTES" \in DOMAIN env.of
     THEN env.of["OTEL_RESOURCE_ATTRIBUTES"] ELSE <<>>)
    \o found \o <<[key |-> "service.name", value |-> env.of["OTEL_SERVICE_NAME"]]>>

-----------------------------------------------------------------------------
(* parseResource and convertSpan *)

(* The attribute with one of the keys that came last. *)
LastOf(attrs, keys) ==
    LET at == Indices(attrs, LAMBDA a : a.key \in keys)
    IN  IF at = {} THEN NoName ELSE attrs[Latest(at)].value

(* trimPodHash: a last part that looks like a hash goes. *)
trimPodHash(name) ==
    IF Len(name) > 1 /\ Last(name) \in Hashlike THEN Front(name) ELSE name

Owners == {"k8s.deployment.name", "k8s.statefulset.name", "k8s.daemonset.name",
           "k8s.job.name", "k8s.cronjob.name"}

(* A ReplicaSet's name ends in one hash, the name of its pods in two. *)
Workload(owner, replicaSet, name) ==
    IF owner # NoName THEN owner
    ELSE IF replicaSet # NoName THEN trimPodHash(replicaSet)
    ELSE trimPodHash(trimPodHash(name))

parseResource(attrs) ==
    LET name == SelectSeq(attrs, LAMBDA a : a.key = "service.name" /\ a.value # NoName)
        p    == LastOf(attrs, {"k8s.pod.name"})
    IN  [service   |-> IF name = <<>> THEN <<"unknown_service">> ELSE Last(name).value,
         namespace |-> LastOf(attrs, {"k8s.namespace.name"}),
         pod       |-> p,
         node      |-> LastOf(attrs, {"k8s.node.name"}),
         container |-> LastOf(attrs, {"k8s.container.name"}),
         workload  |-> Workload(LastOf(attrs, Owners), LastOf(attrs, {"k8s.replicaset.name"}), p)]

(* promoteAttribute, for the peer's address: of its two names, the current *)
(* one wins wherever it comes.                                             *)
TakePeer(peer, a) ==
    IF a.key = "server.address" \/ (a.key = "net.peer.name" /\ peer = NoName)
    THEN a.value ELSE peer

(* promoteAttribute, for a number: what does not fit the column is not     *)
(* taken.                                                                  *)
TakeNumber(number, a) ==
    IF a.key \in {"http.response.status_code", "http.status_code"} /\ a.value \in 0 .. 2^16 - 1
    THEN a.value ELSE number

(* convertSpan takes the attributes one after the other. *)
Promoted(attrs) ==
    LET taken[n \in 0 .. Len(attrs)] ==
            IF n = 0 THEN [peer |-> NoName, status |-> 0]
            ELSE [peer   |-> TakePeer(taken[n - 1].peer, attrs[n]),
                  status |-> TakeNumber(taken[n - 1].status, attrs[n])]
    IN  taken[Len(attrs)]

Export ==
    /\ phase = "running"
    /\ phase' = "exported"
    /\ \E found \in Detected, attrs \in SpanAttrs :
          span' = [resource |-> parseResource(Resource(found)), attrs |-> attrs,
                   peer     |-> Promoted(attrs).peer,
                   status   |-> Promoted(attrs).status]
    /\ UNCHANGED <<pod, env, copies, given>>

Done == phase \in {"admitted", "exported"} /\ UNCHANGED telemetryVars

NextP == Admit \/ Copy \/ Start \/ Export \/ Done

SpecP == InitP /\ [][NextP]_telemetryVars

-----------------------------------------------------------------------------
(* Whatever pod is submitted, the copy of an injected one with or without  *)
(* its marker included, it is injected at most once: one volume, one init  *)
(* container, one mount; every variable the user set is there as it was,   *)
(* none is set twice by the injection, and a pod that did not ask is left  *)
(* alone.                                                                  *)
InjectedOnce ==
    /\ Len(pod.volumes) <= 1 /\ Len(pod.inits) <= 1
    /\ \A i \in DOMAIN pod.containers :
          LET c == pod.containers[i]
              added == SubSeq(c.env, Len(given[c.name]) + 1, Len(c.env))
          IN  /\ Len(c.mounts) <= 1
              /\ SubSeq(c.env, 1, Len(given[c.name])) = given[c.name]
              /\ Len(added) = Cardinality(Names(added))
              /\ Names(added) \cap Names(given[c.name]) = {}
              /\ ~pod.inject => added = <<>> /\ c.mounts = <<>>

(* The variables the Kubernetes dimensions depend on. *)
Vital == {"NABIZ_K8S_NAMESPACE", "NABIZ_K8S_POD", "NABIZ_K8S_NODE", "OTEL_RESOURCE_ATTRIBUTES"}

(* The spans of a container with the injection's variables carry the place *)
(* the pod really got, unless the user set those it comes through: its     *)
(* namespace, name, node and container, and for a pod of a Deployment the  *)
(* Deployment's name, whatever the parts of that name look like.  Of the   *)
(* two names a peer's address goes by, the current one counts, whichever   *)
(* the span has first.                                                     *)
DimensionsArrive ==
    phase = "exported" =>
        LET c == pod.containers[env.container]
        IN  /\ c.env # given[c.name] /\ Names(given[c.name]) \cap Vital = {} =>
                 /\ span.resource.namespace = pod.namespace
                 /\ span.resource.pod = pod.name
                 /\ span.resource.node = pod.node
                 /\ span.resource.container = c.name
                 /\ pod.deployment # NoName => span.resource.workload = pod.deployment
            /\ LET address == LastOf(span.attrs, {"server.address"})
               IN  address # NoName => span.peer = address
=============================================================================
