--------------------------- MODULE AgentRegistry ----------------------------
(***************************************************************************)
(* Application instances that announce themselves, and the diagnostics     *)
(* token that goes back to them: internal/identity/diagnostics.go,         *)
(* handleAgentRegister and handleCapture of internal/api/diagnostics.go,   *)
(* and the loop of AgentRegistration in the .NET agent.                    *)
(*                                                                         *)
(* Registering and triggering are two statements each.  The first of a     *)
(* registration matches the token it presents against those of the         *)
(* service's projects, the second writes the row; the first of a trigger   *)
(* reads the row, the second the token.  Whether tokens can be stored at   *)
(* all (NABIZ_SECRET_KEY) is not modelled: without it no row is verified.  *)
(***************************************************************************)
EXTENDS Projects, Naturals

CONSTANTS Agents,    \* application processes
          Tokens,    \* diagnostics tokens
          Instances, \* service and instance id, the key of a row
          Hosts,     \* addresses
          MaxFaults  \* bound: registrations that fail on their way, and stops

(* What a process reports: its service and instance, where it is reached,  *)
(* and the token it is configured with, if any.  Without the address of    *)
(* the API it never reports.                                               *)
Process == [service : Apps, instance : Instances, host : Hosts, token : Tokens \cup {None},
            apiUrl : BOOLEAN]

IsAgentRequest(r) ==
    /\ r.kind = "token" => r.project \in Projects /\ r.token \in Tokens \cup {None}
    /\ r.kind = "capture" =>
          r.user \in Users /\ r.instance \in Instances /\ r.service \in Apps

(* A case has processes, and the tokens of the projects, besides.          *)
ASSUME RegistryAssumption ==
    /\ \A c \in Cases :
          /\ c.proc \in [Agents -> Process]
          /\ c.token \in [Projects -> Tokens \cup {None}]
          /\ \A p \in Projects \ c.live : c.token[p] = None
    /\ \A r \in Requests : IsAgentRequest(r)
    /\ MaxFaults \in Nat
    /\ None \notin Tokens \cup Projects

VARIABLES
    proc,    \* proc[a]: what process a reports; never changes
    token,   \* token[p], project_diagnostics
    agent,   \* agent[i], agent_instances: None, or [host, verified, project]
    loop,    \* loop[a]: where a's registration loop is
    post,    \* post[a]: a's registration at the server, [at, project]
    got,     \* got[r]: the row a trigger has read
    faults,
    sent,    \* history: [host, project], where a project's token was sent
    proved   \* history: <<host, project>>, the registrations that verified

registryVars == <<proc, token, agent, loop, post, got, faults, sent, proved>>
vars == <<projectVars, registryVars>>

NoPost == [at |-> "none", project |-> None]

InitRWith(c) ==
    /\ InitWith(c)
    /\ proc = c.proc
    /\ token = c.token
    /\ agent = [i \in Instances |-> None]
    /\ loop = [a \in Agents |-> IF proc[a].apiUrl THEN "sleeping" ELSE "unset"]
    /\ post = [a \in Agents |-> NoPost]
    /\ got = [r \in Requests |-> None]
    /\ faults = 0
    /\ sent = {}
    /\ proved = {}

InitR == \E c \in Cases : InitRWith(c)

(* projectTokenFor: the projects whose token a service can be matched with *)
TokenProjects(s) == {p \in Projects : Live(p) /\ s \in AppsOf(p) /\ token[p] # None}

-----------------------------------------------------------------------------
(* The loop of a process: a round every minute, until the application is   *)
(* stopped.                                                                *)

Round(a) ==
    /\ loop[a] = "sleeping"
    /\ post[a] = NoPost
    /\ loop' = [loop EXCEPT ![a] = "waiting"]
    /\ post' = [post EXCEPT ![a].at = "match"]
    /\ UNCHANGED <<projectVars, proc, token, agent, got, faults, sent, proved>>

(* The filter of the catch lets OperationCanceledException through, and    *)
(* what HttpClient's timeout raises is one: ExecuteAsync is left for good, *)
(* and with it, by the host's default, the application stops.              *)
Caught(exception) == exception = "refused"

Fail(a, exception) ==
    /\ loop[a] = "waiting"
    /\ faults < MaxFaults
    /\ faults' = faults + 1
    /\ loop' = [loop EXCEPT ![a] = IF Caught(exception) THEN "sleeping" ELSE "ended"]

(* No connection. *)
Refuse(a) ==
    /\ post[a].at = "match"
    /\ Fail(a, "refused")
    /\ post' = [post EXCEPT ![a] = NoPost]
    /\ UNCHANGED <<projectVars, proc, token, agent, got, sent, proved>>

(* HttpClient.Timeout, while the server may still be at it. *)
TimeOut(a) ==
    /\ Fail(a, "timedOut")
    /\ UNCHANGED <<projectVars, proc, token, agent, post, got, sent, proved>>

(* The application stops. *)
Stop(a) ==
    /\ loop[a] \in {"waiting", "sleeping"}
    /\ faults < MaxFaults
    /\ faults' = faults + 1
    /\ loop' = [loop EXCEPT ![a] = "stopped"]
    /\ UNCHANGED <<projectVars, proc, token, agent, post, got, sent, proved>>

-----------------------------------------------------------------------------
(* handleAgentRegister *)

(* RegisterAgent, first statement: the first project whose token is the    *)
(* one presented, in no particular order.                                  *)
Match(a) ==
    LET found == {p \in TokenProjects(proc[a].service) : token[p] = proc[a].token}
    IN  /\ post[a].at = "match"
        /\ \E p \in IF found = {} THEN {None} ELSE found :
              post' = [post EXCEPT ![a] = [at |-> "upsert", project |-> p]]
        /\ UNCHANGED <<projectVars, proc, token, agent, loop, got, faults, sent, proved>>

(* mutant: a process that presents a token is verified *)
RowClaimed(a) ==
    [host |-> proc[a].host, verified |-> proc[a].token # None, project |-> post[a].project]
Row(a) ==
    [host |-> proc[a].host, verified |-> post[a].project # None, project |-> post[a].project]

(* Second statement: the row is written whole; it refers to the project.   *)
(* The answer goes back, if there is one to take it, and whatever it is:   *)
(* the client does not look at its status.                                 *)
Upsert(a) ==
    LET i == proc[a].instance
        p == post[a].project
    IN  /\ post[a].at = "upsert"
        /\ IF p # None => Live(p)
           THEN /\ agent' = [agent EXCEPT ![i] = Row(a)]
                /\ proved' = IF p = None THEN proved ELSE proved \cup {<<proc[a].host, p>>}
           ELSE UNCHANGED <<agent, proved>>
        /\ post' = [post EXCEPT ![a] = NoPost]
        /\ loop' = [loop EXCEPT ![a] = IF @ = "waiting" THEN "sleeping" ELSE @]
        /\ UNCHANGED <<projectVars, proc, token, got, faults, sent>>

(* The request of a client that has left is cancelled. *)
Cancel(a) ==
    /\ post[a] # NoPost
    /\ loop[a] \in {"ended", "stopped"}
    /\ post' = [post EXCEPT ![a] = NoPost]
    /\ UNCHANGED <<projectVars, proc, token, agent, loop, got, faults, sent, proved>>

-----------------------------------------------------------------------------
(* handleSetDiagToken: an empty token deletes the row; a token for a       *)
(* project that is gone is refused by the reference.                       *)
SetToken(r) ==
    /\ r.kind = "token"
    /\ Goes(r, "start", "done")
    /\ token' = IF r.token = None \/ Live(r.project)
                THEN [token EXCEPT ![r.project] = r.token] ELSE token
    /\ UNCHANGED <<project, group, rows, snap, last, mixed>>
    /\ UNCHANGED <<proc, agent, loop, post, got, faults, sent, proved>>

(* handleCapture: LoadAccess has run before GetAgent; out of its scope,    *)
(* nothing is done.  Triggers after that make no record without a token.   *)
BeginCapture(r) ==
    /\ r.kind = "capture"
    /\ Goes(r, "start", IF r.service \in Scope(r.user, None) THEN "row" ELSE "refused")
    /\ UNCHANGED <<project, group, rows, snap, last, mixed, registryVars>>

(* GetAgent, first statement *)
ReadRow(r) ==
    LET a == agent[r.instance]
    IN  /\ r.kind = "capture"
        /\ Goes(r, "row", IF a # None /\ a.verified THEN "token" ELSE "refused")
        /\ got' = [got EXCEPT ![r] = a]
        /\ UNCHANGED <<project, group, rows, snap, last, mixed>>
        /\ UNCHANGED <<proc, token, agent, loop, post, faults, sent, proved>>

(* mutant: any project of the service has the token *)
OwnsAny(row, p) == TRUE
Owns(row, p)    == row.project = p

(* Second statement, and the request fetchDump makes with the token. *)
ReadToken(r) ==
    LET owners == {p \in TokenProjects(r.service) : Owns(got[r], p)}
    IN  /\ r.kind = "capture"
        /\ Goes(r, "token", IF owners = {} THEN "refused" ELSE "done")
        /\ \/ owners = {} /\ UNCHANGED sent
           \/ \E p \in owners : sent' = sent \cup {[host |-> got[r].host, project |-> p]}
        /\ got' = [got EXCEPT ![r] = None]
        /\ UNCHANGED <<project, group, rows, snap, last, mixed>>
        /\ UNCHANGED <<proc, token, agent, loop, post, faults, proved>>

(* A project that is deleted takes its token with it and leaves the rows   *)
(* of its agents without a project, verified as they were.                 *)
Forgotten(p) ==
    [i \in Instances |->
        IF agent[i] # None /\ agent[i].project = p
        THEN [agent[i] EXCEPT !.project = None] ELSE agent[i]]

OnProjects(r) ==
    /\ ProjectStep(r)
    /\ LET gone == {p \in Projects : Live(p) /\ project'[p] = "gone"}
       IN  IF gone = {} THEN UNCHANGED <<token, agent>>
           ELSE \E p \in gone :
                   token' = [token EXCEPT ![p] = None] /\ agent' = Forgotten(p)
    /\ UNCHANGED <<proc, loop, post, got, faults, sent, proved>>

-----------------------------------------------------------------------------
ServerStep(a)  == Match(a) \/ Upsert(a)
CaptureStep(r) == BeginCapture(r) \/ ReadRow(r) \/ ReadToken(r)

NextR ==
    \/ \E a \in Agents :
          \/ Round(a) \/ Refuse(a) \/ TimeOut(a) \/ Stop(a)
          \/ ServerStep(a) \/ Cancel(a)
    \/ \E r \in Requests : OnProjects(r) \/ SetToken(r) \/ CaptureStep(r)

(* The loop runs on its own timer, and the server serves what arrives.     *)
FairnessR ==
    \A a \in Agents : WF_vars(Round(a)) /\ WF_vars(ServerStep(a))

SpecR == InitR /\ [][NextR]_vars /\ FairnessR

-----------------------------------------------------------------------------
(* The token of a project is sent to no address that has not registered    *)
(* with a token of that project: neither one that was verified against     *)
(* another project of the same service, nor one that has taken over the    *)
(* row since.                                                              *)
TokenGoesHome == \A s \in sent : <<s.host, s.project>> \in proved

(* Does process a know the token of a project of its service? *)
Knows(a) ==
    proc[a].token # None
    /\ \E p \in TokenProjects(proc[a].service) : token[p] = proc[a].token

Alone(a) == \A b \in Agents \ {a} : proc[b].instance # proc[a].instance

(* Whatever is saved, deleted or set while registrations are under way, a  *)
(* process that goes on registering is in the end shown as verified        *)
(* exactly when it knows the token of one of its service's projects.       *)
AgentsSettle ==
    \A a \in Agents :
        <>[]( Alone(a) /\ loop[a] \in {"waiting", "sleeping"}
              => agent[proc[a].instance] # None
                 /\ agent[proc[a].instance].verified = Knows(a) )

(* "nabiz may be unreachable; a failed registration must not affect the    *)
(* application, and it is retried next round."                             *)
RetriedNextRound ==
    \A a \in Agents :
        proc[a].apiUrl => <>(loop[a] = "stopped") \/ []<>(loop[a] = "waiting")
=============================================================================
