------------------------------ MODULE Projects ------------------------------
(***************************************************************************)
(* Projects, what decides which telemetry a user sees: user -> role group  *)
(* -> project -> application.  internal/identity/store.go over PostgreSQL, *)
(* the handlers of internal/api/admin.go that write it, and LoadAccess     *)
(* with internal/api/authz.go, that read it.                               *)
(*                                                                         *)
(* A save is three transactions.  The second and the third each replace a  *)
(* list: a DELETE, whose statement sees the rows committed when it began,  *)
(* then the INSERTs and the commit.  Other requests run in between, and a  *)
(* save may end after any of them, when its client leaves or a statement   *)
(* fails.                                                                  *)
(***************************************************************************)
CONSTANTS Users,      \* the accounts
          Supers,     \* those of super administrators
          Groups,     \* role groups
          MemberOf,   \* MemberOf[u]: the groups u is in while they exist
          Apps,       \* service names
          Projects,   \* projects
          Requests,   \* the requests that may be made, each once
          Cases,      \* what there may be at first, and the requests then made
          None

(* A request: what it does, and to which project or group; a save carries  *)
(* the applications and the groups it asks for.                            *)
IsRequest(r) ==
    /\ r.kind \in {"save", "newProject", "dropProject"} => r.project \in Projects
    /\ r.kind = "dropGroup" => r.group \in Groups
    /\ r.kind = "save" => r.apps \subseteq Apps /\ r.groups \subseteq Groups

Lists == {"apps", "groups"}

(* A case: the projects that exist, their applications and groups, and the *)
(* requests that are made.                                                 *)
IsCase(c) ==
    /\ c.live \subseteq Projects
    /\ c.lists \in [Projects -> [apps : SUBSET Apps, groups : SUBSET Groups]]
    /\ c.made \subseteq Requests

ASSUME ProjectsAssumption ==
    /\ Supers \subseteq Users
    /\ MemberOf \in [Users -> SUBSET Groups]
    /\ \A r \in Requests : IsRequest(r)
    /\ \A c \in Cases : IsCase(c)
    /\ None \notin Requests

VARIABLES
    project,  \* the projects table; "gone" is a row that has been deleted
    group,    \* the groups there still are
    rows,     \* rows[p].apps, project_applications: <<a, r>>, r the save that inserted
              \* it; rows[p].groups, project_role_groups: <<g, r>>
    pc,       \* pc[r]: the next step of request r
    snap,     \* snap[r]: the rows r's DELETE saw
    last,     \* history: last[p], the save of p that began last
    mixed     \* history: the saves that met another of the same project

projectVars == <<project, group, rows, pc, snap, last, mixed>>

InitWith(c) ==
    /\ project = [p \in Projects |-> IF p \in c.live THEN "live" ELSE "none"]
    /\ group = Groups
    /\ rows = [p \in Projects |->
                  [list \in Lists |-> IF p \in c.live THEN c.lists[p][list] \X {None} ELSE {}]]
    /\ pc = [r \in Requests |-> IF r \in c.made THEN "start" ELSE "never"]
    /\ snap = [r \in Requests |-> {}]
    /\ last = [p \in Projects |-> None]
    /\ mixed = {}

Init == \E c \in Cases : InitWith(c)

Goes(r, from, to) == pc[r] = from /\ pc' = [pc EXCEPT ![r] = to]

Live(p) == project[p] = "live"

-----------------------------------------------------------------------------
(* handleUpdateProject *)

Saves == {r \in Requests : r.kind = "save"}

(* The step inside the transaction that replaces a list, and the one after *)
(* it.                                                                     *)
In(list)    == [apps |-> "appsIn", groups |-> "groupsIn"][list]
After(list) == [apps |-> "groups", groups |-> "done"][list]

Saving(p) ==
    {r \in Saves : r.project = p /\ pc[r] \in {"apps", "appsIn", "groups", "groupsIn"}}

(* UpdateProject: the row is named anew; no row, 404. *)
BeginSave(r) ==
    LET p == r.project
    IN  /\ r \in Saves
        /\ project[p] # "none"
        /\ IF Live(p)
           THEN /\ Goes(r, "start", "apps")
                /\ last' = [last EXCEPT ![p] = r]
                /\ mixed' = IF Saving(p) = {} THEN mixed ELSE mixed \cup Saving(p) \cup {r}
           ELSE Goes(r, "start", "refused") /\ UNCHANGED <<last, mixed>>
        /\ UNCHANGED <<project, group, rows, snap>>

(* mutant: SetProjectRoleGroups adds, as an assignment does *)
SeenAdding(r, list) == IF list = "groups" THEN {} ELSE rows[r.project][list]
Seen(r, list)       == rows[r.project][list]

(* SetProjectApplications, SetProjectRoleGroups: the DELETE. *)
Replace(r, list) ==
    /\ Goes(r, list, In(list))
    /\ snap' = [snap EXCEPT ![r] = Seen(r, list)]
    /\ UNCHANGED <<project, group, rows, last, mixed>>

(* ON CONFLICT DO NOTHING *)
Inserted(r, list, kept) == {<<x, r>> : x \in r[list] \ {k[1] : k \in kept}}

(* The rows refer to the project and to the groups. *)
Referable(r, list) ==
    r[list] # {} => Live(r.project) /\ (list = "groups" => r.groups \subseteq group)

(* The rows it saw and are still there go, and what it asks for comes.  A  *)
(* reference to what is not there any more fails the transaction.          *)
Commit(r, list) ==
    LET kept == rows[r.project][list] \ snap[r]
    IN  /\ IF Referable(r, list)
           THEN /\ Goes(r, In(list), After(list))
                /\ rows' = [rows EXCEPT ![r.project][list] = kept \cup Inserted(r, list, kept)]
           ELSE Goes(r, In(list), "cut") /\ UNCHANGED rows
        /\ snap' = [snap EXCEPT ![r] = {}]
        /\ UNCHANGED <<project, group, last, mixed>>

(* The client leaves, or a statement fails: what was committed stays.      *)
CutOff(r) ==
    /\ r \in Saves
    /\ \E at \in {"apps", "appsIn", "groups", "groupsIn"} : Goes(r, at, "cut")
    /\ snap' = [snap EXCEPT ![r] = {}]
    /\ UNCHANGED <<project, group, rows, last, mixed>>

Save(r) ==
    \/ BeginSave(r)
    \/ r \in Saves /\ \E list \in Lists : Replace(r, list) \/ Commit(r, list)
    \/ CutOff(r)

-----------------------------------------------------------------------------
(* The requests of one statement *)

(* CreateProject *)
NewProject(r) ==
    /\ r.kind = "newProject"
    /\ project[r.project] = "none"
    /\ Goes(r, "start", "done")
    /\ project' = [project EXCEPT ![r.project] = "live"]
    /\ UNCHANGED <<group, rows, snap, last, mixed>>

(* DeleteProject: its bindings go with it. *)
DropProject(r) ==
    /\ r.kind = "dropProject"
    /\ Live(r.project)
    /\ Goes(r, "start", "done")
    /\ project' = [project EXCEPT ![r.project] = "gone"]
    /\ rows' = [rows EXCEPT ![r.project] = [list \in Lists |-> {}]]
    /\ UNCHANGED <<group, snap, last, mixed>>

(* ON DELETE CASCADE *)
Unbound(g) ==
    [p \in Projects |-> [rows[p] EXCEPT !.groups = {b \in @ : b[1] # g}]]

(* DeleteRoleGroup *)
DropGroup(r) ==
    /\ r.kind = "dropGroup"
    /\ r.group \in group
    /\ Goes(r, "start", "done")
    /\ group' = group \ {r.group}
    /\ rows' = Unbound(r.group)
    /\ UNCHANGED <<project, snap, last, mixed>>

ProjectStep(r) == Save(r) \/ NewProject(r) \/ DropProject(r) \/ DropGroup(r)

-----------------------------------------------------------------------------
(* LoadAccess and scopeFor *)

AppsOf(p)      == {x[1] : x \in rows[p].apps}
GroupsOf(p)    == {x[1] : x \in rows[p].groups}
UserGroups(u)  == MemberOf[u] \cap group

(* The projects a user reaches: a super administrator every one, others    *)
(* those bound to one of their groups.                                     *)
Reached(u) == {p \in Projects : Live(p) /\ (u \in Supers \/ GroupsOf(p) \cap UserGroups(u) # {})}

(* The services a request sees, with the project it selects, if any.  An   *)
(* unreachable project is an empty scope, not an error.                    *)
Scope(u, selected) ==
    IF selected = None
    THEN IF u \in Supers THEN Apps ELSE UNION {AppsOf(p) : p \in Reached(u)}
    ELSE IF selected \in Reached(u) THEN AppsOf(selected) ELSE {}

-----------------------------------------------------------------------------
(* A project whose last save began and ended alone. *)
Settled(p) == last[p] # None /\ pc[last[p]] = "done" /\ last[p] \notin mixed

(* The last save of a project, when no other overlapped it and it was      *)
(* carried through, leaves the project with the applications and the       *)
(* groups it asked for, and nothing of an earlier one that was cut off:    *)
(* only groups deleted since are missing.                                  *)
ProjectWhole ==
    \A p \in Projects :
        Live(p) /\ Settled(p) =>
            /\ AppsOf(p) = last[p].apps
            /\ GroupsOf(p) = last[p].groups \cap group

(* What the saves give a user: the services of the projects a settled save *)
(* binds to one of the user's groups.                                      *)
Granted(u) ==
    UNION {last[p].apps : p \in {q \in Projects :
                Live(q) /\ Settled(q) /\ last[q].groups \cap UserGroups(u) # {}}}

(* A user sees every service the saves give and, beyond those, services of *)
(* unsettled projects at most.                                             *)
ScopeFromSaves ==
    \A u \in Users \ Supers :
        /\ Granted(u) \subseteq Scope(u, None)
        /\ \A a \in Scope(u, None) \ Granted(u) :
              \E p \in Reached(u) : ~Settled(p) /\ a \in Scope(u, p)
=============================================================================
