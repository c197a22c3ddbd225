--------------------------- MODULE RegistryProofs ---------------------------
(***************************************************************************)
(* Proofs about projects and agents, for any users, projects, processes    *)
(* and requests.                                                           *)
(***************************************************************************)
EXTENDS AgentRegistry, TLAPS

Stages == {"never", "start", "apps", "appsIn", "groups", "groupsIn", "row", "token",
           "done", "cut", "refused"}
Bindings == (Apps \cup Groups) \X (Requests \cup {None})

ProjectsTyped ==
    /\ project \in [Projects -> {"none", "live", "gone"}]
    /\ group \subseteq Groups
    /\ rows \in [Projects -> [Lists -> SUBSET Bindings]]
    /\ pc \in [Requests -> Stages]
    /\ snap \in [Requests -> SUBSET Bindings]
    /\ last \in [Projects -> Requests \cup {None}]
    /\ mixed \subseteq Requests

(* The last save of p, when it has met no other, is the only one under way *)
(* and has done what its step says.                                        *)
AloneInv(p) ==
    LET r == last[p]
    IN  r # None /\ r \notin mixed =>
            /\ r \in Saves /\ r.project = p
            /\ \A q \in Saving(p) : q = r
            /\ pc[r] = "appsIn" => rows[p].apps \subseteq snap[r]
            /\ pc[r] \in {"groups", "groupsIn", "done"} /\ Live(p) => AppsOf(p) = r.apps
            /\ pc[r] = "groupsIn" => rows[p].groups \subseteq snap[r]
            /\ pc[r] = "done" /\ Live(p) => GroupsOf(p) = r.groups \cap group

SaveInv ==
    \A p \in Projects : AloneInv(p) /\ (project[p] = "none" => last[p] = None)

ProjectsInv == ProjectsTyped /\ SaveInv

AgentRow == [host : Hosts, verified : BOOLEAN, project : Projects \cup {None}]

RegistryTyped ==
    /\ proc \in [Agents -> Process]
    /\ agent \in [Instances -> AgentRow \cup {None}]
    /\ post \in [Agents -> [at : {"none", "match", "upsert"}, project : Projects \cup {None}]]
    /\ got \in [Requests -> AgentRow \cup {None}]
    /\ pc \in [Requests -> Stages]

Proved(row) == row # None /\ row.project # None => <<row.host, row.project>> \in proved

(* A row that names a project was written when its address had registered  *)
(* with a token of that project.                                           *)
ProvedInv ==
    /\ \A i \in Instances : Proved(agent[i])
    /\ \A r \in Requests : Proved(got[r]) /\ (pc[r] = "token" => got[r] # None)

RegistryInv == RegistryTyped /\ ProvedInv /\ TokenGoesHome

-----------------------------------------------------------------------------
(* Projects *)

LEMMA ProjectsInit == InitR => ProjectsInv
<1> SUFFICES ASSUME NEW c \in Cases, InitWith(c) PROVE ProjectsInv
    BY DEF InitR, InitRWith
<1>1. IsCase(c)
    BY ProjectsAssumption
<1>2. ProjectsTyped
    <2>1. rows \in [Projects -> [Lists -> SUBSET Bindings]]
        <3> SUFFICES ASSUME NEW p \in Projects, NEW list \in Lists
                     PROVE c.lists[p][list] \X {None} \subseteq Bindings
            BY DEF InitWith
        <3>1. c.lists[p] \in [apps : SUBSET Apps, groups : SUBSET Groups]
            BY <1>1 DEF IsCase
        <3>2. c.lists[p][list] \subseteq Apps \cup Groups
            BY <3>1 DEF Lists
        <3> QED
            BY <3>2 DEF Bindings
    <2> QED
        BY <2>1 DEF InitWith, ProjectsTyped, Stages
<1>3. SaveInv
    BY DEF InitWith, SaveInv, AloneInv
<1> QED
    BY <1>2, <1>3 DEF ProjectsInv

(* What neither touches the tables nor moves a save keeps the invariant.   *)
LEMMA ProjectsKept ==
    ASSUME ProjectsInv, UNCHANGED <<project, group, rows, snap, last, mixed>>,
           pc' \in [Requests -> Stages], \A q \in Saves : pc'[q] = pc[q]
    PROVE  ProjectsInv'
<1>1. ProjectsTyped'
    BY DEF ProjectsInv, ProjectsTyped
<1>2. ASSUME NEW p \in Projects PROVE Saving(p)' = Saving(p)
    BY DEF Saving
<1>3. ASSUME NEW p \in Projects PROVE AloneInv(p)'
    BY <1>2 DEF ProjectsInv, SaveInv, AloneInv, AppsOf, GroupsOf, Live
<1>4. SaveInv'
    BY <1>3 DEF ProjectsInv, SaveInv
<1> QED
    BY <1>1, <1>4 DEF ProjectsInv

LEMMA GoesTyped ==
    ASSUME ProjectsTyped, NEW r \in Requests, NEW a, NEW b \in Stages, Goes(r, a, b)
    PROVE  pc' \in [Requests -> Stages] /\ pc[r] = a /\ pc'[r] = b
           /\ \A q \in Requests \ {r} : pc'[q] = pc[q]
BY DEF ProjectsTyped, Goes

LEMMA BeginSaveKeeps ==
    ASSUME ProjectsInv, NEW r \in Requests, BeginSave(r) PROVE ProjectsInv'
<1> USE DEF ProjectsInv
<1> DEFINE p == r.project
<1>0. r \in Saves /\ p \in Projects
    BY ProjectsAssumption DEF BeginSave, Saves, IsRequest
<1>1. CASE ~Live(p)
    <2>1. Goes(r, "start", "refused") /\ UNCHANGED <<project, group, rows, snap, last, mixed>>
        BY <1>1 DEF BeginSave
    <2>2. pc' \in [Requests -> Stages] /\ pc[r] = "start" /\ pc'[r] = "refused"
          /\ \A q \in Requests \ {r} : pc'[q] = pc[q]
        BY <2>1, GoesTyped DEF Stages
    <2>3. ProjectsTyped'
        BY <2>1, <2>2 DEF ProjectsTyped
    <2>4. ASSUME NEW q \in Projects PROVE AloneInv(q)'
        <3>1. Saving(q)' = Saving(q)
            BY <2>1, <2>2 DEF Saving, Saves
        <3> QED
            BY <3>1, <2>1, <2>2 DEF SaveInv, AloneInv, AppsOf, GroupsOf, Live, ProjectsTyped
    <2> QED
        BY <2>1, <2>3, <2>4 DEF SaveInv
<1>2. CASE Live(p)
    <2>1. /\ Goes(r, "start", "apps") /\ UNCHANGED <<project, group, rows, snap>>
          /\ last' = [last EXCEPT ![p] = r]
          /\ mixed' = IF Saving(p) = {} THEN mixed ELSE mixed \cup Saving(p) \cup {r}
        BY <1>2 DEF BeginSave
    <2>2. pc' \in [Requests -> Stages] /\ pc[r] = "start" /\ pc'[r] = "apps"
          /\ \A q \in Requests \ {r} : pc'[q] = pc[q]
        BY <2>1, GoesTyped DEF Stages
    <2>3. ProjectsTyped'
        BY <2>1, <2>2, <1>0 DEF ProjectsTyped, Saving, Saves
    <2>4. ASSUME NEW q \in Projects, q # p PROVE AloneInv(q)'
        <3>1. Saving(q)' = Saving(q)
            BY <2>1, <2>2, <2>4 DEF Saving, Saves
        <3>2. last'[q] = last[q] /\ mixed \subseteq mixed'
            BY <2>1, <2>4 DEF ProjectsTyped
        <3>3. last[q] # None /\ last[q] \notin mixed => last[q] # r /\ last[q] \in Requests
            BY <2>4 DEF SaveInv, AloneInv, Saves
        <3> QED
            BY <3>1, <3>2, <3>3, <2>1, <2>2 DEF SaveInv, AloneInv, AppsOf, GroupsOf, Live
    <2>5. AloneInv(p)'
        <3>1. last'[p] = r
            BY <2>1, <1>0 DEF ProjectsTyped
        <3>2. r \notin mixed' => Saving(p) = {}
            BY <2>1
        <3>3. Saving(p)' \subseteq Saving(p) \cup {r}
            BY <2>2 DEF Saving, Saves
        <3> QED
            BY <3>1, <3>2, <3>3, <2>2, <1>0 DEF AloneInv, Saves
    <2>6. ASSUME NEW q \in Projects, project'[q] = "none" PROVE last'[q] = None
        BY <2>1, <2>6, <1>2 DEF SaveInv, Live, ProjectsTyped
    <2> QED
        BY <2>3, <2>4, <2>5, <2>6 DEF SaveInv
<1> QED
    BY <1>1, <1>2

(* The steps of a save after the first concern its own project, and when   *)
(* that project's last save is alone it is the one that steps.             *)
LEMMA SaveSteps ==
    ASSUME ProjectsInv, NEW r \in Requests, r \in Saves,
           NEW a \in {"apps", "appsIn", "groups", "groupsIn"}, NEW b \in Stages, Goes(r, a, b),
           b # "never", UNCHANGED <<last, mixed>>
    PROVE  /\ r.project \in Projects
           /\ \A p \in Projects : Saving(p)' \subseteq Saving(p) \cup (IF r.project = p THEN {r} ELSE {})
           /\ r \in Saving(r.project)
           /\ last[r.project] # None /\ last[r.project] \notin mixed => last[r.project] = r
           /\ \A p \in Projects \ {r.project} :
                 last[p] # None /\ last[p] \notin mixed => last[p] # r /\ pc'[last[p]] = pc[last[p]]
<1>1. pc' \in [Requests -> Stages] /\ pc[r] = a /\ pc'[r] = b
      /\ \A q \in Requests \ {r} : pc'[q] = pc[q]
    BY GoesTyped DEF ProjectsInv
<1>2. r.project \in Projects
    BY ProjectsAssumption DEF Saves, IsRequest
<1>3. r \in Saving(r.project)
    BY <1>1 DEF Saving, Saves
<1>4. last[r.project] # None /\ last[r.project] \notin mixed => last[r.project] = r
    BY <1>2, <1>3 DEF ProjectsInv, SaveInv, AloneInv
<1>5. ASSUME NEW p \in Projects
      PROVE  Saving(p)' \subseteq Saving(p) \cup (IF r.project = p THEN {r} ELSE {})
    BY <1>1 DEF Saving, Saves
<1>6. ASSUME NEW p \in Projects \ {r.project}, last[p] # None, last[p] \notin mixed
      PROVE  last[p] # r /\ pc'[last[p]] = pc[last[p]]
    BY <1>1, <1>6 DEF ProjectsInv, SaveInv, AloneInv, ProjectsTyped
<1> QED
    BY <1>2, <1>3, <1>4, <1>5, <1>6

LEMMA ReplaceKeeps ==
    ASSUME ProjectsInv, NEW r \in Requests, r \in Saves, NEW list \in Lists, Replace(r, list)
    PROVE  ProjectsInv'
<1> USE DEF ProjectsInv
<1> DEFINE p == r.project
<1>1. /\ Goes(r, list, In(list)) /\ UNCHANGED <<project, group, rows, last, mixed>>
      /\ snap' = [snap EXCEPT ![r] = rows[p][list]]
      /\ In(list) \in {"appsIn", "groupsIn"} /\ (In(list) = "appsIn" <=> list = "apps")
    BY DEF Replace, Seen, In, Lists
<1>2. pc' \in [Requests -> Stages] /\ pc[r] = list /\ pc'[r] = In(list)
      /\ \A q \in Requests \ {r} : pc'[q] = pc[q]
    BY <1>1, GoesTyped DEF Stages
<1>3. /\ p \in Projects /\ r \in Saving(p)
      /\ \A q \in Projects : Saving(q)' \subseteq Saving(q) \cup (IF p = q THEN {r} ELSE {})
      /\ last[p] # None /\ last[p] \notin mixed => last[p] = r
      /\ \A q \in Projects \ {p} :
            last[q] # None /\ last[q] \notin mixed => last[q] # r /\ pc'[last[q]] = pc[last[q]]
    <2>1. list \in {"apps", "appsIn", "groups", "groupsIn"} /\ In(list) \in Stages /\ In(list) # "never"
        BY <1>1 DEF Lists, Stages
    <2> QED
        BY <2>1, <1>1, SaveSteps
<1>4. ProjectsTyped'
    <2>1. snap' \in [Requests -> SUBSET Bindings]
        BY <1>1, <1>3 DEF ProjectsTyped
    <2> QED
        BY <2>1, <1>1, <1>2 DEF ProjectsTyped
<1>5. ASSUME NEW q \in Projects, q # p PROVE AloneInv(q)'
    <2>1. last[q] # None /\ last[q] \notin mixed => snap'[last[q]] = snap[last[q]]
        BY <1>1, <1>3, <1>5 DEF SaveInv, AloneInv, ProjectsTyped, Saves
    <2> QED
        BY <2>1, <1>1, <1>3, <1>5 DEF SaveInv, AloneInv, AppsOf, GroupsOf, Live
<1>6. AloneInv(p)'
    <2> SUFFICES ASSUME last[p] # None, last[p] \notin mixed PROVE AloneInv(p)'
        BY <1>1 DEF AloneInv
    <2>1. last'[p] = r /\ snap'[r] = rows[p][list] /\ AloneInv(p) /\ last[p] = r
        BY <1>1, <1>3 DEF SaveInv, ProjectsTyped
    <2>2. \A q \in Saving(p)' : q = r
        BY <2>1, <1>3 DEF AloneInv
    <2>3. CASE list = "apps"
        BY <2>1, <2>2, <2>3, <1>1, <1>2 DEF AloneInv
    <2>4. CASE list = "groups"
        BY <2>1, <2>2, <2>4, <1>1, <1>2 DEF AloneInv, AppsOf, Live
    <2> QED
        BY <2>3, <2>4 DEF Lists
<1> QED
    BY <1>1, <1>4, <1>5, <1>6 DEF SaveInv

LEMMA CutOffKeeps ==
    ASSUME ProjectsInv, NEW r \in Requests, CutOff(r) PROVE ProjectsInv'
<1> USE DEF ProjectsInv
<1> DEFINE p == r.project
<1>1. r \in Saves /\ UNCHANGED <<project, group, rows, last, mixed>>
      /\ snap' = [snap EXCEPT ![r] = {}]
    BY DEF CutOff
<1> PICK at \in {"apps", "appsIn", "groups", "groupsIn"} : Goes(r, at, "cut")
    BY DEF CutOff
<1>2. pc' \in [Requests -> Stages] /\ pc'[r] = "cut" /\ \A q \in Requests \ {r} : pc'[q] = pc[q]
    BY GoesTyped DEF Stages
<1>3. /\ p \in Projects /\ r \in Saving(p)
      /\ \A q \in Projects : Saving(q)' \subseteq Saving(q) \cup (IF p = q THEN {r} ELSE {})
      /\ last[p] # None /\ last[p] \notin mixed => last[p] = r
      /\ \A q \in Projects \ {p} :
            last[q] # None /\ last[q] \notin mixed => last[q] # r /\ pc'[last[q]] = pc[last[q]]
    <2>1. "cut" \in Stages /\ UNCHANGED <<last, mixed>>
        BY <1>1 DEF Stages
    <2> QED
        BY <1>1, <2>1, SaveSteps
<1>4. ProjectsTyped'
    <2>1. snap' \in [Requests -> SUBSET Bindings]
        BY <1>1 DEF ProjectsTyped
    <2> QED
        BY <2>1, <1>1, <1>2 DEF ProjectsTyped
<1>5. ASSUME NEW q \in Projects, q # p PROVE AloneInv(q)'
    <2>1. last[q] # None /\ last[q] \notin mixed => snap'[last[q]] = snap[last[q]]
        BY <1>1, <1>3, <1>5 DEF SaveInv, AloneInv, ProjectsTyped, Saves
    <2> QED
        BY <2>1, <1>1, <1>3, <1>5 DEF SaveInv, AloneInv, AppsOf, GroupsOf, Live
<1>6. AloneInv(p)'
    BY <1>1, <1>2, <1>3 DEF SaveInv, AloneInv
<1> QED
    BY <1>1, <1>4, <1>5, <1>6 DEF SaveInv

(* The list is replaced as a whole when nothing was inserted since the     *)
(* DELETE.                                                                 *)
LEMMA CommitKeeps ==
    ASSUME ProjectsInv, NEW r \in Requests, r \in Saves, NEW list \in Lists, Commit(r, list)
    PROVE  ProjectsInv'
<1> USE DEF ProjectsInv
<1> DEFINE p == r.project
           kept == rows[p][list] \ snap[r]
           to == IF Referable(r, list) THEN After(list) ELSE "cut"
<1>1. /\ Goes(r, In(list), to) /\ UNCHANGED <<project, group, last, mixed>>
      /\ snap' = [snap EXCEPT ![r] = {}]
      /\ rows' = IF Referable(r, list)
                 THEN [rows EXCEPT ![p][list] = kept \cup Inserted(r, list, kept)] ELSE rows
    BY DEF Commit
<1>2. /\ In(list) \in {"appsIn", "groupsIn"} /\ (In(list) = "appsIn" <=> list = "apps")
      /\ After(list) = IF list = "apps" THEN "groups" ELSE "done"
    BY DEF In, After, Lists
<1>3. /\ pc' \in [Requests -> Stages] /\ pc[r] = In(list) /\ pc'[r] = to
      /\ \A q \in Requests \ {r} : pc'[q] = pc[q]
    BY <1>1, <1>2, GoesTyped DEF Stages
<1>4. /\ p \in Projects /\ r \in Saving(p)
      /\ \A q \in Projects : Saving(q)' \subseteq Saving(q) \cup (IF p = q THEN {r} ELSE {})
      /\ last[p] # None /\ last[p] \notin mixed => last[p] = r
      /\ \A q \in Projects \ {p} :
            last[q] # None /\ last[q] \notin mixed => last[q] # r /\ pc'[last[q]] = pc[last[q]]
    <2>1. to \in Stages /\ to # "never" /\ In(list) \in {"apps", "appsIn", "groups", "groupsIn"}
        BY <1>2 DEF Stages
    <2> HIDE DEF to
    <2> QED
        BY <2>1, <1>1, SaveSteps
<1>5. r[list] \subseteq Apps \cup Groups
    BY ProjectsAssumption DEF Saves, IsRequest, Lists
<1>6. kept \cup Inserted(r, list, kept) \in SUBSET Bindings
    BY <1>4, <1>5 DEF ProjectsTyped, Inserted, Bindings
<1>7. ProjectsTyped'
    BY <1>1, <1>3, <1>4, <1>6 DEF ProjectsTyped
<1>8. ASSUME NEW q \in Projects, q # p PROVE AloneInv(q)'
    <2>1. last[q] # None /\ last[q] \notin mixed => snap'[last[q]] = snap[last[q]]
        BY <1>1, <1>4, <1>8 DEF SaveInv, AloneInv, ProjectsTyped, Saves
    <2>2. rows'[q] = rows[q]
        BY <1>1, <1>4, <1>8 DEF ProjectsTyped
    <2> QED
        BY <2>1, <2>2, <1>1, <1>4, <1>8 DEF SaveInv, AloneInv, AppsOf, GroupsOf, Live
<1>9. AloneInv(p)'
    <2> SUFFICES ASSUME last[p] # None, last[p] \notin mixed PROVE AloneInv(p)'
        BY <1>1 DEF AloneInv
    <2>1. last'[p] = r /\ AloneInv(p) /\ last[p] = r
        BY <1>1, <1>4 DEF SaveInv
    <2>2. \A q \in Saving(p)' : q = r
        BY <2>1, <1>4 DEF AloneInv
    <2>3. CASE ~Referable(r, list)
        BY <2>1, <2>2, <2>3, <1>1, <1>3 DEF AloneInv
    <2>4. CASE Referable(r, list)
        <3>1. kept = {}
            BY <2>1, <1>2, <1>3 DEF AloneInv, Lists
        <3>2. rows'[p][list] = {<<x, r>> : x \in r[list]}
            BY <3>1, <2>4, <1>1, <1>4 DEF ProjectsTyped, Inserted
        <3>3. {y[1] : y \in rows'[p][list]} = r[list]
            <4>1. ASSUME NEW z \in r[list] PROVE z \in {y[1] : y \in rows'[p][list]}
                <5>1. <<z, r>> \in rows'[p][list] /\ <<z, r>>[1] = z
                    BY <3>2
                <5> QED
                    BY <5>1
            <4>2. ASSUME NEW y \in rows'[p][list] PROVE y[1] \in r[list]
                BY <3>2
            <4> QED
                BY <4>1, <4>2
        <3>4. CASE list = "apps"
            BY <3>3, <3>4, <2>1, <2>2, <2>4, <1>1, <1>2, <1>3 DEF AloneInv, AppsOf
        <3>5. CASE list = "groups"
            <4>1. rows'[p].apps = rows[p].apps
                BY <3>5, <1>1, <1>4 DEF ProjectsTyped, Lists
            <4>2. AppsOf(p)' = AppsOf(p)
                BY <4>1 DEF AppsOf
            <4>3. GroupsOf(p)' = r.groups
                BY <3>3, <3>5 DEF GroupsOf
            <4>4. r.groups \subseteq group
                BY <2>4, <3>5 DEF Referable
            <4>5. pc'[r] = "done" /\ pc[r] = "groupsIn"
                BY <2>4, <3>5, <1>2, <1>3
            <4>6. Live(p)' = Live(p) /\ group' = group /\ mixed' = mixed
                BY <1>1 DEF Live
            <4> QED
                BY <4>2, <4>3, <4>4, <4>5, <4>6, <2>1, <2>2 DEF AloneInv
        <3> QED
            BY <3>4, <3>5 DEF Lists
    <2> QED
        BY <2>3, <2>4
<1> QED
    BY <1>1, <1>7, <1>8, <1>9 DEF SaveInv

LEMMA NewProjectKeeps ==
    ASSUME ProjectsInv, NEW r \in Requests, NewProject(r) PROVE ProjectsInv'
<1> USE DEF ProjectsInv
<1> DEFINE p == r.project
<1>1. /\ Goes(r, "start", "done") /\ UNCHANGED <<group, rows, snap, last, mixed>>
      /\ project' = [project EXCEPT ![p] = "live"] /\ project[p] = "none" /\ p \in Projects
      /\ r \notin Saves
    BY ProjectsAssumption DEF NewProject, IsRequest, Saves
<1>2. pc' \in [Requests -> Stages] /\ \A q \in Requests \ {r} : pc'[q] = pc[q]
    BY <1>1, GoesTyped DEF Stages
<1>3. ProjectsTyped'
    BY <1>1, <1>2 DEF ProjectsTyped
<1>4. ASSUME NEW q \in Projects PROVE AloneInv(q)'
    <2>1. Saving(q)' = Saving(q)
        BY <1>1, <1>2 DEF Saving, Saves
    <2>2. CASE q = p
        BY <2>2, <1>1 DEF SaveInv, AloneInv
    <2>3. CASE q # p
        <3>1. Live(q)' = Live(q)
            BY <2>3, <1>1 DEF Live, ProjectsTyped
        <3>2. last[q] # None /\ last[q] \notin mixed => last[q] \in Saves
            BY DEF SaveInv, AloneInv
        <3> QED
            BY <2>1, <3>1, <3>2, <1>1, <1>2 DEF SaveInv, AloneInv, AppsOf, GroupsOf, Saves
    <2> QED
        BY <2>2, <2>3
<1> QED
    BY <1>1, <1>3, <1>4 DEF SaveInv, ProjectsTyped

LEMMA DropProjectKeeps ==
    ASSUME ProjectsInv, NEW r \in Requests, DropProject(r) PROVE ProjectsInv'
<1> USE DEF ProjectsInv
<1> DEFINE p == r.project
<1>1. /\ Goes(r, "start", "done") /\ UNCHANGED <<group, snap, last, mixed>>
      /\ project' = [project EXCEPT ![p] = "gone"] /\ Live(p) /\ p \in Projects
      /\ rows' = [rows EXCEPT ![p] = [list \in Lists |-> {}]] /\ r \notin Saves
    BY ProjectsAssumption DEF DropProject, IsRequest, Saves
<1>2. pc' \in [Requests -> Stages] /\ \A q \in Requests \ {r} : pc'[q] = pc[q]
    BY <1>1, GoesTyped DEF Stages
<1>3. ProjectsTyped'
    BY <1>1, <1>2 DEF ProjectsTyped
<1>4. ASSUME NEW q \in Projects PROVE AloneInv(q)'
    <2>1. Saving(q)' = Saving(q)
        BY <1>1, <1>2 DEF Saving, Saves
    <2>2. last[q] # None /\ last[q] \notin mixed => last[q] \in Saves /\ pc'[last[q]] = pc[last[q]]
        BY <1>1, <1>2 DEF SaveInv, AloneInv, Saves
    <2>3. CASE q = p
        <3>1. ~Live(p)' /\ rows'[p].apps = {} /\ rows'[p].groups = {}
            BY <1>1 DEF Live, ProjectsTyped, Lists
        <3> QED
            BY <2>1, <2>2, <2>3, <3>1, <1>1 DEF SaveInv, AloneInv
    <2>4. CASE q # p
        <3>1. Live(q)' = Live(q) /\ rows'[q] = rows[q]
            BY <2>4, <1>1 DEF Live, ProjectsTyped
        <3> QED
            BY <2>1, <2>2, <3>1, <1>1 DEF SaveInv, AloneInv, AppsOf, GroupsOf
    <2> QED
        BY <2>3, <2>4
<1> QED
    BY <1>1, <1>3, <1>4 DEF SaveInv, ProjectsTyped

LEMMA DropGroupKeeps ==
    ASSUME ProjectsInv, NEW r \in Requests, DropGroup(r) PROVE ProjectsInv'
<1> USE DEF ProjectsInv
<1> DEFINE g == r.group
<1>1. /\ Goes(r, "start", "done") /\ UNCHANGED <<project, snap, last, mixed>>
      /\ group' = group \ {g} /\ rows' = Unbound(g) /\ r \notin Saves
    BY DEF DropGroup, Saves
<1>2. pc' \in [Requests -> Stages] /\ \A q \in Requests \ {r} : pc'[q] = pc[q]
    BY <1>1, GoesTyped DEF Stages
<1>3. ASSUME NEW q \in Projects
      PROVE  /\ rows'[q] \in [Lists -> SUBSET Bindings]
             /\ rows'[q].apps = rows[q].apps
             /\ rows'[q].groups = {b \in rows[q].groups : b[1] # g}
    BY <1>1 DEF Unbound, ProjectsTyped, Lists
<1>4. ProjectsTyped'
    <2>1. rows' \in [Projects -> [Lists -> SUBSET Bindings]]
        BY <1>1, <1>3 DEF Unbound
    <2> QED
        BY <2>1, <1>1, <1>2 DEF ProjectsTyped
<1>5. ASSUME NEW q \in Projects PROVE AloneInv(q)'
    <2>1. Saving(q)' = Saving(q)
        BY <1>1, <1>2 DEF Saving, Saves
    <2>2. last[q] # None /\ last[q] \notin mixed => last[q] \in Saves /\ pc'[last[q]] = pc[last[q]]
        BY <1>1, <1>2 DEF SaveInv, AloneInv, Saves
    <2>3. Live(q)' = Live(q) /\ AppsOf(q)' = AppsOf(q)
        BY <1>1, <1>3 DEF Live, AppsOf
    <2>4. GroupsOf(q)' = GroupsOf(q) \ {g}
        BY <1>3 DEF GroupsOf
    <2> QED
        BY <2>1, <2>2, <2>3, <2>4, <1>1, <1>3 DEF SaveInv, AloneInv
<1> QED
    BY <1>1, <1>4, <1>5 DEF SaveInv

LEMMA ProjectsStep == ProjectsInv /\ [NextR]_vars => ProjectsInv'
<1> SUFFICES ASSUME ProjectsInv, [NextR]_vars PROVE ProjectsInv'
    OBVIOUS
<1>0. pc \in [Requests -> Stages]
    BY DEF ProjectsInv, ProjectsTyped
<1>1. ASSUME NEW r \in Requests, OnProjects(r) PROVE ProjectsInv'
    <2>1. CASE Save(r)
        <3>1. CASE BeginSave(r)
            BY <3>1, BeginSaveKeeps
        <3>2. ASSUME r \in Saves, NEW list \in Lists, Replace(r, list) \/ Commit(r, list)
              PROVE  ProjectsInv'
            BY <3>2, ReplaceKeeps, CommitKeeps
        <3>3. CASE CutOff(r)
            BY <3>3, CutOffKeeps
        <3> QED
            BY <2>1, <3>1, <3>2, <3>3 DEF Save
    <2>2. CASE NewProject(r)
        BY <2>2, NewProjectKeeps
    <2>3. CASE DropProject(r)
        BY <2>3, DropProjectKeeps
    <2>4. CASE DropGroup(r)
        BY <2>4, DropGroupKeeps
    <2> QED
        BY <1>1, <2>1, <2>2, <2>3, <2>4 DEF OnProjects, ProjectStep
<1>2. ASSUME NEW r \in Requests, SetToken(r) \/ CaptureStep(r) PROVE ProjectsInv'
    <2>1. UNCHANGED <<project, group, rows, snap, last, mixed>> /\ r \notin Saves
        BY <1>2 DEF SetToken, CaptureStep, BeginCapture, ReadRow, ReadToken, Saves
    <2>2. \E a \in Stages, b \in Stages : Goes(r, a, b)
        BY <1>2 DEF SetToken, CaptureStep, BeginCapture, ReadRow, ReadToken, Stages
    <2>3. pc' \in [Requests -> Stages] /\ \A q \in Requests \ {r} : pc'[q] = pc[q]
        BY <2>2, GoesTyped DEF ProjectsInv
    <2>4. \A q \in Saves : pc'[q] = pc[q]
        BY <2>1, <2>3 DEF Saves
    <2> QED
        BY <2>1, <2>3, <2>4, ProjectsKept
<1>3. CASE UNCHANGED projectVars
    BY <1>0, <1>3, ProjectsKept DEF projectVars
<1>4. ASSUME NEW a \in Agents,
             Round(a) \/ Refuse(a) \/ TimeOut(a) \/ Stop(a) \/ ServerStep(a) \/ Cancel(a)
      PROVE  UNCHANGED projectVars
    BY <1>4 DEF Round, Refuse, TimeOut, Stop, ServerStep, Match, Upsert, Cancel
<1> QED
    BY <1>1, <1>2, <1>3, <1>4 DEF NextR, vars

LEMMA ProjectsAlways == SpecR => []ProjectsInv
BY ProjectsInit, ProjectsStep, PTL DEF SpecR

LEMMA Whole == ProjectsInv => ProjectWhole
BY DEF ProjectsInv, SaveInv, AloneInv, ProjectWhole, Settled

(* A save of a project, carried through while no other overlapped it,      *)
(* leaves the project with what it asked for (handleUpdateProject).        *)
THEOREM ProjectWholeAlways == SpecR => []ProjectWhole
BY ProjectsAlways, Whole, PTL

LEMMA Sees == ProjectWhole => ScopeFromSaves
<1> SUFFICES ASSUME ProjectWhole, NEW u \in Users \ Supers
             PROVE  /\ Granted(u) \subseteq Scope(u, None)
                    /\ \A a \in Scope(u, None) \ Granted(u) :
                          \E p \in Reached(u) : ~Settled(p) /\ a \in Scope(u, p)
    BY DEF ScopeFromSaves
<1>1. UserGroups(u) \subseteq group
    BY DEF UserGroups
<1>2. Scope(u, None) = UNION {AppsOf(p) : p \in Reached(u)}
    BY DEF Scope
<1>3. ASSUME NEW p \in Projects, Live(p), Settled(p)
      PROVE  /\ AppsOf(p) = last[p].apps
             /\ p \in Reached(u) <=> last[p].groups \cap UserGroups(u) # {}
    <2>1. AppsOf(p) = last[p].apps /\ GroupsOf(p) = last[p].groups \cap group
        BY <1>3 DEF ProjectWhole
    <2>2. p \in Reached(u) <=> GroupsOf(p) \cap UserGroups(u) # {}
        BY <1>3 DEF Reached
    <2> QED
        BY <2>1, <2>2, <1>1
<1>4. ASSUME NEW a \in Granted(u) PROVE a \in Scope(u, None)
    <2>1. PICK p \in Projects : /\ Live(p) /\ Settled(p) /\ a \in last[p].apps
                                /\ last[p].groups \cap UserGroups(u) # {}
        BY DEF Granted
    <2> QED
        BY <2>1, <1>2, <1>3
<1>5. ASSUME NEW a \in Scope(u, None), a \notin Granted(u)
      PROVE  \E p \in Reached(u) : ~Settled(p) /\ a \in Scope(u, p)
    <2>1. PICK p \in Reached(u) : a \in AppsOf(p)
        BY <1>2
    <2>2. p \in Projects /\ Live(p) /\ p # None
        BY RegistryAssumption DEF Reached
    <2>3. a \in Scope(u, p)
        BY <2>1, <2>2 DEF Scope
    <2>4. ~Settled(p)
        <3> SUFFICES ASSUME Settled(p) PROVE a \in Granted(u)
            BY <1>5
        <3>1. a \in last[p].apps /\ last[p].groups \cap UserGroups(u) # {}
            BY <1>3, <2>1, <2>2
        <3> QED
            BY <3>1, <2>2 DEF Granted
    <2> QED
        BY <2>3, <2>4
<1> QED
    BY <1>4, <1>5

(* What a user sees (scopeFor, LoadAccess) is what the saves give; beyond  *)
(* it only projects whose saves overlapped or were cut off show.           *)
THEOREM ScopeFromSavesAlways == SpecR => []ScopeFromSaves
BY ProjectsAlways, Whole, Sees, PTL

-----------------------------------------------------------------------------
(* Agents *)

LEMMA RegistryInit == InitR => RegistryInv
<1> SUFFICES ASSUME NEW c \in Cases, InitRWith(c) PROVE RegistryInv
    BY DEF InitR
<1>1. proc \in [Agents -> Process]
    BY RegistryAssumption DEF InitRWith
<1>2. pc \in [Requests -> Stages]
    BY DEF InitRWith, InitWith, Stages
<1>3. RegistryTyped
    BY <1>1, <1>2 DEF InitRWith, RegistryTyped, NoPost
<1>4. ProvedInv /\ TokenGoesHome
    BY DEF InitRWith, InitWith, ProvedInv, Proved, TokenGoesHome
<1> QED
    BY <1>3, <1>4 DEF RegistryInv

(* What leaves the rows, the triggers and the history alone keeps it. *)
LEMMA RegistryKept ==
    ASSUME RegistryInv, RegistryTyped', UNCHANGED <<agent, got, sent, proved>>,
           \A r \in Requests : pc'[r] = "token" => pc[r] = "token"
    PROVE  RegistryInv'
<1>1. ProvedInv'
    BY DEF RegistryInv, ProvedInv, Proved
<1>2. TokenGoesHome'
    BY DEF RegistryInv, TokenGoesHome
<1> QED
    BY <1>1, <1>2 DEF RegistryInv

LEMMA PcTyped ==
    ASSUME pc \in [Requests -> Stages], NEW r \in Requests, NEW a, NEW b \in Stages, Goes(r, a, b)
    PROVE  pc' \in [Requests -> Stages] /\ pc[r] = a /\ pc'[r] = b
           /\ \A q \in Requests \ {r} : pc'[q] = pc[q]
BY DEF Goes

LEMMA AgentKeeps ==
    ASSUME RegistryInv, NEW a \in Agents,
           Round(a) \/ Refuse(a) \/ TimeOut(a) \/ Stop(a) \/ Match(a) \/ Cancel(a)
    PROVE  RegistryInv'
<1> USE DEF RegistryInv
<1>1. UNCHANGED <<projectVars, proc, agent, got, sent, proved>>
    BY DEF Round, Refuse, TimeOut, Stop, Match, Cancel
<1>2. post' \in [Agents -> [at : {"none", "match", "upsert"}, project : Projects \cup {None}]]
    <2>1. CASE Match(a)
        <3>1. PICK p \in Projects \cup {None} :
                 post' = [post EXCEPT ![a] = [at |-> "upsert", project |-> p]]
            BY <2>1 DEF Match, TokenProjects
        <3> QED
            BY <3>1 DEF RegistryTyped
    <2>2. CASE Round(a)
        BY <2>2 DEF Round, RegistryTyped
    <2>3. CASE Refuse(a) \/ Cancel(a)
        BY <2>3 DEF Refuse, Cancel, NoPost, RegistryTyped
    <2>4. CASE TimeOut(a) \/ Stop(a)
        BY <2>4 DEF TimeOut, Stop, RegistryTyped
    <2> QED
        BY <2>1, <2>2, <2>3, <2>4
<1>3. RegistryTyped'
    BY <1>1, <1>2 DEF RegistryTyped, projectVars
<1> QED
    BY <1>1, <1>3, RegistryKept DEF projectVars

LEMMA UpsertKeeps ==
    ASSUME RegistryInv, NEW a \in Agents, Upsert(a) PROVE RegistryInv'
<1> USE DEF RegistryInv
<1> DEFINE i == proc[a].instance
           p == post[a].project
<1>1. /\ UNCHANGED <<pc, proc, got, sent>>
      /\ post' = [post EXCEPT ![a] = NoPost]
      /\ \/ /\ agent' = [agent EXCEPT ![i] = Row(a)]
            /\ proved' = IF p = None THEN proved ELSE proved \cup {<<proc[a].host, p>>}
         \/ UNCHANGED <<agent, proved>>
    BY DEF Upsert, projectVars
<1>2. i \in Instances /\ proc[a].host \in Hosts /\ p \in Projects \cup {None}
    BY DEF RegistryTyped, Process
<1>3. Row(a) \in AgentRow /\ Row(a).project = p /\ Row(a).host = proc[a].host
    BY <1>2 DEF Row, AgentRow
<1>4. RegistryTyped'
    BY <1>1, <1>2, <1>3 DEF RegistryTyped, NoPost
<1>5. proved \subseteq proved'
    BY <1>1
<1>6. ASSUME NEW j \in Instances PROVE Proved(agent[j])'
    <2>1. agent'[j] = agent[j] \/ (agent'[j] = Row(a) /\ (p # None => <<proc[a].host, p>> \in proved'))
        BY <1>1, <1>2 DEF RegistryTyped
    <2> QED
        BY <2>1, <1>3, <1>5 DEF ProvedInv, Proved
<1>7. ProvedInv'
    BY <1>1, <1>5, <1>6 DEF ProvedInv, Proved
<1>8. TokenGoesHome'
    BY <1>1, <1>5 DEF TokenGoesHome
<1> QED
    BY <1>4, <1>7, <1>8

LEMMA CaptureKeeps ==
    ASSUME RegistryInv, NEW r \in Requests, CaptureStep(r) PROVE RegistryInv'
<1> USE DEF RegistryInv
<1>1. CASE BeginCapture(r)
    <2>1. UNCHANGED registryVars /\ \E b \in Stages \ {"token"} : Goes(r, "start", b)
        BY <1>1 DEF BeginCapture, Stages
    <2>2. pc' \in [Requests -> Stages] /\ \A q \in Requests : pc'[q] = "token" => pc[q] = "token"
        BY <2>1, PcTyped DEF RegistryTyped
    <2>3. RegistryTyped'
        BY <2>1, <2>2 DEF RegistryTyped, registryVars
    <2> QED
        BY <2>1, <2>2, <2>3, RegistryKept DEF registryVars
<1>2. CASE ReadRow(r)
    <2> DEFINE a == agent[r.instance]
               b == IF a # None /\ a.verified THEN "token" ELSE "refused"
    <2>1. Goes(r, "row", b) /\ got' = [got EXCEPT ![r] = a] /\ UNCHANGED <<proc, agent, post, sent, proved>>
        BY <1>2 DEF ReadRow
    <2>2. r.instance \in Instances
        BY <1>2, RegistryAssumption DEF ReadRow, IsAgentRequest
    <2>3. pc' \in [Requests -> Stages] /\ pc'[r] = b /\ \A q \in Requests \ {r} : pc'[q] = pc[q]
        BY <2>1, PcTyped DEF RegistryTyped, Stages
    <2>4. a \in AgentRow \cup {None} /\ Proved(a)
        BY <2>2 DEF RegistryTyped, ProvedInv
    <2>5. RegistryTyped'
        BY <2>1, <2>3, <2>4 DEF RegistryTyped
    <2>6. got'[r] = a /\ \A q \in Requests \ {r} : got'[q] = got[q]
        BY <2>1 DEF RegistryTyped
    <2>7. ProvedInv'
        BY <2>1, <2>3, <2>4, <2>6 DEF ProvedInv, Proved
    <2> QED
        BY <2>1, <2>5, <2>7 DEF TokenGoesHome
<1>3. CASE ReadToken(r)
    <2> DEFINE owners == {p \in TokenProjects(r.service) : Owns(got[r], p)}
               b == IF owners = {} THEN "refused" ELSE "done"
    <2>1. /\ Goes(r, "token", b) /\ got' = [got EXCEPT ![r] = None]
          /\ UNCHANGED <<proc, agent, post, proved>>
          /\ \/ UNCHANGED sent
             \/ \E p \in owners : sent' = sent \cup {[host |-> got[r].host, project |-> p]}
        BY <1>3 DEF ReadToken
    <2>2. pc' \in [Requests -> Stages] /\ pc[r] = "token" /\ pc'[r] = b
          /\ \A q \in Requests \ {r} : pc'[q] = pc[q]
        BY <2>1, PcTyped DEF RegistryTyped, Stages
    <2>3. RegistryTyped'
        BY <2>1, <2>2 DEF RegistryTyped
    <2>4. ProvedInv'
        <3>1. got'[r] = None /\ \A q \in Requests \ {r} : got'[q] = got[q]
            BY <2>1 DEF RegistryTyped
        <3> QED
            BY <2>1, <2>2, <3>1 DEF ProvedInv, Proved
    <2>5. ASSUME NEW p \in owners PROVE <<got[r].host, p>> \in proved
        <3>1. got[r] # None /\ Proved(got[r])
            BY <2>2 DEF ProvedInv
        <3>2. got[r].project = p /\ p # None
            BY RegistryAssumption DEF Owns, TokenProjects
        <3> QED
            BY <3>1, <3>2 DEF Proved
    <2>6. TokenGoesHome'
        <3>1. CASE UNCHANGED sent
            BY <3>1, <2>1 DEF TokenGoesHome
        <3>2. ASSUME NEW p \in owners, sent' = sent \cup {[host |-> got[r].host, project |-> p]}
              PROVE  TokenGoesHome'
            <4> SUFFICES ASSUME NEW s \in sent' PROVE <<s.host, s.project>> \in proved'
                BY DEF TokenGoesHome
            <4>1. CASE s \in sent
                BY <4>1, <2>1 DEF TokenGoesHome
            <4>2. CASE s = [host |-> got[r].host, project |-> p]
                BY <4>2, <2>1, <2>5
            <4> QED
                BY <3>2, <4>1, <4>2
        <3> QED
            BY <2>1, <3>1, <3>2
    <2> QED
        BY <2>3, <2>4, <2>6
<1> QED
    BY <1>1, <1>2, <1>3 DEF CaptureStep

LEMMA OnProjectsKeeps ==
    ASSUME RegistryInv, pc' \in [Requests -> Stages], NEW r \in Requests, OnProjects(r)
    PROVE  RegistryInv'
<1> USE DEF RegistryInv
<1>1. UNCHANGED <<proc, post, got, sent, proved>>
    BY DEF OnProjects
<1>2. \A q \in Requests : pc'[q] = "token" => pc[q] = "token"
    <2>1. \E a \in Stages, b \in Stages \ {"token"} : Goes(r, a, b)
        <3>1. CASE BeginSave(r)
            BY <3>1 DEF BeginSave, Stages
        <3>2. ASSUME NEW list \in Lists, Replace(r, list) \/ Commit(r, list)
              PROVE  \E a \in Stages, b \in Stages \ {"token"} : Goes(r, a, b)
            <4>1. {list, In(list), After(list), "cut"} \subseteq Stages \ {"token"}
                BY DEF Lists, In, After, Stages
            <4> QED
                BY <3>2, <4>1 DEF Replace, Commit
        <3>3. CASE CutOff(r)
            BY <3>3 DEF CutOff, Stages
        <3>4. CASE NewProject(r) \/ DropProject(r) \/ DropGroup(r)
            BY <3>4 DEF NewProject, DropProject, DropGroup, Stages
        <3> QED
            BY <3>1, <3>2, <3>3, <3>4 DEF OnProjects, ProjectStep, Save
    <2> QED
        BY <2>1, PcTyped DEF RegistryTyped
<1>3. \/ UNCHANGED agent
      \/ \E p \in Projects : agent' = Forgotten(p)
    BY DEF OnProjects
<1>4. ASSUME NEW i \in Instances
      PROVE  agent'[i] \in AgentRow \cup {None} /\ Proved(agent[i])'
    <2>1. CASE UNCHANGED agent
        BY <2>1, <1>1 DEF RegistryTyped, ProvedInv, Proved
    <2>2. ASSUME NEW p \in Projects, agent' = Forgotten(p)
          PROVE  agent'[i] \in AgentRow \cup {None} /\ Proved(agent[i])'
        <3>1. CASE agent[i] # None /\ agent[i].project = p
            <4>1. agent[i] \in AgentRow
                BY <3>1 DEF RegistryTyped
            <4>2. agent'[i] = [agent[i] EXCEPT !.project = None]
                BY <2>2, <3>1 DEF Forgotten
            <4>3. agent'[i] \in AgentRow /\ agent'[i].project = None
                BY <4>1, <4>2 DEF AgentRow
            <4> QED
                BY <4>3 DEF Proved
        <3>2. CASE ~(agent[i] # None /\ agent[i].project = p)
            <4>1. agent'[i] = agent[i]
                BY <2>2, <3>2 DEF Forgotten
            <4> QED
                BY <4>1, <1>1 DEF RegistryTyped, ProvedInv, Proved
        <3> QED
            BY <3>1, <3>2
    <2> QED
        BY <1>3, <2>1, <2>2
<1>5. agent' \in [Instances -> AgentRow \cup {None}]
    BY <1>3, <1>4 DEF Forgotten, RegistryTyped
<1>6. RegistryTyped'
    BY <1>1, <1>5 DEF RegistryTyped
<1>7. ProvedInv'
    BY <1>1, <1>2, <1>4 DEF ProvedInv, Proved
<1> QED
    BY <1>1, <1>6, <1>7 DEF TokenGoesHome

LEMMA RegistryStep ==
    RegistryInv /\ ProjectsInv' /\ [NextR]_vars => RegistryInv'
<1> SUFFICES ASSUME RegistryInv, ProjectsInv', [NextR]_vars PROVE RegistryInv'
    OBVIOUS
<1>0. pc' \in [Requests -> Stages]
    BY DEF ProjectsInv, ProjectsTyped
<1>1. ASSUME NEW a \in Agents,
             Round(a) \/ Refuse(a) \/ TimeOut(a) \/ Stop(a) \/ ServerStep(a) \/ Cancel(a)
      PROVE  RegistryInv'
    BY <1>1, AgentKeeps, UpsertKeeps DEF ServerStep
<1>2. ASSUME NEW r \in Requests, OnProjects(r) PROVE RegistryInv'
    BY <1>0, <1>2, OnProjectsKeeps
<1>3. ASSUME NEW r \in Requests, SetToken(r) PROVE RegistryInv'
    <2>1. UNCHANGED <<proc, agent, post, got, sent, proved>> /\ Goes(r, "start", "done")
        BY <1>3 DEF SetToken
    <2>2. RegistryTyped' /\ \A q \in Requests : pc'[q] = "token" => pc[q] = "token"
        BY <1>0, <2>1, PcTyped DEF RegistryInv, RegistryTyped, Stages
    <2> QED
        BY <2>1, <2>2, RegistryKept
<1>4. ASSUME NEW r \in Requests, CaptureStep(r) PROVE RegistryInv'
    BY <1>4, CaptureKeeps
<1>5. CASE UNCHANGED vars
    <2>1. UNCHANGED <<pc, proc, agent, post, got, sent, proved>>
        BY <1>5 DEF vars, projectVars, registryVars
    <2>2. RegistryTyped'
        BY <2>1 DEF RegistryInv, RegistryTyped
    <2> QED
        BY <2>1, <2>2, RegistryKept
<1> QED
    BY <1>1, <1>2, <1>3, <1>4, <1>5 DEF NextR

(* Between the read of the row and the read of the token, and whatever is  *)
(* saved, deleted or registered meanwhile, GetAgent pairs an address with  *)
(* no token it has not registered for.                                     *)
THEOREM TokenGoesHomeAlways == SpecR => []TokenGoesHome
<1>1. RegistryInv => TokenGoesHome
    BY DEF RegistryInv
<1> QED
    BY <1>1, RegistryInit, RegistryStep, ProjectsAlways, PTL DEF SpecR
=============================================================================
