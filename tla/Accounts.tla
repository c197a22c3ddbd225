------------------------------ MODULE Accounts ------------------------------
(***************************************************************************)
(* Accounts of the control plane: internal/identity/store.go over          *)
(* PostgreSQL, as the handlers of internal/api/admin.go and auth.go drive  *)
(* it.                                                                     *)
(*                                                                         *)
(* Every handler is a request of its own goroutine, and every SQL          *)
(* statement a step: another request may run between any two.  Only the    *)
(* replacement of a user's role groups is a transaction, at PostgreSQL's   *)
(* default isolation, READ COMMITTED: a statement sees what was committed  *)
(* when it began, and waits for the rows other transactions have locked.   *)
(***************************************************************************)
EXTENDS Naturals, FiniteSets

CONSTANTS Users,     \* the accounts there may be
          Groups,    \* the role groups
          Managing,  \* the groups that carry admin.manage
          Requests,  \* the requests that may be made, each once
          MaxMade,   \* bound: how many of them are made
          Starts,    \* the accounts there may be at first
          None

Kinds == {"create", "update", "delete", "reset", "own", "signin", "logout"}

(* A request: which handler, whose session it comes with, the user it is   *)
(* about, and for create and update what it asks for.                      *)
IsRequest(r) ==
    /\ r.kind \in Kinds
    /\ r.actor \in Users
    /\ r.user \in Users
    /\ r.admin \in BOOLEAN
    /\ r.active \in BOOLEAN
    /\ r.groups \subseteq Groups
    /\ r.kind \in {"own", "logout"} => r.user = r.actor
    /\ r.kind = "create" => r.active

Account == [row : {"none", "live", "gone"}, admin : BOOLEAN, active : BOOLEAN, password : Nat]

VARIABLES
    account,    \* the users table; "gone" is a row that has been deleted
    member,     \* member[u]: the rows <<g, r>> of u's groups, r the request that
                \* inserted it
    sessions,   \* the sessions table: whose, and the password it was opened with
    pc,         \* pc[r]: the next step of request r
    read,       \* read[r]: the password a sign-in has verified
    snap,       \* snap[r]: the rows r's DELETE sees
    held,       \* held[r]: the rows r's transaction has deleted and locked
    (* History, read by no action *)
    late,       \* the sessions opened with a password changed in the meantime
    cutOff,     \* the users whose password change was not carried through
    overlapped, \* two changes to accounts have been under way at once
    last,       \* last[u]: the request that last saved u's groups, or None
    during      \* during[r]: the requests that saved them while r was saving

tables  == <<account, member, sessions>>
saving  == <<snap, held>>
history == <<late, cutOff, overlapped, last, during>>
vars == <<account, member, sessions, pc, read, snap, held,
          late, cutOff, overlapped, last, during>>

Live(u)   == account[u].row = "live"
Active(u) == Live(u) /\ account[u].active
IsAdmin(a, u) == a[u].row = "live" /\ a[u].admin /\ a[u].active
AdminsOf(a)   == {u \in Users : IsAdmin(a, u)}
Admins        == AdminsOf(account)
GroupsOf(u)   == {m[1] : m \in member[u]}

(* Bootstrap has created an administrator before the first request. *)
ASSUME AccountsAssumption ==
    /\ Managing \subseteq Groups
    /\ \A r \in Requests : IsRequest(r)
    /\ Starts \subseteq [Users -> Account]
    /\ \A a \in Starts : AdminsOf(a) # {}
    /\ MaxMade \in Nat
    /\ None \notin Requests

Session(u, by) == [user |-> u, password |-> account[u].password, by |-> by]

Init ==
    /\ account \in Starts
    /\ member = [u \in Users |-> {}]
    /\ sessions = {Session(u, None) : u \in {v \in Users : Live(v)}}
    /\ pc = [r \in Requests |-> "start"]
    /\ read = [r \in Requests |-> 0]
    /\ snap = [r \in Requests |-> {}]
    /\ held = [r \in Requests |-> {}]
    /\ late = {}
    /\ cutOff = {}
    /\ overlapped = FALSE
    /\ last = [u \in Users |-> None]
    /\ during = [r \in Requests |-> {}]

-----------------------------------------------------------------------------
Made == {r \in Requests : pc[r] # "start"}

Goes(r, from, to) ==
    /\ pc[r] = from
    /\ from = "start" => Cardinality(Made) < MaxMade
    /\ pc' = [pc EXCEPT ![r] = to]

(* withSession: a session of an active user. *)
SignedIn(r) == Active(r.actor) /\ \E s \in sessions : s.user = r.actor

(* requirePermission(PermAdmin) *)
MayManage(r) ==
    SignedIn(r) /\ (account[r.actor].admin \/ GroupsOf(r.actor) \cap Managing # {})

(* An id in a request was read from a row. *)
Known(u) == account[u].row # "none"

(* The requests between the beginning and the end of a change to users. *)
Changing == {r \in Requests : pc[r] \in {"check", "count", "apply"}}

-----------------------------------------------------------------------------
(* UpdateUser and DeleteUser *)

(* Whether an update may cost the system an administrator. *)
MayDemote(r) == ~r.admin \/ ~r.active

Begin(r) ==
    /\ MayManage(r)
    /\ Known(r.user)
    /\ \/ r.kind = "update" /\ Goes(r, "start", IF MayDemote(r) THEN "check" ELSE "apply")
       \/ r.kind = "delete" /\ Goes(r, "start", IF r.user = r.actor THEN "done" ELSE "check")
    /\ overlapped' = (overlapped \/ Changing # {})
    /\ UNCHANGED <<tables, read, saving, late, cutOff, last, during>>

(* isLastActiveAdmin, first query: no administrator, no check. *)
Check(r) ==
    /\ Goes(r, "check", IF IsAdmin(account, r.user) THEN "count" ELSE "apply")
    /\ UNCHANGED <<tables, read, saving, history>>

(* The other active administrators; in the mutant, the other               *)
(* administrators.                                                         *)
OthersAny(u) == {v \in Users \ {u} : Live(v) /\ account[v].admin}
Others(u)    == Admins \ {u}

(* isLastActiveAdmin, second query. *)
Count(r) ==
    /\ Goes(r, "count", IF Others(r.user) = {} THEN "done" ELSE "apply")
    /\ UNCHANGED <<tables, read, saving, history>>

(* The UPDATE; a row that is gone is not found, and that is the end. *)
ApplyUpdate(r) ==
    /\ r.kind = "update"
    /\ Goes(r, "apply", IF Live(r.user) THEN "save" ELSE "done")
    /\ account' = IF Live(r.user)
                  THEN [account EXCEPT ![r.user].admin = r.admin, ![r.user].active = r.active]
                  ELSE account
    /\ UNCHANGED <<member, sessions, read, saving, history>>

(* The DELETE, which takes the user's sessions and memberships along and   *)
(* waits for the rows a transaction has locked.                            *)
ApplyDelete(r) ==
    /\ r.kind = "delete"
    /\ Goes(r, "apply", "done")
    /\ \A q \in Requests : q.user = r.user => held[q] = {}
    /\ account' = IF Live(r.user) THEN [account EXCEPT ![r.user].row = "gone"] ELSE account
    /\ sessions' = {s \in sessions : s.user # r.user}
    /\ member' = [member EXCEPT ![r.user] = {}]
    /\ UNCHANGED <<read, saving, history>>

(* CreateUser: a row with an id of its own; an email that is taken is the  *)
(* end.                                                                    *)
Create(r) ==
    /\ r.kind = "create"
    /\ MayManage(r)
    /\ account[r.user].row # "gone"
    /\ Goes(r, "start", IF Live(r.user) THEN "done" ELSE "save")
    /\ account' = IF Live(r.user) THEN account
                  ELSE [account EXCEPT ![r.user] = [row |-> "live", admin |-> r.admin,
                                                    active |-> TRUE, password |-> 0]]
    /\ UNCHANGED <<member, sessions, read, saving, history>>

-----------------------------------------------------------------------------
(* SetUserRoleGroups, after either of them: BEGIN, DELETE, INSERTs, COMMIT. *)

SnapshotTaken(r) ==
    /\ Goes(r, "save", "remove")
    /\ snap' = [snap EXCEPT ![r] = member[r.user]]
    /\ during' = [during EXCEPT ![r] = {}]
    /\ UNCHANGED <<tables, read, held, late, cutOff, overlapped, last>>

(* Another transaction holds none of these rows. *)
Unlocked(r, rows) == \A q \in Requests \ {r} : q.user = r.user => held[q] \cap rows = {}

(* The rows the DELETE finds; in the mutant, those of the groups asked for. *)
FoundAsked(r) == {m \in snap[r] \cap member[r.user] : m[1] \in r.groups}
Found(r)      == snap[r] \cap member[r.user]

Remove(r) ==
    /\ Unlocked(r, snap[r])
    /\ Goes(r, "remove", "insert")
    /\ held' = [held EXCEPT ![r] = Found(r)]
    /\ UNCHANGED <<tables, read, snap, history>>

Remaining(r) == member[r.user] \ held[r]
Inserted(r)  == {<<g, r>> : g \in {h \in r.groups : \A m \in Remaining(r) : m[1] # h}}

(* ON CONFLICT DO NOTHING, but not before a deletion of the same row is    *)
(* decided.  A user who is gone fails the foreign key: rollback.           *)
Insert(r) ==
    /\ \A g \in r.groups : Unlocked(r, {m \in member[r.user] : m[1] = g})
    /\ Goes(r, "insert", "done")
    /\ held' = [held EXCEPT ![r] = {}]
    /\ IF Live(r.user)
       THEN /\ member' = [member EXCEPT ![r.user] = Remaining(r) \cup Inserted(r)]
            /\ last' = [last EXCEPT ![r.user] = r]
            /\ during' = [q \in Requests |->
                  IF q # r /\ q.user = r.user /\ pc[q] \in {"remove", "insert"}
                  THEN during[q] \cup {r} ELSE during[q]]
       ELSE UNCHANGED <<member, last, during>>
    /\ UNCHANGED <<account, sessions, read, snap, late, cutOff, overlapped>>

-----------------------------------------------------------------------------
(* SetPassword, by an administrator or by the user, who is asked for the   *)
(* old one first.                                                          *)
BeginPassword(r) ==
    /\ \/ r.kind = "reset" /\ MayManage(r) /\ Known(r.user)
       \/ r.kind = "own" /\ SignedIn(r)
    /\ Goes(r, "start", "change")
    /\ UNCHANGED <<tables, read, saving, history>>

ChangePassword(r) ==
    /\ Goes(r, "change", IF Live(r.user) THEN "close" ELSE "done")
    /\ account' = IF Live(r.user) THEN [account EXCEPT ![r.user].password = @ + 1] ELSE account
    /\ UNCHANGED <<member, sessions, read, saving, history>>

(* The sessions that stay; in the mutant, also one of the user's own, so   *)
(* as not to sign him out.                                                 *)
KeptOne(u) == {s \in sessions : s.user # u \/ s.by = None}
Kept(u)    == {s \in sessions : s.user # u}

CloseSessions(r) ==
    /\ Goes(r, "close", "done")
    /\ sessions' = Kept(r.user)
    /\ cutOff' = cutOff \ {r.user}
    /\ UNCHANGED <<account, member, read, saving, late, overlapped, last, during>>

-----------------------------------------------------------------------------
(* Sign-in: Authenticate reads the row and checks the password, which      *)
(* takes a while; then the session is inserted, for a user that exists.    *)
Authenticate(r) ==
    /\ r.kind = "signin"
    /\ Active(r.user)
    /\ Goes(r, "start", "open")
    /\ read' = [read EXCEPT ![r] = account[r.user].password]
    /\ UNCHANGED <<tables, saving, history>>

CreateSession(r) ==
    LET s == [user |-> r.user, password |-> read[r], by |-> r] IN
    /\ Goes(r, "open", "done")
    /\ IF Live(r.user)
       THEN /\ sessions' = sessions \cup {s}
            /\ late' = IF read[r] # account[r.user].password THEN late \cup {s} ELSE late
       ELSE UNCHANGED <<sessions, late>>
    /\ UNCHANGED <<account, member, read, saving, cutOff, overlapped, last, during>>

Logout(r) ==
    /\ r.kind = "logout"
    /\ SignedIn(r)
    /\ Goes(r, "start", "done")
    /\ \E s \in sessions : s.user = r.user /\ sessions' = sessions \ {s}
    /\ UNCHANGED <<account, member, read, saving, history>>

(* A session that has expired is found no more, purged or not. *)
ExpireSession ==
    /\ \E s \in sessions : sessions' = sessions \ {s}
    /\ UNCHANGED <<account, member, pc, read, saving, history>>

(* The database fails, the process restarts or the browser goes away: the  *)
(* rest of the request is not run, and a transaction is rolled back.       *)
Abandon(r) ==
    /\ pc[r] \notin {"start", "done"}
    /\ Goes(r, pc[r], "done")
    /\ held' = [held EXCEPT ![r] = {}]
    /\ cutOff' = IF pc[r] = "close" THEN cutOff \cup {r.user} ELSE cutOff
    /\ UNCHANGED <<tables, read, snap, late, overlapped, last, during>>

-----------------------------------------------------------------------------
UserStep(r) == Begin(r) \/ Check(r) \/ Count(r) \/ ApplyUpdate(r) \/ ApplyDelete(r) \/ Create(r)
SaveStep(r) == SnapshotTaken(r) \/ Remove(r) \/ Insert(r)
PasswordStep(r) == BeginPassword(r) \/ ChangePassword(r) \/ CloseSessions(r)
SessionStep(r) == Authenticate(r) \/ CreateSession(r) \/ Logout(r)

Next ==
    \/ \E r \in Requests :
         UserStep(r) \/ SaveStep(r) \/ PasswordStep(r) \/ SessionStep(r) \/ Abandon(r)
    \/ ExpireSession

Spec == Init /\ [][Next]_vars

-----------------------------------------------------------------------------
(* Properties *)

(* "The last administrator in the system cannot be demoted, deactivated or *)
(* deleted."                                                               *)
AdminRemains == Admins # {}

(* That holds as long as no two changes to users overlap: the check and    *)
(* the write are not one transaction, but between them they cover every    *)
(* way of losing the last active administrator.                            *)
AdminRemainsAlone == overlapped \/ AdminRemains

(* "Once the password changes, the old sessions must stop working": a      *)
(* session opened with an older password is about to be closed, or was     *)
(* left by a change that was cut off, or was opened by a sign-in that had  *)
(* verified the old password before the change and came back after it.     *)
OldSessionsClosed ==
    \A s \in sessions :
        \/ s.password = account[s.user].password
        \/ s \in late
        \/ s.user \in cutOff
        \/ \E r \in Requests : r.user = s.user /\ pc[r] = "close"

(* "SetUserRoleGroups replaces the user's groups with the given set": the  *)
(* user has every group of the last save, and beyond them only groups of   *)
(* saves that ran into it; nothing older comes through.                    *)
GroupsFromSaves ==
    \A u \in Users : (Live(u) /\ last[u] # None) =>
        /\ last[u].groups \subseteq GroupsOf(u)
        /\ GroupsOf(u) \subseteq last[u].groups \cup UNION {q.groups : q \in during[last[u]]}
=============================================================================
