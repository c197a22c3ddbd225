--------------------------- MODULE AccountsProofs ---------------------------
(***************************************************************************)
(* Proofs about the accounts, for any users, groups and requests.          *)
(***************************************************************************)
EXTENDS Accounts, TLAPS

ChangeStages == {"check", "count", "apply"}
SaveStages   == {"remove", "insert"}
Stages == ChangeStages \cup SaveStages \cup {"start", "save", "change", "close", "open", "done"}
Rows == Groups \X Requests

Typed ==
    /\ account \in [Users -> Account]
    /\ member \in [Users -> SUBSET Rows]
    /\ sessions \in SUBSET [user : Users, password : Nat, by : Requests \cup {None}]
    /\ pc \in [Requests -> Stages]
    /\ read \in [Requests -> Nat]
    /\ snap \in [Requests -> SUBSET Rows]
    /\ held \in [Requests -> SUBSET Rows]
    /\ overlapped \in BOOLEAN
    /\ last \in [Users -> Requests \cup {None}]
    /\ during \in [Requests -> SUBSET Requests]

(* Does request r, when it writes, take an administrator away? *)
Takes(r) == r.kind = "delete" \/ MayDemote(r)

(* Alone, a request that is about to take an administrator away has seen   *)
(* another one, who is still there.                                        *)
AloneInv ==
    ~overlapped =>
        /\ Admins # {}
        /\ \A q, r \in Changing : q = r
        /\ \A r \in Requests : pc[r] = "apply" /\ Takes(r) => Others(r.user) # {}

(* Only users that exist have sessions. *)
SessionInv == OldSessionsClosed /\ \A s \in sessions : Live(s.user)

(* What a save has not seen was inserted by a save that ran into it. *)
SaveInv ==
    /\ \A u \in Users : \A m \in member[u] : m[1] \in m[2].groups
    /\ \A r \in Requests :
          /\ pc[r] = "remove" => \A m \in member[r.user] \ snap[r] : m[2] \in during[r]
          /\ pc[r] = "insert" => \A m \in member[r.user] \ held[r] : m[2] \in during[r]
    /\ \A u \in Users : last[u] # None => account[u].row # "none" /\ pc[last[u]] = "done"
    /\ GroupsFromSaves

-----------------------------------------------------------------------------
LEMMA RequestShape ==
    ASSUME NEW r \in Requests
    PROVE  /\ r.kind \in Kinds /\ r.actor \in Users /\ r.user \in Users
           /\ r.admin \in BOOLEAN /\ r.active \in BOOLEAN /\ r.groups \subseteq Groups
BY AccountsAssumption DEF IsRequest

(* Every step of a request is one of these. *)
LEMMA Steps ==
    ASSUME Next
    PROVE  \/ \E r \in Requests :
                \/ Begin(r) \/ Check(r) \/ Count(r) \/ ApplyUpdate(r) \/ ApplyDelete(r)
                \/ Create(r) \/ SnapshotTaken(r) \/ Remove(r) \/ Insert(r) \/ BeginPassword(r)
                \/ ChangePassword(r) \/ CloseSessions(r) \/ Authenticate(r)
                \/ CreateSession(r) \/ Logout(r) \/ Abandon(r)
           \/ ExpireSession
BY DEF Next, UserStep, SaveStep, PasswordStep, SessionStep

LEMMA InitTyped == Init => Typed
<1> SUFFICES ASSUME Init PROVE Typed
    OBVIOUS
<1>1. account \in [Users -> Account]
    BY AccountsAssumption DEF Init
<1>2. sessions \in SUBSET [user : Users, password : Nat, by : Requests \cup {None}]
    BY <1>1 DEF Init, Session, Account
<1> QED BY <1>1, <1>2 DEF Init, Typed, Stages, ChangeStages, SaveStages

(* A row that has been changed is a row. *)
LEMMA ChangedRow ==
    ASSUME NEW a \in Account, NEW x \in BOOLEAN, NEW y \in BOOLEAN
    PROVE  /\ [a EXCEPT !.password = a.password + 1] \in Account
           /\ [a EXCEPT !.row = "gone"] \in Account
           /\ [a EXCEPT !.admin = x, !.active = y] \in Account
<1>1. a.password + 1 \in Nat
    BY DEF Account
<1>2. [a EXCEPT !.password = a.password + 1] \in Account
    BY <1>1, Zenon DEF Account
<1>3. [a EXCEPT !.row = "gone"] \in Account
    BY Zenon DEF Account
<1>4. [a EXCEPT !.admin = x, !.active = y] \in Account
    <2>1. [a EXCEPT !.admin = x] \in Account
        BY Zenon DEF Account
    <2> QED BY <2>1, Zenon DEF Account
<1> QED BY <1>2, <1>3, <1>4

LEMMA TypedStep == ASSUME Typed, [Next]_vars PROVE Typed'
<1>1. CASE UNCHANGED vars
    BY <1>1 DEF Typed, vars
<1>2. CASE ExpireSession
    BY <1>2 DEF ExpireSession, Typed, saving, history
<1>3. ASSUME NEW r \in Requests,
             Begin(r) \/ Check(r) \/ Count(r) \/ ApplyUpdate(r) \/ ApplyDelete(r)
      PROVE  Typed'
    <2> USE RequestShape DEF Typed, tables, saving, history, Goes, Stages, ChangeStages, SaveStages
    <2>1. CASE Begin(r)
        BY <2>1 DEF Begin
    <2>2. CASE Check(r) \/ Count(r)
        BY <2>2 DEF Check, Count
    <2>3. CASE ApplyUpdate(r)
        <3>1. account' \in [Users -> Account]
            <4> DEFINE row == [account[r.user] EXCEPT !.admin = r.admin, !.active = r.active]
            <4>1. row \in Account
                BY ChangedRow
            <4>2. account' = account \/ account' = [account EXCEPT ![r.user] = row]
                BY <2>3 DEF ApplyUpdate
            <4> QED BY <4>1, <4>2
        <3> QED BY <2>3, <3>1 DEF ApplyUpdate
    <2>4. CASE ApplyDelete(r)
        <3>1. account' \in [Users -> Account]
            <4> DEFINE row == [account[r.user] EXCEPT !.row = "gone"]
            <4>1. row \in Account
                BY ChangedRow
            <4>2. account' = account \/ account' = [account EXCEPT ![r.user] = row]
                BY <2>4 DEF ApplyDelete
            <4> QED BY <4>1, <4>2
        <3> QED BY <2>4, <3>1 DEF ApplyDelete
    <2> QED BY <1>3, <2>1, <2>2, <2>3, <2>4
<1>4. ASSUME NEW r \in Requests, Create(r) \/ SnapshotTaken(r) \/ Remove(r) \/ Insert(r)
      PROVE  Typed'
    <2> USE RequestShape DEF Typed, tables, saving, history, Goes, Stages, ChangeStages, SaveStages
    <2>1. CASE Create(r)
        BY <2>1 DEF Create, Account
    <2>2. CASE SnapshotTaken(r)
        BY <2>2 DEF SnapshotTaken
    <2>3. CASE Remove(r)
        BY <2>3 DEF Remove, Found
    <2>4. CASE Insert(r)
        <3>1. Remaining(r) \cup Inserted(r) \in SUBSET Rows
            BY DEF Remaining, Inserted, Rows
        <3>2. member' \in [Users -> SUBSET Rows] /\ last' \in [Users -> Requests \cup {None}]
            BY <2>4, <3>1 DEF Insert
        <3>3. during' \in [Requests -> SUBSET Requests]
            BY <2>4 DEF Insert
        <3> QED BY <2>4, <3>2, <3>3 DEF Insert
    <2> QED BY <1>4, <2>1, <2>2, <2>3, <2>4
<1>5. ASSUME NEW r \in Requests,
             BeginPassword(r) \/ ChangePassword(r) \/ CloseSessions(r) \/ Authenticate(r)
                \/ CreateSession(r) \/ Logout(r) \/ Abandon(r)
      PROVE  Typed'
    <2> USE RequestShape DEF Typed, tables, saving, history, Goes, Stages, ChangeStages, SaveStages
    <2>1. CASE BeginPassword(r)
        BY <2>1 DEF BeginPassword
    <2>2. CASE ChangePassword(r)
        <3>1. account' \in [Users -> Account]
            <4> DEFINE row == [account[r.user] EXCEPT !.password = account[r.user].password + 1]
            <4>1. row \in Account
                BY ChangedRow
            <4>2. account' = account \/ account' = [account EXCEPT ![r.user] = row]
                BY <2>2 DEF ChangePassword
            <4> QED BY <4>1, <4>2
        <3> QED BY <2>2, <3>1 DEF ChangePassword
    <2>3. CASE CloseSessions(r)
        BY <2>3 DEF CloseSessions, Kept
    <2>4. CASE Authenticate(r)
        BY <2>4 DEF Authenticate, Account
    <2>5. CASE CreateSession(r)
        BY <2>5 DEF CreateSession
    <2>6. CASE Logout(r)
        <3>1. sessions' \subseteq sessions
            BY <2>6 DEF Logout
        <3>2. pc' \in [Requests -> Stages]
            BY <2>6 DEF Logout
        <3> QED BY <2>6, <3>1, <3>2 DEF Logout
    <2>7. CASE Abandon(r)
        BY <2>7 DEF Abandon
    <2> QED BY <1>5, <2>1, <2>2, <2>3, <2>4, <2>5, <2>6, <2>7
<1> QED BY <1>1, <1>2, <1>3, <1>4, <1>5, Steps

-----------------------------------------------------------------------------
LEMMA InitAlone == Init => AloneInv
BY AccountsAssumption DEF Init, AloneInv, Admins, Changing

(* No administrator is lost, and no change to users gets further. *)
LEMMA AloneFrame ==
    ASSUME AloneInv, Typed,
           Admins \subseteq Admins', overlapped' = overlapped,
           NEW r \in Requests, NEW to \in Stages \ ChangeStages, pc' = [pc EXCEPT ![r] = to]
    PROVE  AloneInv'
<1>1. \A q \in Requests : pc'[q] \in ChangeStages => pc'[q] = pc[q]
    BY DEF Typed
<1>2. Changing' \subseteq Changing
    BY <1>1 DEF Changing, ChangeStages
<1>3. \A u : Others(u) \subseteq Others(u)'
    BY DEF Others
<1>4. \A q \in Requests : pc'[q] = "apply" => pc[q] = "apply"
    BY <1>1 DEF ChangeStages
<1> QED BY <1>2, <1>3, <1>4 DEF AloneInv, Takes, MayDemote

(* The one change to users goes on to its next stage; an administrator     *)
(* will remain if it takes one away.                                       *)
LEMMA AloneChange ==
    ASSUME AloneInv, Typed, NEW r \in Requests, NEW to \in Stages,
           account' = account, pc' = [pc EXCEPT ![r] = to],
           overlapped' \/ (overlapped' = overlapped /\ Changing \subseteq {r}),
           to = "apply" => (Takes(r) => Others(r.user) # {})
    PROVE  AloneInv'
<1> SUFFICES ASSUME ~overlapped' PROVE AloneInv'
    BY DEF AloneInv
<1>1. Admins' = Admins /\ \A u : Others(u)' = Others(u)
    BY DEF Admins, AdminsOf, Others
<1>2. Changing' \subseteq {r}
    BY DEF Changing, Typed
<1>3. \A q \in Requests : pc'[q] = "apply" => q = r /\ to = "apply"
    BY <1>2 DEF Changing, Typed
<1> QED BY <1>1, <1>2, <1>3 DEF AloneInv, Takes, MayDemote

LEMMA AloneStep == ASSUME AloneInv, Typed, [Next]_vars PROVE AloneInv'
<1>1. CASE UNCHANGED vars
    BY <1>1 DEF vars, AloneInv, Admins, AdminsOf, Changing, Takes, MayDemote, Others
<1>2. CASE ExpireSession
    BY <1>2 DEF ExpireSession, saving, history,
                AloneInv, Admins, AdminsOf, Changing, Takes, MayDemote, Others
<1>3. ASSUME NEW r \in Requests, Begin(r) PROVE AloneInv'
    <2>1. PICK to \in {"check", "apply", "done"} :
             pc' = [pc EXCEPT ![r] = to] /\ (to = "apply" => ~Takes(r))
        BY <1>3 DEF Begin, Goes, Takes
    <2>2. overlapped' \/ (overlapped' = overlapped /\ Changing \subseteq {r})
        BY <1>3 DEF Begin, Typed
    <2> QED BY <1>3, <2>1, <2>2, AloneChange DEF Begin, tables, Stages, ChangeStages
<1>4. ASSUME NEW r \in Requests, Check(r) \/ Count(r) PROVE AloneInv'
    <2>1. overlapped' = overlapped /\ account' = account /\ r \in Changing
        BY <1>4 DEF Check, Count, Goes, history, tables, Changing
    <2>2. CASE overlapped
        BY <2>1, <2>2 DEF AloneInv
    <2>3. CASE ~overlapped
        <3>1. Changing \subseteq {r} /\ Admins # {}
            BY <2>1, <2>3 DEF AloneInv
        <3>2. ~IsAdmin(account, r.user) => Others(r.user) # {}
            BY <3>1 DEF Others, Admins, AdminsOf
        <3>3. PICK to \in {"count", "apply", "done"} :
                 pc' = [pc EXCEPT ![r] = to] /\ (to = "apply" => Others(r.user) # {})
            BY <1>4, <3>2 DEF Check, Count, Goes
        <3> QED BY <2>1, <3>1, <3>3, AloneChange DEF Stages, ChangeStages
    <2> QED BY <2>2, <2>3
<1>5. ASSUME NEW r \in Requests, ApplyUpdate(r) \/ ApplyDelete(r) PROVE AloneInv'
    <2>1. overlapped' = overlapped /\ pc[r] = "apply" /\ r \in Changing
        BY <1>5 DEF ApplyUpdate, ApplyDelete, Goes, history, Changing
    <2>2. CASE overlapped
        BY <2>1, <2>2 DEF AloneInv
    <2>3. CASE ~overlapped
        <3>1. Changing \subseteq {r}
            BY <2>1, <2>3 DEF AloneInv
        <3>2. \A q \in Requests : pc'[q] \notin ChangeStages
            BY <1>5, <3>1 DEF ApplyUpdate, ApplyDelete, Goes, Typed, Changing, ChangeStages
        <3>3. \A u \in Users \ {r.user} : account'[u] = account[u]
            BY <1>5 DEF ApplyUpdate, ApplyDelete, Typed
        <3>4. CASE Takes(r)
            <4>1. Others(r.user) \subseteq Admins'
                BY <3>3 DEF Others, Admins, AdminsOf, IsAdmin
            <4> QED BY <2>1, <2>3, <3>2, <3>4, <4>1 DEF AloneInv, Changing, ChangeStages
        <3>5. CASE ~Takes(r)
            <4>1. ApplyUpdate(r) /\ r.admin /\ r.active
                BY <1>5, <3>5, RequestShape DEF Takes, MayDemote, ApplyDelete
            <4>2. Admins \subseteq Admins'
                <5>1. Live(r.user) => IsAdmin(account', r.user)
                    BY <4>1, RequestShape DEF ApplyUpdate, Typed, Account, IsAdmin, Live
                <5>2. ~Live(r.user) => account' = account
                    BY <4>1 DEF ApplyUpdate
                <5> QED BY <3>3, <5>1, <5>2 DEF Admins, AdminsOf, IsAdmin, Live
            <4> QED BY <2>1, <2>3, <3>2, <4>2 DEF AloneInv, Changing, ChangeStages
        <3> QED BY <3>4, <3>5
    <2> QED BY <2>2, <2>3
<1>6. ASSUME NEW r \in Requests,
             Create(r) \/ SnapshotTaken(r) \/ Remove(r) \/ Insert(r) \/ BeginPassword(r)
                \/ ChangePassword(r) \/ CloseSessions(r) \/ Authenticate(r)
                \/ CreateSession(r) \/ Logout(r) \/ Abandon(r)
      PROVE  AloneInv'
    <2>1. overlapped' = overlapped
        BY <1>6 DEF Create, SnapshotTaken, Remove, Insert, BeginPassword, ChangePassword,
                    CloseSessions, Authenticate, CreateSession, Logout, Abandon, history
    <2>2. PICK to \in Stages \ ChangeStages : pc' = [pc EXCEPT ![r] = to]
        BY <1>6 DEF Create, SnapshotTaken, Remove, Insert, BeginPassword, ChangePassword,
                    CloseSessions, Authenticate, CreateSession, Logout, Abandon, Goes,
                    Stages, ChangeStages, SaveStages
    <2>3. Admins \subseteq Admins'
        <3>1. CASE account' = account
            BY <3>1 DEF Admins, AdminsOf
        <3>2. CASE Create(r)
            BY <3>2 DEF Create, Typed, Admins, AdminsOf, IsAdmin, Live
        <3>3. CASE ChangePassword(r)
            <4>1. \A u \in Users : IsAdmin(account, u) => IsAdmin(account', u)
                BY <3>3, RequestShape DEF ChangePassword, Typed, Account, IsAdmin
            <4> QED BY <4>1 DEF Admins, AdminsOf
        <3> QED BY <1>6, <3>1, <3>2, <3>3
                DEF SnapshotTaken, Remove, Insert, BeginPassword, CloseSessions, Authenticate,
                    CreateSession, Logout, Abandon, tables
    <2> QED BY <2>1, <2>2, <2>3, AloneFrame
<1> QED BY <1>1, <1>2, <1>3, <1>4, <1>5, <1>6, Steps

-----------------------------------------------------------------------------
LEMMA InitSession == Init => SessionInv
BY DEF Init, SessionInv, OldSessionsClosed, Session

(* No session is added, no account touched, and no password change leaves  *)
(* off before its sessions are closed.                                     *)
LEMMA SessionFrame ==
    ASSUME SessionInv, Typed, sessions' \subseteq sessions, account' = account,
           UNCHANGED <<late, cutOff>>,
           NEW r \in Requests, NEW to, pc' = [pc EXCEPT ![r] = to], pc[r] # "close"
    PROVE  SessionInv'
BY DEF SessionInv, OldSessionsClosed, Typed, Live

LEMMA SessionStepInv == ASSUME SessionInv, Typed, [Next]_vars PROVE SessionInv'
<1> USE DEF SessionInv, OldSessionsClosed
<1>1. CASE UNCHANGED vars \/ ExpireSession
    <2>1. sessions' \subseteq sessions /\ UNCHANGED <<account, pc, late, cutOff>>
        BY <1>1 DEF vars, ExpireSession, history
    <2> QED BY <2>1 DEF Live
<1>2. ASSUME NEW r \in Requests,
             Begin(r) \/ Check(r) \/ Count(r) \/ SnapshotTaken(r) \/ Remove(r) \/ Insert(r)
                \/ BeginPassword(r) \/ Authenticate(r) \/ Logout(r)
      PROVE  SessionInv'
    <2>1. /\ sessions' \subseteq sessions /\ account' = account /\ UNCHANGED <<late, cutOff>>
          /\ pc[r] # "close" /\ \E to : pc' = [pc EXCEPT ![r] = to]
        BY <1>2 DEF Begin, Check, Count, SnapshotTaken, Remove, Insert, BeginPassword,
                    Authenticate, Logout, Goes, tables, history
    <2> QED BY <2>1, SessionFrame
<1>3. ASSUME NEW r \in Requests, ApplyUpdate(r) \/ ApplyDelete(r) \/ Create(r)
      PROVE  SessionInv'
    <2>1. /\ sessions' \subseteq sessions /\ UNCHANGED <<late, cutOff>>
          /\ \A q \in Requests : pc[q] = "close" => pc'[q] = "close"
        BY <1>3 DEF ApplyUpdate, ApplyDelete, Create, Goes, history, Typed
    <2>2. \A s \in sessions' : Live(s.user)' /\ account'[s.user].password = account[s.user].password
        <3>1. CASE ApplyUpdate(r)
            BY <3>1, RequestShape DEF ApplyUpdate, Typed, Account, Live
        <3>2. CASE ApplyDelete(r)
            BY <3>2, RequestShape DEF ApplyDelete, Typed, Live
        <3>3. CASE Create(r)
            BY <3>3, RequestShape DEF Create, Typed, Live
        <3> QED BY <1>3, <3>1, <3>2, <3>3
    <2> QED BY <2>1, <2>2
<1>4. ASSUME NEW r \in Requests, ChangePassword(r) PROVE SessionInv'
    <2>1. /\ UNCHANGED <<sessions, late, cutOff>>
          /\ \A q \in Requests : pc[q] = "close" => pc'[q] = "close"
        BY <1>4 DEF ChangePassword, Goes, history, Typed
    <2>2. \A u \in Users :
             /\ account'[u].row = account[u].row
             /\ account'[u] = account[u] \/ (u = r.user /\ pc'[r] = "close")
        BY <1>4, RequestShape DEF ChangePassword, Goes, Typed, Account, Live
    <2>3. ASSUME NEW s \in sessions
          PROVE  /\ account'[s.user].row = "live"
                 /\ \/ s.password = account'[s.user].password
                    \/ s \in late'
                    \/ s.user \in cutOff'
                    \/ \E q \in Requests : q.user = s.user /\ pc'[q] = "close"
        <3>1. s.user \in Users /\ Live(s.user)
            BY DEF Typed
        <3>2. account'[s.user].row = "live"
            BY <2>2, <3>1 DEF Live
        <3>3. CASE account'[s.user] = account[s.user]
            <4>1. CASE s.password = account[s.user].password \/ s \in late \/ s.user \in cutOff
                BY <2>1, <3>2, <3>3, <4>1
            <4>2. CASE \E q \in Requests : q.user = s.user /\ pc[q] = "close"
                BY <2>1, <3>2, <4>2
            <4> QED BY <4>1, <4>2
        <3>4. CASE s.user = r.user /\ pc'[r] = "close"
            BY <3>2, <3>4
        <3> QED BY <2>2, <3>1, <3>3, <3>4
    <2> QED BY <2>1, <2>3 DEF Live
<1>5. ASSUME NEW r \in Requests, CloseSessions(r) PROVE SessionInv'
    <2>1. /\ sessions' = {s \in sessions : s.user # r.user} /\ cutOff' = cutOff \ {r.user}
          /\ UNCHANGED <<account, late>>
        BY <1>5 DEF CloseSessions, Kept
    <2>2. \A q \in Requests \ {r} : pc'[q] = pc[q]
        BY <1>5 DEF CloseSessions, Goes, Typed
    <2>3. ASSUME NEW s \in sessions, s.user # r.user
          PROVE  \/ s.password = account[s.user].password
                 \/ s \in late
                 \/ s.user \in cutOff'
                 \/ \E q \in Requests : q.user = s.user /\ pc'[q] = "close"
        BY <2>1, <2>2, <2>3
    <2> QED BY <2>1, <2>3 DEF Live
<1>6. ASSUME NEW r \in Requests, CreateSession(r) PROVE SessionInv'
    <2>1. /\ UNCHANGED <<account, cutOff>> /\ late \subseteq late'
          /\ \A q \in Requests : pc[q] = "close" => pc'[q] = "close"
        BY <1>6 DEF CreateSession, Goes, Typed
    <2>2. \A s \in sessions' \ sessions :
             Live(s.user) /\ (s.password = account[s.user].password \/ s \in late')
        BY <1>6 DEF CreateSession
    <2> QED BY <2>1, <2>2 DEF Live
<1>7. ASSUME NEW r \in Requests, Abandon(r) PROVE SessionInv'
    <2>1. /\ UNCHANGED <<account, sessions, late>> /\ cutOff \subseteq cutOff'
          /\ pc[r] = "close" => r.user \in cutOff'
          /\ \A q \in Requests \ {r} : pc'[q] = pc[q]
        BY <1>7 DEF Abandon, Goes, Typed, tables
    <2> QED BY <2>1 DEF Live
<1> QED BY <1>1, <1>2, <1>3, <1>4, <1>5, <1>6, <1>7, Steps

-----------------------------------------------------------------------------
LEMMA InitSave == Init => SaveInv
BY DEF Init, SaveInv, GroupsFromSaves, Stages, SaveStages

(* No row is inserted and no save comes to its end; memberships may go     *)
(* together with their user, and a row that was none may become a user's.  *)
LEMMA SaveFrame ==
    ASSUME SaveInv, Typed, UNCHANGED <<snap, last>>,
           \A u \in Users : member'[u] = member[u] \/ (member'[u] = {} /\ account'[u].row # "live"),
           \A u \in Users : account[u].row # "none" => account'[u].row # "none",
           \A u \in Users : account'[u].row = "live" => account[u].row \in {"none", "live"},
           NEW r \in Requests, NEW to \in Stages \ SaveStages, pc' = [pc EXCEPT ![r] = to],
           pc[r] # "done",
           \A q \in Requests \ {r} : held'[q] = held[q],
           during' = during
    PROVE  SaveInv'
<1>1. \A u \in Users : member'[u] \subseteq member[u]
    OBVIOUS
<1>2. \A q \in Requests : pc'[q] \in SaveStages => q # r /\ pc'[q] = pc[q]
    BY DEF Typed
<1>3. \A u \in Users : \A m \in member'[u] : m[1] \in m[2].groups
    BY <1>1 DEF SaveInv
<1>4. ASSUME NEW q \in Requests
      PROVE  /\ pc'[q] = "remove" => \A m \in member'[q.user] \ snap'[q] : m[2] \in during'[q]
             /\ pc'[q] = "insert" => \A m \in member'[q.user] \ held'[q] : m[2] \in during'[q]
    BY <1>1, <1>2, RequestShape DEF SaveInv, SaveStages
<1>5. ASSUME NEW u \in Users, last'[u] # None
      PROVE  account'[u].row # "none" /\ pc'[last'[u]] = "done"
    BY <1>5 DEF SaveInv, Typed
<1>6. ASSUME NEW u \in Users, account'[u].row = "live", last'[u] # None
      PROVE  member'[u] = member[u] /\ account[u].row = "live"
    BY <1>6 DEF SaveInv
<1>7. GroupsFromSaves'
    BY <1>6 DEF SaveInv, GroupsFromSaves, GroupsOf, Live
<1> QED BY <1>3, <1>4, <1>5, <1>7 DEF SaveInv

LEMMA SaveStepInv == ASSUME SaveInv, Typed, [Next]_vars PROVE SaveInv'
<1>1. CASE UNCHANGED vars \/ ExpireSession
    <2>1. UNCHANGED <<account, member, pc, snap, held, last, during>>
        BY <1>1 DEF vars, ExpireSession, saving, history
    <2> QED BY <2>1 DEF SaveInv, GroupsFromSaves, GroupsOf, Live
<1>2. ASSUME NEW r \in Requests,
             Begin(r) \/ Check(r) \/ Count(r) \/ BeginPassword(r) \/ CloseSessions(r)
                \/ Authenticate(r) \/ CreateSession(r) \/ Logout(r) \/ Abandon(r)
      PROVE  SaveInv'
    <2>1. UNCHANGED <<account, member, snap, last, during>>
        BY <1>2 DEF Begin, Check, Count, BeginPassword, CloseSessions, Authenticate,
                    CreateSession, Logout, Abandon, tables, saving, history
    <2>2. /\ pc[r] # "done" /\ \A q \in Requests \ {r} : held'[q] = held[q]
          /\ \E to \in Stages \ SaveStages : pc' = [pc EXCEPT ![r] = to]
        BY <1>2 DEF Begin, Check, Count, BeginPassword, CloseSessions, Authenticate,
                    CreateSession, Logout, Abandon, tables, saving, Goes, Typed,
                    Stages, ChangeStages, SaveStages
    <2> QED BY <2>1, <2>2, SaveFrame
<1>3. ASSUME NEW r \in Requests,
             ApplyUpdate(r) \/ ApplyDelete(r) \/ Create(r) \/ ChangePassword(r)
      PROVE  SaveInv'
    <2>1. UNCHANGED <<snap, held, last, during>>
        BY <1>3 DEF ApplyUpdate, ApplyDelete, Create, ChangePassword, saving, history
    <2>2. /\ pc[r] # "done"
          /\ \E to \in Stages \ SaveStages : pc' = [pc EXCEPT ![r] = to]
        BY <1>3 DEF ApplyUpdate, ApplyDelete, Create, ChangePassword, Goes,
                    Stages, ChangeStages, SaveStages
    <2>3. /\ \A u \in Users : member'[u] = member[u]
                              \/ (member'[u] = {} /\ account'[u].row # "live")
          /\ \A u \in Users : account[u].row # "none" => account'[u].row # "none"
          /\ \A u \in Users : account'[u].row = "live" => account[u].row \in {"none", "live"}
        <3>1. CASE ApplyUpdate(r)
            BY <3>1, RequestShape DEF ApplyUpdate, Typed, Account, Live
        <3>2. CASE ApplyDelete(r)
            BY <3>2, RequestShape DEF ApplyDelete, Typed, Account, Live
        <3>3. CASE Create(r)
            BY <3>3, RequestShape DEF Create, Typed, Account, Live
        <3>4. CASE ChangePassword(r)
            BY <3>4, RequestShape DEF ChangePassword, Typed, Account, Live
        <3> QED BY <1>3, <3>1, <3>2, <3>3, <3>4
    <2> QED BY <2>1, <2>2, <2>3, SaveFrame
<1>4. ASSUME NEW r \in Requests, SnapshotTaken(r) \/ Remove(r) PROVE SaveInv'
    <2>1. /\ UNCHANGED <<account, member, last>>
          /\ pc[r] \notin {"done", "insert"} /\ pc' = [pc EXCEPT ![r] = pc'[r]]
          /\ \A q \in Requests \ {r} :
                 UNCHANGED <<snap[q], held[q], during[q]>>
        BY <1>4 DEF SnapshotTaken, Remove, Goes, tables, history, Typed
    <2>2. /\ pc'[r] = "remove" => \A m \in member[r.user] \ snap'[r] : m[2] \in during'[r]
          /\ pc'[r] = "insert" => \A m \in member[r.user] \ held'[r] : m[2] \in during'[r]
        BY <1>4 DEF SnapshotTaken, Remove, Found, Goes, tables, history, Typed, SaveInv
    <2>3. \A u \in Users : last[u] # None => last[u] \in Requests \ {r} /\ pc'[last[u]] = "done"
        BY <2>1 DEF SaveInv, Typed
    <2>4. GroupsFromSaves'
        BY <2>1, <2>3 DEF SaveInv, GroupsFromSaves, GroupsOf, Live
    <2> QED BY <2>1, <2>2, <2>3, <2>4 DEF SaveInv, Typed
<1>5. ASSUME NEW r \in Requests, Insert(r) PROVE SaveInv'
    <2> DEFINE u == r.user
    <2>1. pc[r] = "insert" /\ pc' = [pc EXCEPT ![r] = "done"]
          /\ UNCHANGED <<account, snap>> /\ held' = [held EXCEPT ![r] = {}]
        BY <1>5 DEF Insert, Goes
    <2>2. CASE ~Live(u)
        BY <1>5, <2>1, <2>2, SaveFrame DEF Insert, Stages, SaveStages, ChangeStages, Typed
    <2>3. CASE Live(u)
        <3>1. /\ member' = [member EXCEPT ![u] = Remaining(r) \cup Inserted(r)]
              /\ last' = [last EXCEPT ![u] = r]
              /\ during' = [q \in Requests |->
                    IF q # r /\ q.user = u /\ pc[q] \in {"remove", "insert"}
                    THEN during[q] \cup {r} ELSE during[q]]
            BY <1>5, <2>3 DEF Insert
        <3>2. \A m \in Inserted(r) : m[2] = r /\ m[1] \in r.groups
            BY DEF Inserted
        <3>3. \A m \in Remaining(r) : m \in member[u] /\ m[2] \in during[r]
            BY <2>1 DEF Remaining, SaveInv
        <3>4. \A v \in Users : \A m \in member'[v] : m[1] \in m[2].groups
            BY <3>1, <3>2, <3>3, RequestShape DEF Typed, SaveInv
        <3>5. ASSUME NEW q \in Requests
              PROVE  /\ pc'[q] = "remove" => \A m \in member'[q.user] \ snap'[q] : m[2] \in during'[q]
                     /\ pc'[q] = "insert" => \A m \in member'[q.user] \ held'[q] : m[2] \in during'[q]
            <4>1. CASE q = r
                BY <2>1, <4>1 DEF Typed
            <4>2. CASE q # r /\ q.user # u
                BY <2>1, <3>1, <4>2, RequestShape DEF Typed, SaveInv
            <4>3. CASE q # r /\ q.user = u
                BY <2>1, <3>1, <3>2, <3>3, <4>3, RequestShape DEF Typed, SaveInv
            <4> QED BY <4>1, <4>2, <4>3
        <3>6. \A v \in Users : last'[v] # None =>
                 account'[v].row # "none" /\ pc'[last'[v]] = "done"
            BY <2>1, <2>3, <3>1, RequestShape DEF SaveInv, Typed, Live
        <3>7. ASSUME NEW v \in Users, Live(v)', last'[v] # None
              PROVE  /\ last'[v].groups \subseteq GroupsOf(v)'
                     /\ GroupsOf(v)' \subseteq last'[v].groups \cup UNION {q.groups : q \in during'[last'[v]]}
            <4>1. CASE v = u
                <5>1. last'[v] = r /\ member'[v] = Remaining(r) \cup Inserted(r) /\ during'[r] = during[r]
                    BY <3>1, <4>1, RequestShape DEF Typed
                <5>2. ASSUME NEW g \in r.groups
                      PROVE  \E m \in Remaining(r) \cup Inserted(r) : m[1] = g
                    <6>1. CASE \A m \in Remaining(r) : m[1] # g
                        <7>1. <<g, r>> \in Inserted(r) /\ <<g, r>>[1] = g
                            BY <6>1 DEF Inserted
                        <7> QED BY <7>1
                    <6> QED BY <6>1
                <5>3. \A m \in Remaining(r) : m[1] \in UNION {q.groups : q \in during[r]}
                    BY <3>3, RequestShape DEF SaveInv
                <5> QED BY <3>2, <5>1, <5>2, <5>3 DEF GroupsOf
            <4>2. CASE v # u
                <5>1. last'[v] = last[v] /\ member'[v] = member[v] /\ last[v] \in Requests
                      /\ pc[last[v]] = "done" /\ Live(v)
                    BY <2>1, <3>1, <3>7, <4>2 DEF Typed, SaveInv, Live
                <5>2. during'[last[v]] = during[last[v]]
                    BY <3>1, <5>1
                <5> QED BY <3>7, <5>1, <5>2 DEF GroupsOf, SaveInv, GroupsFromSaves
            <4> QED BY <4>1, <4>2
        <3> QED BY <3>4, <3>5, <3>6, <3>7 DEF SaveInv, GroupsFromSaves
    <2> QED BY <2>2, <2>3
<1> QED BY <1>1, <1>2, <1>3, <1>4, <1>5, Steps

-----------------------------------------------------------------------------
(* Every reachable state is type-correct; the other invariants rest on it. *)
THEOREM TypeCorrect == Spec => []Typed
<1>1. Typed /\ [Next]_vars => Typed'
    BY TypedStep
<1> QED BY InitTyped, <1>1, PTL DEF Spec

(* While changes to users (UpdateUser, DeleteUser) do not overlap, an      *)
(* active administrator remains.                                           *)
THEOREM AdminRemainsAloneAlways == Spec => []AdminRemainsAlone
<1>1. AloneInv /\ Typed /\ [Next]_vars => AloneInv'
    BY AloneStep
<1>2. AloneInv => AdminRemainsAlone
    BY DEF AloneInv, AdminRemainsAlone, AdminRemains
<1> QED BY InitAlone, TypeCorrect, <1>1, <1>2, PTL DEF Spec

(* A session opened with an older password than the user's is one that     *)
(* SetPassword is about to close, or was kept from closing, or one whose   *)
(* sign-in had verified that password before it was changed.               *)
THEOREM OldSessionsClosedAlways == Spec => []OldSessionsClosed
<1>1. SessionInv /\ Typed /\ [Next]_vars => SessionInv'
    BY SessionStepInv
<1>2. SessionInv => OldSessionsClosed
    BY DEF SessionInv
<1> QED BY InitSession, TypeCorrect, <1>1, <1>2, PTL DEF Spec

(* SetUserRoleGroups: a user has the groups of the last save, and beyond   *)
(* them only groups of saves it ran into.                                  *)
THEOREM GroupsFromSavesAlways == Spec => []GroupsFromSaves
<1>1. SaveInv /\ Typed /\ [Next]_vars => SaveInv'
    BY SaveStepInv
<1>2. SaveInv => GroupsFromSaves
    BY DEF SaveInv
<1> QED BY InitSave, TypeCorrect, <1>1, <1>2, PTL DEF Spec
=============================================================================
