-------------------------- MODULE AgentDumpsProofs --------------------------
(***************************************************************************)
(* Proofs about the agent's dump store, for any captures and stop requests.*)
(***************************************************************************)
EXTENDS AgentDumps, SequenceTheorems, TLAPS

Working == {"tokened", "starting", "recording", "trimming", "answering"}
Holding == Working \cup {"entered", "leaving", "leaving2", "leaving3"}
Pcs     == Holding \cup {"idle", "waiting", "refused", "disposing", "ended"}

Typed ==
    /\ at \in [Ops -> Pcs]
    /\ gate \in {0, 1}

(* The gate is closed while a capture is past it, and only one is. *)
GateInv ==
    /\ gate = 1 => \A o \in Ops : at[o] \notin Holding
    /\ \A o, p \in Ops : at[o] \in Holding /\ at[p] \in Holding => o = p

(* From its publication to its clearing, each field is the holder's. *)
FieldInv ==
    \A o \in Ops :
        /\ at[o] \in Working \cup {"leaving"} => running = o
        /\ at[o] \in (Working \ {"tokened"}) \cup {"leaving", "leaving2"} => runningKind = Kind[o]

IInv == Typed /\ GateInv /\ FieldInv

-----------------------------------------------------------------------------
LEMMA InitInv == InitD => IInv
BY DEF InitD, IInv, Typed, GateInv, FieldInv, Working, Holding, Pcs

(* What leaving amounts to. *)
LEMMA LeaveSteps ==
    ASSUME NEW o \in Ops
    PROVE  /\ ClearToken(o) => Moves(o, "leaving", "leaving2")
           /\ ClearKind(o) => Moves(o, "leaving2", "leaving3")
           /\ Release(o) => Moves(o, "leaving3", "disposing")
<1>1. ASSUME NEW what, Leaves(o, what)
      PROVE  \/ what = "token" /\ Moves(o, "leaving", "leaving2")
             \/ what = "kind" /\ Moves(o, "leaving2", "leaving3")
             \/ what = "release" /\ Moves(o, "leaving3", "disposing")
    <2>1. PICK i \in 1 .. 3 : /\ LeaveOrder[i] = what
                             /\ Moves(o, <<"leaving", "leaving2", "leaving3">>[i],
                                        <<"leaving2", "leaving3", "disposing">>[i])
        BY <1>1 DEF Leaves
    <2>2. i = 1 \/ i = 2 \/ i = 3
        OBVIOUS
    <2>3. CASE i = 1
        BY <2>1, <2>3 DEF LeaveOrder
    <2>4. CASE i = 2
        BY <2>1, <2>4 DEF LeaveOrder
    <2>5. CASE i = 3
        BY <2>1, <2>5 DEF LeaveOrder
    <2> QED BY <2>2, <2>3, <2>4, <2>5
<1>2. ASSUME ClearToken(o) PROVE Moves(o, "leaving", "leaving2")
    <2>1. Leaves(o, "token")
        BY <1>2 DEF ClearToken
    <2> QED BY <1>1, <2>1
<1>3. ASSUME ClearKind(o) PROVE Moves(o, "leaving2", "leaving3")
    <2>1. Leaves(o, "kind")
        BY <1>3 DEF ClearKind
    <2> QED BY <1>1, <2>1
<1>4. ASSUME Release(o) PROVE Moves(o, "leaving3", "disposing")
    <2>1. Leaves(o, "release")
        BY <1>4 DEF Release
    <2> QED BY <1>1, <2>1
<1> QED BY <1>2, <1>3, <1>4

(* Before the gate, at the gate, and through it. *)
LEMMA EnterInv ==
    ASSUME IInv, NEW o \in Ops, Request(o) \/ Enter(o) \/ Refused(o)
    PROVE  IInv'
<1> USE DEF IInv
<1>1. Typed'
    BY DEF Typed, Request, Enter, Refused, MayEnter, Moves, Pcs, Holding
<1>2. CASE Request(o) \/ Refused(o)
    <2>1. UNCHANGED <<gate, running, runningKind>> /\ at[o] \notin Holding
          /\ \E to \in Pcs \ Holding : at' = [at EXCEPT ![o] = to]
        BY <1>2 DEF Request, Refused, Moves, Pcs, Holding, Working
    <2>2. GateInv' /\ FieldInv'
        BY <2>1 DEF Typed, GateInv, FieldInv, Holding, Working
    <2> QED BY <1>1, <2>2
<1>3. CASE Enter(o)
    <2>1. gate = 1 /\ gate' = 0 /\ at' = [at EXCEPT ![o] = "entered"]
          /\ UNCHANGED <<running, runningKind>>
        BY <1>3 DEF Enter, MayEnter, Moves, Typed
    <2>2. GateInv' /\ FieldInv'
        BY <2>1 DEF Typed, GateInv, FieldInv, Holding, Working
    <2> QED BY <1>1, <2>2
<1> QED BY <1>2, <1>3

(* The steps of the capture that holds the gate. *)
LEMMA CaptureInv == ASSUME IInv, NEW o \in Ops, OpStep(o) PROVE IInv'
<1> USE DEF IInv
<1>1. CASE PublishToken(o)
    <2> USE <1>1 DEF PublishToken, Moves
    <2>1. Typed' /\ GateInv'
        BY DEF Typed, GateInv, Pcs, Holding, Working
    <2>2. \A p \in Ops \ {o} : at[p] \notin Holding
        BY DEF GateInv, Holding
    <2>3. FieldInv'
        BY <2>2 DEF Typed, FieldInv, Holding, Working
    <2> QED BY <2>1, <2>3
<1>2. CASE PublishKind(o)
    <2> USE <1>2 DEF PublishKind, Moves
    <2>1. Typed' /\ GateInv'
        BY DEF Typed, GateInv, Pcs, Holding, Working
    <2>2. \A p \in Ops \ {o} : at[p] \notin Holding
        BY DEF GateInv, Holding, Working
    <2>3. FieldInv'
        BY <2>2 DEF Typed, FieldInv, Holding, Working
    <2> QED BY <2>1, <2>3
<1>3. CASE Begin(o) \/ Record(o) \/ Trim(o) \/ Answer(o)
    <2>1. /\ UNCHANGED <<gate, running, runningKind>>
          /\ at[o] \in Working \ {"tokened"}
          /\ \E to \in (Working \ {"tokened"}) \cup {"leaving"} : at' = [at EXCEPT ![o] = to]
        BY <1>3 DEF Begin, Record, Trim, Answer, Moves, OnException, Working
    <2>2. Typed' /\ GateInv'
        BY <2>1 DEF Typed, GateInv, Pcs, Holding, Working
    <2>3. FieldInv'
        BY <2>1 DEF Typed, FieldInv, Working
    <2> QED BY <2>2, <2>3
<1>4. CASE ClearToken(o)
    <2>1. at[o] = "leaving" /\ at' = [at EXCEPT ![o] = "leaving2"] /\ UNCHANGED <<gate, runningKind>>
        BY <1>4, LeaveSteps DEF Moves, ClearToken
    <2>2. Typed' /\ GateInv'
        BY <2>1 DEF Typed, GateInv, Pcs, Holding, Working
    <2>3. \A p \in Ops \ {o} : at[p] \notin Holding
        BY <2>1 DEF GateInv, Holding
    <2>4. FieldInv'
        BY <2>1, <2>3 DEF Typed, FieldInv, Holding, Working
    <2> QED BY <2>2, <2>4
<1>5. CASE ClearKind(o)
    <2>1. at[o] = "leaving2" /\ at' = [at EXCEPT ![o] = "leaving3"] /\ UNCHANGED <<gate, running>>
        BY <1>5, LeaveSteps DEF Moves, ClearKind
    <2>2. Typed' /\ GateInv'
        BY <2>1 DEF Typed, GateInv, Pcs, Holding, Working
    <2>3. \A p \in Ops \ {o} : at[p] \notin Holding
        BY <2>1 DEF GateInv, Holding
    <2>4. FieldInv'
        BY <2>1, <2>3 DEF Typed, FieldInv, Holding, Working
    <2> QED BY <2>2, <2>4
<1>6. CASE Release(o)
    <2>1. /\ at[o] = "leaving3" /\ at' = [at EXCEPT ![o] = "disposing"]
          /\ gate' = gate + 1 /\ UNCHANGED <<running, runningKind>>
        BY <1>6, LeaveSteps DEF Moves, Release
    <2>2. gate = 0 /\ \A p \in Ops \ {o} : at[p] \notin Holding
        BY <2>1 DEF Typed, GateInv, Holding
    <2>3. Typed' /\ GateInv'
        BY <2>1, <2>2 DEF Typed, GateInv, Pcs, Holding, Working
    <2>4. FieldInv'
        BY <2>1 DEF Typed, FieldInv, Working
    <2> QED BY <2>3, <2>4
<1>7. CASE Dispose(o)
    <2> USE <1>7 DEF Dispose, Moves
    <2>1. Typed' /\ GateInv'
        BY DEF Typed, GateInv, Pcs, Holding, Working
    <2>2. FieldInv'
        BY DEF Typed, FieldInv, Working
    <2> QED BY <2>1, <2>2
<1> QED BY <1>1, <1>2, <1>3, <1>4, <1>5, <1>6, <1>7 DEF OpStep

LEMMA NextInv == ASSUME IInv, [NextD]_storeVars PROVE IInv'
<1>1. CASE UNCHANGED <<at, gate, running, runningKind>>
    BY <1>1 DEF IInv, Typed, GateInv, FieldInv
<1>2. ASSUME NEW o \in Ops, Abort(o) PROVE UNCHANGED <<at, gate, running, runningKind>>
    BY <1>2 DEF Abort
<1>3. ASSUME NEW n, Delete(n) PROVE UNCHANGED <<at, gate, running, runningKind>>
    BY <1>3 DEF Delete
<1>4. ASSUME NEW s \in Stops, StopStep(s) PROVE UNCHANGED <<at, gate, running, runningKind>>
    BY <1>4 DEF StopStep, StopReads, StopChecks, StopCalls, capture
<1>5. NextSecond => UNCHANGED <<at, gate, running, runningKind>>
    BY DEF NextSecond, capture
<1>6. UNCHANGED storeVars => UNCHANGED <<at, gate, running, runningKind>>
    BY DEF storeVars
<1> QED BY <1>1, <1>2, <1>3, <1>4, <1>5, <1>6, EnterInv, CaptureInv DEF NextD

(* The inductive invariant holds in every state. *)
THEOREM Invariance == SpecD => []IInv
<1>1. InitD => IInv
    BY InitInv
<1>2. IInv /\ [NextD]_storeVars => IInv'
    BY NextInv
<1> QED BY <1>1, <1>2, PTL DEF SpecD

(* Only one capture runs at a time. *)
THEOREM OneAtATimeAlways == SpecD => []OneAtATime
<1>1. IInv => OneAtATime
    BY DEF IInv, GateInv, OneAtATime, AtWork, Holding, Working
<1> QED BY <1>1, Invariance, PTL

(* While a capture records, a stop request finds its token and its kind. *)
THEOREM StopMeetsCaptureAlways == SpecD => []StopMeetsCapture
<1>1. IInv => StopMeetsCapture
    BY DEF IInv, FieldInv, StopMeetsCapture, Working
<1> QED BY <1>1, Invariance, PTL

-----------------------------------------------------------------------------
(* The file of the capture that holds the gate.                            *)

Writing == {"recording", "trimming", "answering"}
Begun   == Writing \cup {"leaving", "leaving2", "leaving3", "disposing", "ended"}

Alone(o) == \A p \in Ops \ {o} : name[p] # name[o]

(* Every file is some capture's that has begun, and until it has answered  *)
(* a capture's own file is the newest, unless a delete request removed it. *)
FilesTyped == name = [o \in Ops |-> name[o]] /\ files \in Seq(Range(files))

FileOwned ==
    \A i \in DOMAIN files : \E p \in Ops : at[p] \in Begun /\ files[i] = name[p]

NewestIs(n) == Len(files) > 0 /\ files[Len(files)] = n

FileNewest ==
    \A o \in Ops : at[o] \in Writing /\ Alone(o) => name[o] \in removed \/ NewestIs(name[o])

FilesInv == FilesTyped /\ FileOwned /\ FileNewest

LEMMA InitFiles == InitD => FilesInv
<1> SUFFICES ASSUME InitD PROVE FilesInv
    OBVIOUS
<1>1. name = [o \in Ops |-> name[o]] /\ files = <<>> /\ at = [o \in Ops |-> "idle"]
    BY DEF InitD
<1>2. files \in Seq(Range(files)) /\ DOMAIN files = {}
    BY <1>1
<1>3. FileOwned /\ FileNewest
    BY <1>1, <1>2 DEF FileOwned, FileNewest, Writing
<1> QED BY <1>1, <1>2, <1>3 DEF FilesInv, FilesTyped

(* Trimming keeps the newest file. *)
LEMMA TrimmedKeeps ==
    ASSUME NEW S, files \in Seq(S)
    PROVE  /\ Trimmed \in Seq(S)
           /\ \A i \in DOMAIN Trimmed : \E j \in DOMAIN files : Trimmed[i] = files[j]
           /\ Len(files) > 0 => Len(Trimmed) > 0 /\ Trimmed[Len(Trimmed)] = files[Len(files)]
<1> DEFINE k == Min({Keeps, Len(files)})
<1>1. Len(files) \in Nat
    OBVIOUS
<1>2. Keeps \in Nat /\ Keeps >= 1
    <2>1. \E x \in {1, MaxFiles} : \A y \in {1, MaxFiles} : x >= y
        BY AgentDumpsAssumption
    <2>2. Keeps \in {1, MaxFiles} /\ \A y \in {1, MaxFiles} : Keeps >= y
        BY <2>1 DEF Keeps, Max
    <2> QED BY <2>2, AgentDumpsAssumption
<1>3. k \in Nat /\ k <= Len(files) /\ (Len(files) > 0 => k >= 1)
    BY <1>1, <1>2 DEF Min
<1>4. Trimmed = SubSeq(files, Len(files) - k + 1, Len(files))
    BY DEF Trimmed
<1> HIDE DEF k
<1>5. /\ Trimmed \in Seq(S)
      /\ Len(Trimmed) = k
      /\ \A i \in 1 .. k : Trimmed[i] = files[Len(files) - k + i]
    BY <1>1, <1>3, <1>4
<1> QED BY <1>1, <1>3, <1>5

(* A step that leaves the files, the names and what was removed alone, and *)
(* lets no capture begin.                                                  *)
LEMMA FilesStay ==
    ASSUME IInv, FilesInv, UNCHANGED <<files, name, removed>>,
           \A p \in Ops : /\ at[p] \in Begun => at'[p] \in Begun
                          /\ at'[p] \in Writing => at[p] \in Writing
    PROVE  FilesInv'
BY DEF FilesInv, FilesTyped, FileOwned, FileNewest, NewestIs, Alone, Range

(* A capture begins: its file, if nobody else has its name, is new. *)
LEMMA BeginFiles == ASSUME IInv, FilesInv, NEW o \in Ops, Begin(o) PROVE FilesInv'
<1> DEFINE n == Stamped(o)
<1>1. /\ at[o] = "starting" /\ at \in [Ops -> Pcs]
      /\ name' = [name EXCEPT ![o] = n]
      /\ UNCHANGED removed
      /\ \/ at' = [at EXCEPT ![o] = "recording"] /\ files' = Created(n)
         \/ at' = [at EXCEPT ![o] = "leaving"] /\ UNCHANGED files
    BY DEF Begin, Moves, OnException, IInv, Typed
<1>2. name' = [p \in Ops |-> name'[p]] /\ name'[o] = n /\ \A p \in Ops \ {o} : name'[p] = name[p]
    BY <1>1 DEF FilesInv, FilesTyped
<1>3. \A p \in Ops : at[p] \in Begun => p # o /\ at'[p] \in Begun
    BY <1>1 DEF Begun, Writing
<1>4. \A p \in Ops : at'[p] \in Writing => p = o
    <2> SUFFICES ASSUME NEW p \in Ops, at'[p] \in Writing, p # o PROVE FALSE
        OBVIOUS
    <2>1. at[p] \in Holding /\ at[o] \in Holding
        BY <1>1 DEF Writing, Holding, Working
    <2> QED BY <2>1 DEF IInv, GateInv
<1> HIDE DEF n
<1>5. CASE UNCHANGED files
    <2>1. FileOwned'
        BY <1>5, <1>2, <1>3 DEF FilesInv, FileOwned
    <2>2. at'[o] \in Writing => Contains(files, n)
        BY <1>1, <1>5 DEF Writing, Created, Contains, FilesInv, FilesTyped
    <2>3. FileNewest'
        <3> SUFFICES ASSUME at'[o] \in Writing, Alone(o)' PROVE FALSE
            BY <1>4 DEF FileNewest
        <3>1. PICK i \in DOMAIN files : files[i] = n
            BY <2>2 DEF Contains
        <3>2. PICK p \in Ops : at[p] \in Begun /\ files[i] = name[p]
            BY DEF FilesInv, FileOwned
        <3> QED BY <1>2, <1>3, <3>1, <3>2 DEF Alone
    <2> QED BY <1>2, <1>5, <2>1, <2>3 DEF FilesInv, FilesTyped, Range
<1>6. CASE files' = Append(files, n) /\ at' = [at EXCEPT ![o] = "recording"]
    <2>0. files \in Seq(Range(files) \cup {n}) /\ Len(files) \in Nat
        BY DEF FilesInv, FilesTyped
    <2>1. /\ Len(files') = Len(files) + 1
          /\ files'[Len(files) + 1] = n
          /\ \A i \in 1 .. Len(files) : files'[i] = files[i]
          /\ files' \in Seq(Range(files) \cup {n})
          /\ DOMAIN files' = 1 .. Len(files) + 1
          /\ DOMAIN files = 1 .. Len(files)
        BY <2>0, <1>6
    <2>2. files' \in Seq(Range(files'))
        BY <2>1 DEF Range
    <2>3. FileOwned'
        <3> SUFFICES ASSUME NEW i \in DOMAIN files'
                     PROVE  \E p \in Ops : at'[p] \in Begun /\ files'[i] = name'[p]
            BY DEF FileOwned
        <3>1. CASE i = Len(files) + 1
            BY <1>1, <1>2, <1>6, <2>1, <3>1 DEF Begun, Writing
        <3>2. CASE i \in 1 .. Len(files)
            BY <1>2, <1>3, <2>1, <3>2 DEF FilesInv, FileOwned
        <3> QED BY <2>0, <2>1, <3>1, <3>2
    <2>4. FileNewest'
        BY <1>2, <1>4, <2>0, <2>1 DEF FileNewest, NewestIs
    <2> QED BY <1>2, <2>2, <2>3, <2>4 DEF FilesInv, FilesTyped
<1> QED BY <1>1, <1>5, <1>6 DEF Created

LEMMA TrimFiles == ASSUME IInv, FilesInv, NEW o \in Ops, Trim(o) PROVE FilesInv'
<1>1. /\ at[o] = "trimming" /\ at' = [at EXCEPT ![o] = "answering"] /\ at \in [Ops -> Pcs]
      /\ files' = Trimmed /\ UNCHANGED <<name, removed>>
    BY DEF Trim, Moves, IInv, Typed
<1>2. files \in Seq(Range(files))
    BY DEF FilesInv, FilesTyped
<1>3. /\ \A i \in DOMAIN files' : \E j \in DOMAIN files : files'[i] = files[j]
      /\ files' \in Seq(Range(files))
      /\ Len(files) > 0 => Len(files') > 0 /\ files'[Len(files')] = files[Len(files)]
    BY <1>1, <1>2, TrimmedKeeps
<1>4. files' \in Seq(Range(files'))
    BY <1>3 DEF Range
<1>5. \A p \in Ops : /\ at[p] \in Begun => at'[p] \in Begun
                     /\ at'[p] \in Writing => at[p] \in Writing
    BY <1>1 DEF Begun, Writing
<1>6. FileOwned'
    BY <1>1, <1>3, <1>5 DEF FilesInv, FileOwned
<1>7. FileNewest'
    BY <1>1, <1>3, <1>5 DEF FilesInv, FileNewest, NewestIs, Alone
<1> QED BY <1>1, <1>4, <1>6, <1>7 DEF FilesInv, FilesTyped

LEMMA DeleteFiles == ASSUME FilesInv, NEW n, Delete(n) PROVE FilesInv'
<1>1. PICK i \in DOMAIN files : files[i] = n /\ files' = RemoveAt(files, i)
    BY DEF Delete
<1>2. UNCHANGED <<at, name>> /\ removed' = removed \cup {n}
    BY DEF Delete
<1>3. files \in Seq(Range(files)) /\ Len(files) \in Nat /\ i \in 1 .. Len(files)
    BY DEF FilesInv, FilesTyped
<1>4. files' = SubSeq(files, 1, i - 1) \o SubSeq(files, i + 1, Len(files))
    BY <1>1 DEF RemoveAt
<1>5. /\ files' \in Seq(Range(files))
      /\ Len(files') = Len(files) - 1
      /\ \A j \in 1 .. Len(files) - 1 : files'[j] = IF j < i THEN files[j] ELSE files[j + 1]
    <2> DEFINE a == SubSeq(files, 1, i - 1)
               b == SubSeq(files, i + 1, Len(files))
    <2>1. /\ a \in Seq(Range(files)) /\ Len(a) = i - 1
          /\ \A j \in 1 .. i - 1 : a[j] = files[j]
        BY <1>3
    <2>2. /\ b \in Seq(Range(files)) /\ Len(b) = Len(files) - i
          /\ \A j \in 1 .. Len(files) - i : b[j] = files[i + j]
        BY <1>3
    <2>3. files' = a \o b
        BY <1>4
    <2> HIDE DEF a, b
    <2>4. /\ files' \in Seq(Range(files))
          /\ Len(files') = Len(a) + Len(b)
          /\ \A j \in 1 .. Len(a) + Len(b) : files'[j] = IF j <= Len(a) THEN a[j] ELSE b[j - Len(a)]
        BY <2>1, <2>2, <2>3, ConcatProperties
    <2>5. Len(files') = Len(files) - 1
        BY <1>3, <2>1, <2>2, <2>4
    <2>6. ASSUME NEW j \in 1 .. Len(files) - 1
          PROVE  files'[j] = IF j < i THEN files[j] ELSE files[j + 1]
        <3>1. PICK len : len = Len(files)
            OBVIOUS
        <3>2. len \in Nat /\ i \in 1 .. len /\ j \in 1 .. len - 1
            BY <1>3, <3>1
        <3>3. files'[j] = IF j <= i - 1 THEN a[j] ELSE b[j - (i - 1)]
            <4>1. j \in 1 .. Len(a) + Len(b)
                BY <2>1, <2>2, <3>1, <3>2
            <4> QED BY <2>1, <2>4, <4>1
        <3>4. CASE j < i
            <4>1. j \in 1 .. i - 1 /\ j <= i - 1
                BY <3>2, <3>4
            <4> QED BY <2>1, <3>3, <3>4, <4>1
        <3>5. CASE ~(j < i)
            <4>1. j - (i - 1) \in 1 .. len - i /\ i + (j - (i - 1)) = j + 1 /\ ~(j <= i - 1)
                BY <3>2, <3>5
            <4>2. b[j - (i - 1)] = files[i + (j - (i - 1))]
                BY <2>2, <3>1, <4>1
            <4> QED BY <3>3, <3>5, <4>1, <4>2
        <3> QED BY <3>4, <3>5
    <2> QED BY <2>4, <2>5, <2>6
<1>6. \A j \in DOMAIN files' : \E k \in DOMAIN files : files'[j] = files[k]
    <2> SUFFICES ASSUME NEW j \in DOMAIN files'
                 PROVE  \E k \in DOMAIN files : files'[j] = files[k]
        OBVIOUS
    <2>1. PICK l : l = Len(files)
        OBVIOUS
    <2>2. l \in Nat /\ DOMAIN files = 1 .. l /\ j \in 1 .. l - 1
        BY <1>3, <1>5, <2>1
    <2>3. j \in 1 .. l /\ j + 1 \in 1 .. l
        BY <2>2
    <2>4. files'[j] = files[j] \/ files'[j] = files[j + 1]
        BY <1>5, <2>1, <2>2
    <2> QED BY <2>2, <2>3, <2>4
<1>7. files' \in Seq(Range(files'))
    BY <1>5 DEF Range
<1>8. FileOwned'
    BY <1>2, <1>6 DEF FilesInv, FileOwned
<1>9. \A m : m # n /\ NewestIs(m) => NewestIs(m)'
    <2> SUFFICES ASSUME NEW m, m # n, NewestIs(m) PROVE NewestIs(m)'
        OBVIOUS
    <2>1. files[Len(files)] = m /\ i # Len(files)
        BY <1>1 DEF NewestIs
    <2>2. Len(files') = Len(files) - 1 /\ Len(files') > 0 /\ files'[Len(files')] = files[Len(files)]
        BY <1>3, <1>5, <2>1
    <2> QED BY <2>1, <2>2 DEF NewestIs
<1>10. FileNewest'
    BY <1>2, <1>9 DEF FilesInv, FileNewest, Alone
<1> QED BY <1>2, <1>7, <1>8, <1>10 DEF FilesInv, FilesTyped

LEMMA NextFiles == ASSUME IInv, FilesInv, [NextD]_storeVars PROVE FilesInv'
<1> DEFINE Still == /\ UNCHANGED <<files, name, removed>>
                    /\ \A p \in Ops : /\ at[p] \in Begun => at'[p] \in Begun
                                      /\ at'[p] \in Writing => at[p] \in Writing
<1>1. Still => FilesInv'
    BY FilesStay
<1>2. at \in [Ops -> Pcs]
    BY DEF IInv, Typed
<1>3. ASSUME NEW o \in Ops, Request(o) \/ Enter(o) \/ Refused(o) PROVE Still
    BY <1>2, <1>3 DEF Request, Enter, Refused, Moves, Begun, Writing
<1>4. ASSUME NEW o \in Ops, PublishToken(o) \/ PublishKind(o) PROVE Still
    BY <1>2, <1>4 DEF PublishToken, PublishKind, Moves, Begun, Writing
<1>5. ASSUME NEW o \in Ops, Record(o) \/ Answer(o) PROVE Still
    BY <1>2, <1>5 DEF Record, Answer, Moves, OnException, Begun, Writing
<1>6. ASSUME NEW o \in Ops, ClearToken(o) \/ ClearKind(o) \/ Release(o) PROVE Still
    <2>1. \E from, to \in Begun \ Writing : Moves(o, from, to)
        BY <1>6, LeaveSteps DEF Begun, Writing
    <2>2. UNCHANGED <<files, name>>
        BY <1>6 DEF ClearToken, ClearKind, Release
    <2> QED BY <1>2, <2>1, <2>2 DEF Moves, Begun, Writing
<1>7. ASSUME NEW o \in Ops, Dispose(o) PROVE Still
    BY <1>2, <1>7 DEF Dispose, Moves, Begun, Writing
<1>8. ASSUME NEW o \in Ops, Abort(o) PROVE Still
    BY <1>8 DEF Abort
<1>9. ASSUME NEW s \in Stops, StopStep(s) PROVE Still
    BY <1>9 DEF StopStep, StopReads, StopChecks, StopCalls, capture
<1>10. NextSecond \/ UNCHANGED storeVars => Still
    BY DEF NextSecond, capture, storeVars
<1> HIDE DEF Still
<1>11. ASSUME NEW o \in Ops, OpStep(o) PROVE FilesInv'
    BY <1>11, <1>1, <1>4, <1>5, <1>6, <1>7, BeginFiles, TrimFiles DEF OpStep
<1> QED BY <1>1, <1>3, <1>8, <1>9, <1>10, <1>11, DeleteFiles DEF NextD

THEOREM FilesInvariance == SpecD => []FilesInv
<1>1. InitD => FilesInv
    BY InitFiles
<1>2. IInv /\ FilesInv /\ [NextD]_storeVars => FilesInv'
    BY NextFiles
<1> QED BY <1>1, <1>2, Invariance, PTL DEF SpecD

(* The file a capture answers with has survived the trim it runs itself,   *)
(* whatever the limit, the failures before it and the deletes around it.   *)
THEOREM AnswerHasFileAlways == SpecD => []AnswerHasFile
<1>1. FilesInv => AnswerHasFile
    <2> SUFFICES ASSUME FilesInv, NEW o \in Ops, at[o] = "answering", Alone(o)
                 PROVE  Contains(files, name[o]) \/ name[o] \in removed
        BY DEF AnswerHasFile, Alone
    <2>1. name[o] \in removed \/ NewestIs(name[o])
        BY DEF FilesInv, FileNewest, Writing
    <2>2. files \in Seq(Range(files)) /\ Len(files) \in Nat
        BY DEF FilesInv, FilesTyped
    <2> QED BY <2>1, <2>2 DEF NewestIs, Contains
<1> QED BY <1>1, FilesInvariance, PTL
=============================================================================
