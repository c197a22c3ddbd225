----------------------------- MODULE AgentDumps -----------------------------
(***************************************************************************)
(* The dump store inside a monitored .NET application:                     *)
(* agent/dotnet/Nabiz.Agent.Diagnostics/DumpStore.cs, as the endpoints of  *)
(* NabizDiagnostics.cs drive it.                                           *)
(*                                                                         *)
(* Capture requests queue for a gate; the one inside publishes its token   *)
(* and its kind in two plain fields, which a stop request reads without    *)
(* the gate.  Files are named after the second a capture began in, and the *)
(* oldest go when there are too many.                                      *)
(***************************************************************************)
EXTENDS Naturals, Sequences, SequencesExt, FiniteSetsExt

CONSTANTS Ops,       \* the capture requests
          Kind,      \* Kind[o]: "cpu" or "memory"
          Stops,     \* the threads that serve stop requests
          MaxFiles,  \* diagnostics.maxFiles
          MaxClock,  \* bound on the clock, in seconds
          Nobody

ASSUME AgentDumpsAssumption ==
    /\ Kind \in [Ops -> {"cpu", "memory"}]
    /\ MaxFiles \in Nat
    /\ MaxClock \in Nat
    /\ Nobody \notin Ops

VARIABLES
    at,           \* at[o]: where the capture is
    gate,         \* the count of the semaphore
    running,      \* _running: the capture whose token is published
    runningKind,  \* _runningKind
    linked,       \* linked[o]: the linked token source of o
    files,        \* the names in the directory, by time of creation
    name,         \* name[o]: the file of o
    clock,        \* the time, to the second
    stop,         \* stop[s]: where a stop request is, and the token it read
    (* History, read by no action *)
    removed       \* the names that delete requests have removed

capture == <<at, gate, running, runningKind, linked, files, name>>
storeVars == <<at, gate, running, runningKind, linked, files, name, clock, stop, removed>>

NoStop == [pc |-> "idle", cts |-> Nobody]

InitD ==
    /\ at = [o \in Ops |-> "idle"]
    /\ gate = 1
    /\ running = Nobody
    /\ runningKind = ""
    /\ linked = [o \in Ops |-> "live"]
    /\ files = <<>>
    /\ name = [o \in Ops |-> Nobody]
    /\ clock = 0
    /\ stop = [s \in Stops |-> NoStop]
    /\ removed = {}

-----------------------------------------------------------------------------
(* CaptureCpuAsync and CaptureMemoryAsync, which differ in the kind they   *)
(* publish and in what an early stop does to them.                         *)

Moves(o, from, to) ==
    /\ at[o] = from
    /\ at' = [at EXCEPT ![o] = to]
    /\ UNCHANGED <<clock, stop, removed>>

Request(o) ==
    /\ Moves(o, "idle", "waiting")
    /\ UNCHANGED <<gate, running, runningKind, linked, files, name>>

(* WaitAsync *)
MayEnter == gate > 0

Enter(o) ==
    /\ MayEnter
    /\ Moves(o, "waiting", "entered")
    /\ gate' = IF gate > 0 THEN gate - 1 ELSE gate
    /\ UNCHANGED <<running, runningKind, linked, files, name>>

(* A caller that has gone away does not get in. *)
Refused(o) ==
    /\ linked[o] = "cancelled"
    /\ Moves(o, "waiting", "refused")
    /\ UNCHANGED <<gate, running, runningKind, linked, files, name>>

PublishToken(o) ==
    /\ Moves(o, "entered", "tokened")
    /\ running' = o
    /\ UNCHANGED <<gate, runningKind, linked, files, name>>

PublishKind(o) ==
    /\ Moves(o, "tokened", "starting")
    /\ runningKind' = Kind[o]
    /\ UNCHANGED <<gate, running, linked, files, name>>

Stamped(o) == <<Kind[o], clock>>

(* Creating a file that exists truncates it: it keeps its place. *)
Created(n) == IF Contains(files, n) THEN files ELSE Append(files, n)

(* An exception leads through the finally block; in the mutant it does not. *)
OnExceptionThrown == "ended"
OnException       == "leaving"

Begin(o) ==
    /\ \/ Moves(o, "starting", "recording") /\ files' = Created(Stamped(o))
       \/ Moves(o, "starting", OnException) /\ UNCHANGED files
    /\ name' = [name EXCEPT ![o] = Stamped(o)]
    /\ UNCHANGED <<gate, running, runningKind, linked>>

(* The profile has run its time or was stopped early, and the copy of its  *)
(* stream is complete; or the dump is written; or one of them failed.      *)
Record(o) ==
    /\ Moves(o, "recording", "trimming") \/ Moves(o, "recording", OnException)
    /\ UNCHANGED <<gate, running, runningKind, linked, files, name>>

(* Trim keeps the newest files, at least one.  Mutant: as many as set. *)
KeepsAsSet == MaxFiles
Keeps      == Max({1, MaxFiles})

Trimmed == SubSeq(files, Len(files) - Min({Keeps, Len(files)}) + 1, Len(files))

Trim(o) ==
    /\ Moves(o, "trimming", "answering")
    /\ files' = Trimmed
    /\ UNCHANGED <<gate, running, runningKind, linked, name>>

(* The length of a file that is gone cannot be read: an exception. *)
Answer(o) ==
    /\ Moves(o, "answering", IF Contains(files, name[o]) THEN "leaving" ELSE OnException)
    /\ UNCHANGED <<gate, running, runningKind, linked, files, name>>

(* The finally block: the fields are cleared before the gate opens.        *)
(* Mutant: the gate opens first.                                           *)
LeaveOrderSwapped == <<"release", "token", "kind">>
LeaveOrder        == <<"token", "kind", "release">>

Leaves(o, what) ==
    \E i \in 1 .. 3 :
        /\ LeaveOrder[i] = what
        /\ Moves(o, <<"leaving", "leaving2", "leaving3">>[i],
                   <<"leaving2", "leaving3", "disposing">>[i])

ClearToken(o) ==
    /\ Leaves(o, "token")
    /\ running' = Nobody
    /\ UNCHANGED <<gate, runningKind, linked, files, name>>

ClearKind(o) ==
    /\ Leaves(o, "kind")
    /\ runningKind' = ""
    /\ UNCHANGED <<gate, running, linked, files, name>>

Release(o) ==
    /\ Leaves(o, "release")
    /\ gate' = gate + 1
    /\ UNCHANGED <<running, runningKind, linked, files, name>>

Dispose(o) ==
    /\ Moves(o, "disposing", "ended")
    /\ linked' = [linked EXCEPT ![o] = "disposed"]
    /\ UNCHANGED <<gate, running, runningKind, files, name>>

OpStep(o) ==
    \/ PublishToken(o) \/ PublishKind(o) \/ Begin(o) \/ Record(o) \/ Trim(o) \/ Answer(o)
    \/ ClearToken(o) \/ ClearKind(o) \/ Release(o) \/ Dispose(o)

(* The caller goes away: RequestAborted cancels the linked token. *)
Abort(o) ==
    /\ at[o] # "idle"
    /\ linked[o] = "live"
    /\ linked' = [linked EXCEPT ![o] = "cancelled"]
    /\ UNCHANGED <<at, gate, running, runningKind, files, name, clock, stop, removed>>

-----------------------------------------------------------------------------
(* Cancel: two reads and a call, without the gate. *)

StopReads(s) ==
    /\ stop[s].pc = "idle"
    /\ running # Nobody
    /\ stop' = [stop EXCEPT ![s] = [pc |-> "read", cts |-> running]]
    /\ UNCHANGED <<capture, clock, removed>>

StopChecks(s) ==
    /\ stop[s].pc = "read"
    /\ stop' = [stop EXCEPT ![s] = IF runningKind = "memory" THEN NoStop
                                   ELSE [@ EXCEPT !.pc = "checked"]]
    /\ UNCHANGED <<capture, clock, removed>>

StopCalls(s) ==
    LET o == stop[s].cts IN
    /\ stop[s].pc = "checked"
    /\ stop' = [stop EXCEPT ![s] = NoStop]
    /\ IF linked[o] = "disposed"
       THEN UNCHANGED linked
       ELSE linked' = [linked EXCEPT ![o] = "cancelled"]
    /\ UNCHANGED <<at, gate, running, runningKind, files, name, clock, removed>>

StopStep(s) == StopReads(s) \/ StopChecks(s) \/ StopCalls(s)

(* Delete *)
Delete(n) ==
    /\ \E i \in DOMAIN files : files[i] = n /\ files' = RemoveAt(files, i)
    /\ removed' = removed \cup {n}
    /\ UNCHANGED <<at, gate, running, runningKind, linked, name, clock, stop>>

NextSecond ==
    /\ clock < MaxClock
    /\ clock' = clock + 1
    /\ UNCHANGED <<capture, stop, removed>>

NextD ==
    \/ \E o \in Ops : \/ Request(o) \/ Enter(o) \/ Refused(o)
                      \/ OpStep(o) \/ Abort(o) \/ Delete(name[o])
    \/ \E s \in Stops : StopStep(s)
    \/ NextSecond

SpecD == InitD /\ [][NextD]_storeVars

-----------------------------------------------------------------------------
(* Properties *)

AtWork == {o \in Ops : at[o] \in {"tokened", "starting", "recording", "trimming", "answering"}}

(* "Only one operation runs at a time": two dumps would suspend the        *)
(* process twice, and two captures would trim each other's files.          *)
OneAtATime == \A o, p \in AtWork : o = p

(* While a capture records, the fields are its own: a stop request that    *)
(* arrives now stops this capture if it is a profile, and is refused if it *)
(* is a dump.  A capture that is leaving does not clear what its successor *)
(* has published.                                                          *)
StopMeetsCapture ==
    \A o \in Ops : at[o] = "recording" => running = o /\ runningKind = Kind[o]

(* The file a capture answers with is there: trimming, which keeps as few  *)
(* as one file, does not take the file of the capture that trims, whatever *)
(* failed captures have left behind.  Two captures of a kind that begin    *)
(* within a second share a file, and are not meant.                        *)
AnswerHasFile ==
    \A o \in Ops :
        (at[o] = "answering" /\ \A p \in Ops \ {o} : name[p] # name[o])
          => Contains(files, name[o]) \/ name[o] \in removed

-----------------------------------------------------------------------------
(* Fairness: a capture's steps are finite, and the waiters of the          *)
(* semaphore are queued, so each gets its turn.                            *)
FairnessD ==
    \A o \in Ops : WF_storeVars(OpStep(o)) /\ SF_storeVars(Enter(o))

FairSpecD == SpecD /\ FairnessD

(* A capture that waits is done or refused in the end: every way out of a  *)
(* capture, exceptions included, opens the gate again.                     *)
CaptureEnds == \A o \in Ops : at[o] = "waiting" ~> at[o] \in {"refused", "ended"}
=============================================================================
