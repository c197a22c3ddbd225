------------------------------ MODULE DumpJobs ------------------------------
(***************************************************************************)
(* Dump jobs of the API server: internal/api/diagnostics.go, the record of *)
(* each job in internal/identity/diagnostics.go, and the janitor of        *)
(* internal/api/dumpjanitor.go.                                            *)
(*                                                                         *)
(* A capture request opens a record and leaves a goroutine behind that     *)
(* asks an agent for a dump and pulls the file to disk.  A stop request    *)
(* may cut the goroutine's wait short, a delete request or the janitor may *)
(* take record and file away, and the process may restart, all of it at    *)
(* any moment of the job.  The agent is outside: a call to it succeeds,    *)
(* fails, or is not answered in time.                                      *)
(***************************************************************************)
EXTENDS Naturals, Sequences, FiniteSets, SequencesExt, Sums

CONSTANTS Jobs,         \* the jobs that may be started
          Bytes,        \* Bytes[j]: the size of the file of j
          MaxBytes,     \* DumpRetention.MaxBytes
          ListLimit,    \* the records the janitor reads (10000 in the code)
          Stoppable,    \* bound: the jobs that stop requests are sent for
          DbMayFail,    \* whether a write to the database may fail
          MaxRestarts   \* bound on the restarts of the process

ASSUME DumpJobsAssumption ==
    /\ Bytes \in [Jobs -> Nat]
    /\ MaxBytes \in Nat
    /\ ListLimit \in Nat
    /\ Stoppable \subseteq Jobs
    /\ DbMayFail \in BOOLEAN
    /\ MaxRestarts \in Nat

VARIABLES
    rec,       \* rec[j]: the status of j's record; "none" before, "deleted" after
    order,     \* the jobs with a record so far, oldest first
    job,       \* job[j]: where fetchDump is
    ctx,       \* ctx[j]: its context is live, cancelled or past its deadline
    inflight,  \* the jobs with a cancel function in the map
    disk,      \* disk[j]: the file of j: none, partial or whole
    stop,      \* stop[j]: where a stop request for j is
    del,       \* del[j]: where a delete request for j is
    jan,       \* the janitor: its list of records, those it is to remove,
               \* and the jobs that were over when it made the list
    oldFile,   \* the files not written to for half an hour
    oldRec,    \* the records past MaxAge
    restarts,  \* how often the process has restarted
    (* History, read by no action *)
    gaveUp,    \* the jobs whose wait a stop request cut short
    unlinked,  \* the jobs whose file a deletion has removed
    unwritten, \* the jobs whose last write to the record could not be made
    unlisted,  \* the jobs whose record a list of the janitor had no room for
    undeleted  \* the jobs whose record the janitor's round could not delete

history == <<gaveUp, unlinked, unwritten, unlisted, undeleted>>
ages == <<oldFile, oldRec>>
vars == <<rec, order, job, ctx, inflight, disk, stop, del, jan, oldFile, oldRec, restarts,
          gaveUp, unlinked, unwritten, unlisted, undeleted>>

Finished == {"ready", "failed", "cancelled"}
HasRecord(j) == rec[j] \notin {"none", "deleted"}
Over(j) == job[j] \in {"ended", "dead"}

NoRound == [pc |-> "idle", known |-> {}, doomed |-> {}, half |-> {},
            over |-> {}]

Init ==
    /\ rec = [j \in Jobs |-> "none"]
    /\ order = <<>>
    /\ job = [j \in Jobs |-> "idle"]
    /\ ctx = [j \in Jobs |-> "live"]
    /\ inflight = {}
    /\ disk = [j \in Jobs |-> "none"]
    /\ stop = [j \in Jobs |-> "idle"]
    /\ del = [j \in Jobs |-> "idle"]
    /\ jan = NoRound
    /\ oldFile = {}
    /\ oldRec = {}
    /\ restarts = 0
    /\ gaveUp = {}
    /\ unlinked = {}
    /\ unwritten = {}
    /\ unlisted = {}
    /\ undeleted = {}

-----------------------------------------------------------------------------
(* handleCapture: the record, then the goroutine. *)
Capture(j) ==
    /\ rec[j] = "none"
    /\ rec' = [rec EXCEPT ![j] = "pending"]
    /\ order' = Append(order, j)
    /\ job' = [job EXCEPT ![j] = "start"]
    /\ UNCHANGED <<ctx, inflight, disk, stop, del, jan, ages, restarts, history>>

(* fetchDump *)

Goes(j, from, to) ==
    /\ job[j] = from
    /\ job' = [job EXCEPT ![j] = to]
    /\ UNCHANGED <<order, stop, del, jan, ages, restarts>>

Register(j) ==
    /\ Goes(j, "start", "asking")
    /\ inflight' = inflight \cup {j}
    /\ UNCHANGED <<rec, ctx, disk, history>>

(* Where an error leads: to fail; in the mutant to a bare return. *)
OnErrorReturns == "ending"
OnError        == "failing"

(* The agent answers the request for a dump, then the one for the file, or *)
(* it does not.  A call under a context that is no longer live fails.      *)
Live(j) == ctx[j] = "live"

Asked(j) ==
    /\ (Live(j) /\ Goes(j, "asking", "getting")) \/ Goes(j, "asking", OnError)
    /\ UNCHANGED <<rec, ctx, inflight, disk, history>>

Got(j) ==
    /\ (Live(j) /\ Goes(j, "getting", "creating")) \/ Goes(j, "getting", OnError)
    /\ UNCHANGED <<rec, ctx, inflight, disk, history>>

Created(j) ==
    /\ \/ Goes(j, "creating", "copying") /\ disk' = [disk EXCEPT ![j] = "partial"]
       \/ Goes(j, "creating", OnError) /\ UNCHANGED disk
    /\ UNCHANGED <<rec, ctx, inflight, history>>

(* The copy succeeds; fails, and the file is removed; or the file cannot   *)
(* be closed, and stays.                                                   *)
Copied(j) ==
    /\ \/ Live(j) /\ Goes(j, "copying", "copied") /\ disk' = [disk EXCEPT ![j] = "whole"]
       \/ Goes(j, "copying", OnError) /\ disk' = [disk EXCEPT ![j] = "none"]
       \/ Live(j) /\ Goes(j, "copying", OnError) /\ disk' = [disk EXCEPT ![j] = "whole"]
    /\ UNCHANGED <<rec, ctx, inflight, history>>

(* fail looks at the context before it writes.  Mutant: a deadline is      *)
(* taken for a cancellation.                                               *)
VerdictAny(j) == IF ctx[j] # "live" THEN "markCancelled" ELSE "markFailed"
Verdict(j)    == IF ctx[j] = "cancelled" THEN "markCancelled" ELSE "markFailed"

Judge(j) ==
    /\ Goes(j, "failing", Verdict(j))
    /\ UNCHANGED <<rec, ctx, inflight, disk, history>>

(* A record is written; a record that is gone stays gone. *)
Written(j, status) == rec' = [rec EXCEPT ![j] = IF HasRecord(j) THEN status ELSE @]

(* After fail, return.  Mutant: after a failed close the job goes on. *)
AfterMarkGoesOn(j) == IF disk[j] = "whole" THEN "copied" ELSE "ending"
AfterMark(j)       == "ending"

NotWritten(j) ==
    /\ unwritten' = unwritten \cup {j}
    /\ UNCHANGED rec

(* FailArtifact always, CancelArtifact if the record is still pending;     *)
(* both without the job's context.                                         *)
Mark(j) ==
    /\ \/ /\ Goes(j, "markFailed", AfterMark(j))
          /\ Written(j, "failed")
          /\ UNCHANGED unwritten
       \/ /\ Goes(j, "markCancelled", AfterMark(j))
          /\ Written(j, IF rec[j] = "pending" THEN "cancelled" ELSE rec[j])
          /\ UNCHANGED unwritten
       \/ /\ DbMayFail
          /\ Goes(j, "markFailed", AfterMark(j)) \/ Goes(j, "markCancelled", AfterMark(j))
          /\ NotWritten(j)
    /\ UNCHANGED <<ctx, inflight, disk, gaveUp, unlinked, unlisted, undeleted>>

(* CompleteArtifact, with the job's context: not without it.  Its error is *)
(* only logged.                                                            *)
Complete(j) ==
    /\ Goes(j, "copied", "ending")
    /\ \/ Live(j) /\ Written(j, "ready") /\ UNCHANGED unwritten
       \/ (~Live(j) \/ DbMayFail) /\ NotWritten(j)
    /\ UNCHANGED <<ctx, inflight, disk, gaveUp, unlinked, unlisted, undeleted>>

Unregister(j) ==
    /\ Goes(j, "ending", "ended")
    /\ inflight' = inflight \ {j}
    /\ UNCHANGED <<rec, ctx, disk, history>>

(* Ten minutes are up. *)
Expire(j) ==
    /\ job[j] \notin {"idle", "ended", "dead"}
    /\ Live(j)
    /\ ctx' = [ctx EXCEPT ![j] = "expired"]
    /\ UNCHANGED <<rec, order, job, inflight, disk, stop, del, jan, ages, restarts, history>>

JobStep(j) ==
    \/ Register(j) \/ Asked(j) \/ Got(j) \/ Created(j) \/ Copied(j)
    \/ Judge(j) \/ Mark(j) \/ Complete(j) \/ Unregister(j)

-----------------------------------------------------------------------------
(* handleCancelCapture: reads the record, asks the agent, and if that is   *)
(* not to be reached takes the cancel function from the map and calls it.  *)
requestKeeps == <<rec, order, job, inflight, disk, jan, ages, restarts,
                  unlinked, unwritten, unlisted, undeleted>>

StopReads(j) ==
    /\ j \in Stoppable
    /\ stop[j] = "idle"
    /\ rec[j] = "pending"
    /\ stop' = [stop EXCEPT ![j] = "asking"]
    /\ UNCHANGED <<ctx, del, gaveUp, requestKeeps>>

StopAsked(j) ==
    /\ stop[j] = "asking"
    /\ \/ stop' = [stop EXCEPT ![j] = "idle"]
       \/ j \in inflight /\ stop' = [stop EXCEPT ![j] = "cancelling"]
    /\ UNCHANGED <<ctx, del, gaveUp, requestKeeps>>

StopCancels(j) ==
    /\ stop[j] = "cancelling"
    /\ stop' = [stop EXCEPT ![j] = "idle"]
    /\ ctx' = [ctx EXCEPT ![j] = IF @ = "live" THEN "cancelled" ELSE @]
    /\ gaveUp' = gaveUp \cup {j}
    /\ UNCHANGED <<del, requestKeeps>>

Deleted(j)    == Written(j, "deleted")
NotDeleted(j) == DbMayFail /\ UNCHANGED rec

(* handleDeleteArtifact: the file the record names, then the record. *)
DeleteReads(j) ==
    /\ del[j] = "idle"
    /\ HasRecord(j)
    /\ del' = [del EXCEPT ![j] = IF rec[j] = "ready" THEN "file" ELSE "record"]
    /\ UNCHANGED <<ctx, stop, gaveUp, requestKeeps>>

DeleteFile(j) ==
    /\ del[j] = "file"
    /\ del' = [del EXCEPT ![j] = "record"]
    /\ disk' \in {disk, [disk EXCEPT ![j] = "none"]}
    /\ unlinked' = unlinked \cup {j}
    /\ UNCHANGED <<rec, order, job, ctx, inflight, stop, jan, ages, restarts,
                   gaveUp, unwritten, unlisted, undeleted>>

DeleteRecord(j) ==
    /\ del[j] = "record"
    /\ del' = [del EXCEPT ![j] = "idle"]
    /\ Deleted(j) \/ NotDeleted(j)
    /\ UNCHANGED <<order, job, ctx, inflight, disk, stop, jan, ages, restarts, history>>

RequestStep(j) ==
    \/ StopReads(j) \/ StopAsked(j) \/ StopCancels(j)
    \/ DeleteReads(j) \/ DeleteFile(j) \/ DeleteRecord(j)

-----------------------------------------------------------------------------
(* cleanDumps *)

(* A record counts with the size of its file, once that is known. *)
RecBytes(j) == IF rec[j] = "ready" THEN Bytes[j] ELSE 0

(* The jobs begun with j or after it. *)
From(j) == {k \in Range(order) :
              \E m, n \in DOMAIN order : order[m] = j /\ order[n] = k /\ m <= n}

(* ListArtifacts: the newest records, as many as the limit allows. *)
Listed == {j \in Jobs : /\ HasRecord(j)
                        /\ Cardinality({k \in From(j) : HasRecord(k)}) <= ListLimit}

(* What remains of the list when the records past MaxAge are gone. *)
Kept == Listed \ oldRec

Total(S) == SumOver([j \in S |-> RecBytes(j)], S)

(* The oldest of them go, until the others fit the quota: a job goes when  *)
(* it and the newer ones are too much.  Mutant: when the newer ones are.   *)
ExcessOneLess == {j \in Kept : Total((From(j) \cap Kept) \ {j}) > MaxBytes}
Excess        == {j \in Kept : Total(From(j) \cap Kept) > MaxBytes}

Doomed == (Listed \cap oldRec) \cup Excess

(* The files the list names; in the mutant, those of every record in it. *)
KnownAll == Listed
Known    == {j \in Listed : rec[j] = "ready"}

JanitorLists ==
    /\ jan.pc = "idle"
    /\ jan' = [pc |-> "remove", known |-> Known, doomed |-> Doomed, half |-> {},
               over |-> {j \in Jobs : Over(j)}]
    /\ unlisted' = unlisted \cup {j \in Jobs : HasRecord(j) /\ j \notin Listed}
    /\ undeleted' = {}
    /\ UNCHANGED <<rec, order, job, ctx, inflight, disk, stop, del, ages, restarts,
                   gaveUp, unlinked, unwritten>>

(* removeDump: the file, if the list names one, then the record. *)
JanitorFile(j) ==
    /\ jan.pc = "remove"
    /\ jan.half = {}
    /\ j \in jan.doomed
    /\ jan' = [jan EXCEPT !.doomed = @ \ {j}, !.half = {j}]
    /\ IF j \in jan.known
       THEN /\ disk' \in {disk, [disk EXCEPT ![j] = "none"]}
            /\ unlinked' = unlinked \cup {j}
       ELSE UNCHANGED <<disk, unlinked>>
    /\ UNCHANGED <<rec, order, job, ctx, inflight, stop, del, ages, restarts,
                   gaveUp, unwritten, unlisted, undeleted>>

JanitorRecord(j) ==
    /\ j \in jan.half
    /\ jan' = [jan EXCEPT !.half = {}]
    /\ \/ Deleted(j) /\ UNCHANGED undeleted
       \/ NotDeleted(j) /\ undeleted' = undeleted \cup {j}
    /\ UNCHANGED <<order, job, ctx, inflight, disk, stop, del, ages, restarts,
                   gaveUp, unlinked, unwritten, unlisted>>

(* "Never delete a file that is still being written": the mutant does. *)
OldEnoughAny(j) == TRUE
OldEnough(j)    == j \in oldFile

(* removeOrphans: the files not in the list, unless they are fresh. *)
JanitorOrphans ==
    /\ jan.pc = "remove"
    /\ jan.doomed = {} /\ jan.half = {}
    /\ jan' = NoRound
    /\ disk' = [j \in Jobs |-> IF j \notin jan.known /\ OldEnough(j) THEN "none" ELSE disk[j]]
    /\ UNCHANGED <<rec, order, job, ctx, inflight, stop, del, ages, restarts, history>>

JanitorStep ==
    \/ JanitorLists \/ JanitorOrphans
    \/ \E j \in Jobs : JanitorFile(j) \/ JanitorRecord(j)

-----------------------------------------------------------------------------
(* Time.  A job lasts ten minutes at most, so what it writes and the       *)
(* record it works for do not grow old before it is over; and a round of   *)
(* the janitor is short, so what was being written when the round began    *)
(* does not grow old before its end.                                       *)
FileAges(j) ==
    /\ Over(j)
    /\ jan.pc = "idle" \/ j \in jan.over
    /\ disk[j] # "none"
    /\ oldFile' = oldFile \cup {j}
    /\ UNCHANGED <<rec, order, job, ctx, inflight, disk, stop, del, jan, oldRec, restarts, history>>

RecordAges(j) ==
    /\ Over(j)
    /\ HasRecord(j)
    /\ oldRec' = oldRec \cup {j}
    /\ UNCHANGED <<rec, order, job, ctx, inflight, disk, stop, del, jan, oldFile, restarts, history>>

(* The process restarts: the goroutines and the map are gone, the records  *)
(* and the files are as they were.                                         *)
Restart ==
    /\ restarts < MaxRestarts
    /\ restarts' = restarts + 1
    /\ job' = [j \in Jobs |-> IF job[j] \in {"idle", "ended"} THEN job[j] ELSE "dead"]
    /\ inflight' = {}
    /\ stop' = [j \in Jobs |-> "idle"]
    /\ del' = [j \in Jobs |-> "idle"]
    /\ jan' = NoRound
    /\ UNCHANGED <<rec, order, ctx, disk, ages, history>>

Next ==
    \/ \E j \in Jobs : \/ Capture(j) \/ JobStep(j) \/ Expire(j) \/ RequestStep(j)
                       \/ FileAges(j) \/ RecordAges(j)
    \/ JanitorStep
    \/ Restart

Spec == Init /\ [][Next]_vars

-----------------------------------------------------------------------------
(* Properties *)

(* "A dump still being written is never deleted underneath itself", and    *)
(* the file of a ready record is on disk unless a deletion of that record  *)
(* has taken it, or there were once more newer records than the janitor    *)
(* reads: that its list may be stale costs no file.                        *)
FileKept ==
    \A j \in Jobs :
        /\ job[j] = "copying" => disk[j] = "partial"
        /\ job[j] = "copied" => disk[j] = "whole"
        /\ rec[j] = "ready" => disk[j] = "whole" \/ j \in unlinked \cup unlisted

(* "removeOrphans deletes files that have no counterpart in the database", *)
(* and no other.                                                           *)
OnlyOrphansGo ==
    [][\A j \in Jobs : JanitorOrphans /\ rec[j] = "ready" => disk'[j] = disk[j]]_vars

(* "Once the file has landed, the job is done": what the user has been     *)
(* told of a finished job is never revised, by whatever interleaving of    *)
(* the job, stop requests, deletions and restarts.                         *)
StatusFinal ==
    [][\A j \in Jobs : rec[j] \in Finished => rec'[j] \in {rec[j], "deleted"}]_vars

(* "Reporting a cancelled job as failed would be misleading", and so would *)
(* the reverse: only a job whose wait was cut short is marked cancelled.   *)
CancelledWasStopped == \A j \in Jobs : rec[j] = "cancelled" => j \in gaveUp

(* When a round of the janitor has removed what it meant to, what is left  *)
(* of the files in its list fits the quota, whatever requests and jobs did *)
(* to the records in the meantime, but for records it could not delete.    *)
RoundFits ==
    (jan.pc = "remove" /\ jan.doomed = {} /\ jan.half = {}) =>
      SumOver(Bytes, {j \in jan.known \ undeleted : rec[j] = "ready"}) <= MaxBytes

-----------------------------------------------------------------------------
(* Fairness: calls return or time out, requests run to their end, the      *)
(* janitor's ticker ticks, time passes.                                    *)
Fairness ==
    /\ \A j \in Jobs : /\ WF_vars(JobStep(j))
                       /\ WF_vars(StopAsked(j) \/ StopCancels(j))
                       /\ WF_vars(DeleteFile(j) \/ DeleteRecord(j))
                       /\ WF_vars(FileAges(j))
    /\ WF_vars(JanitorStep)

FairSpec == Spec /\ Fairness

(* No job is left pending, unless the process went down under it or its    *)
(* last word could not be written.                                         *)
JobsSettle ==
    \A j \in Jobs : rec[j] = "pending" ~> (rec[j] # "pending" \/ job[j] = "dead" \/ j \in unwritten)

(* What a job leaves on disk without a record of it ready is collected. *)
OrphansGo ==
    \A j \in Jobs : (Over(j) /\ rec[j] # "ready" /\ disk[j] # "none") ~> disk[j] = "none"

(* "nabiz gives up waiting only when it cannot reach the application at    *)
(* all, and the record is then marked stopped, not failed": at least, it   *)
(* does not stay pending.                                                  *)
StopSettles == \A j \in Jobs : j \in gaveUp ~> (rec[j] # "pending" \/ job[j] = "dead")
=============================================================================
