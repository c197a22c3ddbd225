--------------------------- MODULE DumpJobsProofs ---------------------------
(***************************************************************************)
(* Proofs about dump jobs, for any number of jobs and restarts.            *)
(***************************************************************************)
EXTENDS DumpJobs, SumTheorems

Working == {"start", "asking", "getting", "creating", "copying", "copied",
            "failing", "markFailed", "markCancelled"}
JobPcs  == Working \cup {"idle", "ending", "ended", "dead"}

Typed ==
    /\ rec \in [Jobs -> {"none", "pending", "ready", "failed", "cancelled", "deleted"}]
    /\ job \in [Jobs -> JobPcs]
    /\ ctx \in [Jobs -> {"live", "cancelled", "expired"}]
    /\ disk \in [Jobs -> {"none", "partial", "whole"}]
    /\ del \in [Jobs -> {"idle", "file", "record"}]
    /\ jan \in [pc : {"idle", "remove"}, known : SUBSET Jobs, doomed : SUBSET Jobs,
                half : SUBSET Jobs, over : SUBSET Jobs]

(* Only the job itself gives its record a final status, as its last act. *)
RecordInv ==
    \A j \in Jobs : /\ job[j] = "idle" <=> rec[j] = "none"
                    /\ job[j] \in Working => rec[j] \in {"pending", "deleted"}

(* A file is only taken away by name when its job has had its last word. *)
TakenInv ==
    \A j \in Jobs : del[j] = "file" \/ j \in jan.known => job[j] \in {"ending", "ended", "dead"}

(* Nothing grows old under a job, and what was made ready during a round   *)
(* of the janitor does not grow old before its end.                        *)
AgeInv ==
    \A j \in Jobs : /\ j \in oldFile \cup jan.over => Over(j)
                    /\ (jan.pc = "remove" /\ rec[j] = "ready" /\ j \notin jan.known)
                         => j \notin oldFile \cup jan.over \/ j \in unlisted

(* A stop request is behind every cancelled context. *)
StopInv ==
    \A j \in Jobs : /\ ctx[j] = "cancelled" => j \in gaveUp
                    /\ job[j] = "markCancelled" => j \in gaveUp

IInv == Typed /\ RecordInv /\ TakenInv /\ AgeInv /\ StopInv /\ FileKept /\ CancelledWasStopped

-----------------------------------------------------------------------------
LEMMA InitInv == Init => IInv
<1> SUFFICES ASSUME Init PROVE IInv
    OBVIOUS
<1>1. Typed
    BY DEF Init, Typed, NoRound, JobPcs, Working
<1>2. RecordInv /\ TakenInv /\ AgeInv /\ StopInv
    BY DEF Init, RecordInv, TakenInv, AgeInv, StopInv, NoRound, Working
<1>3. FileKept /\ CancelledWasStopped
    BY DEF Init, FileKept, CancelledWasStopped
<1> QED BY <1>1, <1>2, <1>3 DEF IInv

(* A new job. *)
LEMMA CaptureInv == ASSUME IInv, NEW j \in Jobs, Capture(j) PROVE IInv'
<1> USE DEF IInv, Capture
<1>1. Typed'
    BY DEF Typed, JobPcs, Working, ages, history
<1>2. RecordInv' /\ StopInv'
    BY DEF Typed, RecordInv, StopInv, Working, history
<1>3. job[j] = "idle"
    BY DEF RecordInv
<1>4. AgeInv' /\ TakenInv'
    BY <1>3 DEF Typed, AgeInv, TakenInv, Over, ages, history
<1>5. FileKept' /\ CancelledWasStopped'
    BY DEF Typed, FileKept, CancelledWasStopped, history
<1> QED BY <1>1, <1>2, <1>4, <1>5

(* The steps of a job that leave record and file alone. *)
LEMMA QuietJobInv ==
    ASSUME IInv, NEW j \in Jobs,
           Register(j) \/ Asked(j) \/ Got(j) \/ Judge(j) \/ Unregister(j)
    PROVE  IInv'
<1> USE DEF IInv
<1>1. /\ UNCHANGED <<rec, ctx, disk, del, jan, oldFile, gaveUp, unlinked, unlisted>>
      /\ job[j] # "idle"
      /\ \E to \in JobPcs \ {"idle", "copying", "copied", "dead"} :
           /\ job' = [job EXCEPT ![j] = to]
           /\ to \in Working => job[j] \in Working
           /\ to = "markCancelled" => ctx[j] = "cancelled"
           /\ to = "ended" \/ ~Over(j)
    BY DEF Register, Asked, Got, Judge, Unregister, Goes, OnError, Verdict, Over, JobPcs, Working,
           ages, history
<1>2. Typed'
    BY <1>1 DEF Typed
<1>3. RecordInv' /\ StopInv'
    BY <1>1 DEF Typed, RecordInv, StopInv
<1>4. AgeInv' /\ TakenInv'
    BY <1>1 DEF Typed, AgeInv, TakenInv, Over, Working, JobPcs
<1>5. FileKept' /\ CancelledWasStopped'
    BY <1>1 DEF Typed, FileKept, CancelledWasStopped
<1> QED BY <1>2, <1>3, <1>4, <1>5

(* The steps that write the file. *)
LEMMA FileJobInv ==
    ASSUME IInv, NEW j \in Jobs, Created(j) \/ Copied(j)
    PROVE  IInv'
<1> USE DEF IInv
<1>1. /\ UNCHANGED <<rec, ctx, del, jan, oldFile, gaveUp, unlinked, unlisted>>
      /\ job[j] \in {"creating", "copying"}
      /\ \E to \in {"copying", "copied", "failing"}, d \in {"none", "partial", "whole"} :
           /\ job' = [job EXCEPT ![j] = to] /\ disk' = [disk EXCEPT ![j] = d]
           /\ to = "copying" => d = "partial"
           /\ to = "copied" => d = "whole"
    <2>1. CASE Created(j)
        <3>1. disk = [disk EXCEPT ![j] = disk[j]] /\ disk[j] \in {"none", "partial", "whole"}
            BY DEF Typed
        <3> QED BY <2>1, <3>1 DEF Created, Goes, OnError, ages, history
    <2>2. CASE Copied(j)
        BY <2>2 DEF Copied, Goes, OnError, ages, history
    <2> QED BY <2>1, <2>2
<1>2. Typed'
    BY <1>1 DEF Typed, JobPcs, Working
<1>3. RecordInv' /\ StopInv'
    BY <1>1 DEF Typed, RecordInv, StopInv, Working
<1>4. AgeInv' /\ TakenInv'
    BY <1>1 DEF Typed, AgeInv, TakenInv, Over, Working, JobPcs
<1>5. rec[j] # "ready"
    BY <1>1 DEF RecordInv, Working
<1>6. FileKept' /\ CancelledWasStopped'
    BY <1>1, <1>5 DEF Typed, FileKept, CancelledWasStopped
<1> QED BY <1>2, <1>3, <1>4, <1>6

(* The last word of a job. *)
LEMMA FinalWord ==
    ASSUME IInv, NEW j \in Jobs, Mark(j) \/ Complete(j)
    PROVE  /\ UNCHANGED <<ctx, disk, del, jan, oldFile, gaveUp, unlinked, unlisted>>
           /\ job' = [job EXCEPT ![j] = "ending"]
           /\ rec[j] \in {"pending", "deleted"} /\ ~Over(j)
           /\ \E status \in {"pending", "ready", "failed", "cancelled", "deleted"} :
                /\ rec' = [rec EXCEPT ![j] = status]
                /\ status = "ready" => job[j] = "copied"
                /\ status = "cancelled" => job[j] = "markCancelled"
<1> USE DEF IInv
<1>1. job[j] \in {"markFailed", "markCancelled", "copied"}
    BY DEF Mark, Complete, Goes
<1>2. rec[j] \in {"pending", "deleted"} /\ ~Over(j)
    BY <1>1 DEF RecordInv, Working, Over
<1>3. rec = [rec EXCEPT ![j] = rec[j]]
    BY DEF Typed
<1>4. CASE Mark(j)
    BY <1>2, <1>3, <1>4 DEF Mark, Goes, AfterMark, NotWritten, Written, HasRecord, ages
<1>5. CASE Complete(j)
    BY <1>2, <1>3, <1>5 DEF Complete, Goes, NotWritten, Written, HasRecord, ages
<1> QED BY <1>4, <1>5

LEMMA FinalWordInv ==
    ASSUME IInv, NEW j \in Jobs, Mark(j) \/ Complete(j)
    PROVE  IInv'
<1> USE DEF IInv
<1>1. /\ UNCHANGED <<ctx, disk, del, jan, oldFile, gaveUp, unlinked, unlisted>>
      /\ job' = [job EXCEPT ![j] = "ending"]
      /\ ~Over(j)
      /\ job[j] # "idle"
    BY FinalWord DEF RecordInv
<1>2. PICK status \in {"pending", "ready", "failed", "cancelled", "deleted"} :
        /\ rec' = [rec EXCEPT ![j] = status]
        /\ status = "ready" => job[j] = "copied"
        /\ status = "cancelled" => job[j] = "markCancelled"
    BY FinalWord
<1>3. Typed'
    BY <1>1, <1>2 DEF Typed, JobPcs
<1>4. RecordInv' /\ StopInv'
    BY <1>1, <1>2 DEF Typed, RecordInv, StopInv, Working
<1>5. AgeInv' /\ TakenInv'
    BY <1>1, <1>2 DEF Typed, AgeInv, TakenInv, Over
<1>6. FileKept' /\ CancelledWasStopped'
    BY <1>1, <1>2 DEF Typed, FileKept, CancelledWasStopped, StopInv
<1> QED BY <1>3, <1>4, <1>5, <1>6

(* Contexts and requests that do not touch record or file. *)
LEMMA StopRequestInv ==
    ASSUME IInv, NEW j \in Jobs,
           Expire(j) \/ StopReads(j) \/ StopAsked(j) \/ StopCancels(j)
    PROVE  IInv'
<1> USE DEF IInv
<1>1. /\ UNCHANGED <<rec, job, disk, del, jan, oldFile, unlinked, unlisted>>
      /\ gaveUp \subseteq gaveUp'
      /\ \E c \in {"live", "cancelled", "expired"} :
           ctx' = [ctx EXCEPT ![j] = c] /\ (c = "cancelled" => ctx[j] = c \/ j \in gaveUp')
    <2>1. ctx = [ctx EXCEPT ![j] = ctx[j]] /\ ctx[j] \in {"live", "cancelled", "expired"}
        BY DEF Typed
    <2>2. CASE Expire(j)
        BY <2>2 DEF Expire, ages, history
    <2>3. CASE StopReads(j) \/ StopAsked(j)
        BY <2>1, <2>3 DEF StopReads, StopAsked, requestKeeps, ages
    <2>4. CASE StopCancels(j)
        BY <2>1, <2>4 DEF StopCancels, requestKeeps, ages
    <2> QED BY <2>2, <2>3, <2>4
<1>2. Typed'
    BY <1>1 DEF Typed
<1>3. RecordInv' /\ TakenInv' /\ AgeInv' /\ FileKept'
    BY <1>1 DEF RecordInv, TakenInv, AgeInv, Over, FileKept
<1>4. StopInv' /\ CancelledWasStopped'
    BY <1>1 DEF Typed, StopInv, CancelledWasStopped
<1> QED BY <1>2, <1>3, <1>4

(* A deletion: of a file whose job is over, then of the record. *)
LEMMA DeleteInv ==
    ASSUME IInv, NEW j \in Jobs, DeleteReads(j) \/ DeleteFile(j) \/ DeleteRecord(j)
    PROVE  IInv'
<1> USE DEF IInv
<1>1. CASE DeleteReads(j)
    <2> USE <1>1 DEF DeleteReads, requestKeeps, ages
    <2>1. Typed'
        BY DEF Typed
    <2>2. job[j] \in JobPcs /\ (rec[j] = "ready" => job[j] \notin Working \cup {"idle"})
        BY DEF Typed, RecordInv
    <2>3. TakenInv'
        BY <2>2 DEF Typed, TakenInv, JobPcs
    <2>4. RecordInv' /\ AgeInv' /\ StopInv' /\ FileKept' /\ CancelledWasStopped'
        BY DEF RecordInv, AgeInv, Over, StopInv, FileKept, CancelledWasStopped
    <2> QED BY <2>1, <2>3, <2>4
<1>2. CASE DeleteFile(j)
    <2> USE <1>2 DEF DeleteFile, ages
    <2>1. Typed'
        BY DEF Typed
    <2>2. TakenInv'
        BY DEF Typed, TakenInv
    <2>3. FileKept'
        BY DEF Typed, TakenInv, FileKept
    <2>4. RecordInv' /\ AgeInv' /\ StopInv' /\ CancelledWasStopped'
        BY DEF RecordInv, AgeInv, Over, StopInv, CancelledWasStopped
    <2> QED BY <2>1, <2>2, <2>3, <2>4
<1>3. CASE DeleteRecord(j)
    <2>1. rec' = rec \/ (rec[j] \notin {"none", "deleted"} /\ rec' = [rec EXCEPT ![j] = "deleted"])
        <3>1. rec = [rec EXCEPT ![j] = rec[j]]
            BY DEF Typed
        <3> QED BY <1>3, <3>1 DEF DeleteRecord, Deleted, NotDeleted, Written, HasRecord
    <2>2. Typed'
        BY <1>3, <2>1 DEF DeleteRecord, Typed, ages
    <2>3. RecordInv' /\ TakenInv' /\ StopInv'
        BY <1>3, <2>1 DEF DeleteRecord, Typed, RecordInv, TakenInv, StopInv, Working, history
    <2>4. AgeInv' /\ FileKept' /\ CancelledWasStopped'
        BY <1>3, <2>1 DEF DeleteRecord, Typed, AgeInv, Over, FileKept, CancelledWasStopped, ages, history
    <2> QED BY <2>2, <2>3, <2>4
<1> QED BY <1>1, <1>2, <1>3

(* A round of the janitor. *)
LEMMA JanitorInv == ASSUME IInv, JanitorStep PROVE IInv'
<1> USE DEF IInv
<1>1. CASE JanitorLists
    <2> USE <1>1 DEF JanitorLists, ages, history
    <2>1. Known \subseteq Jobs /\ Doomed \subseteq Jobs
        BY DEF Known, Doomed, Excess, Kept, Listed
    <2>2. Typed'
        BY <2>1 DEF Typed
    <2>3. \A j \in Known : job[j] \in {"ending", "ended", "dead"}
        BY <2>1 DEF Typed, Known, RecordInv, JobPcs
    <2>4. TakenInv' /\ RecordInv' /\ StopInv'
        BY <2>3 DEF TakenInv, RecordInv, StopInv
    <2>5. AgeInv'
        <3>1. \A j \in Jobs : rec[j] = "ready" => j \in Known \/ j \in unlisted'
            BY DEF Known, HasRecord
        <3> QED BY <3>1 DEF AgeInv, Over
    <2>6. FileKept' /\ CancelledWasStopped'
        BY DEF FileKept, CancelledWasStopped
    <2> QED BY <2>2, <2>4, <2>5, <2>6
<1>2. CASE JanitorOrphans
    <2> USE <1>2 DEF JanitorOrphans, ages, history
    <2>1. Typed'
        BY DEF Typed, NoRound
    <2>2. TakenInv' /\ RecordInv' /\ StopInv' /\ AgeInv' /\ CancelledWasStopped'
        BY DEF TakenInv, RecordInv, StopInv, AgeInv, Over, CancelledWasStopped, NoRound
    <2>3. ASSUME NEW j \in Jobs, j \notin jan.known, OldEnough(j)
          PROVE  job[j] \notin {"copying", "copied"} /\ (rec[j] = "ready" => j \in unlisted)
        BY <2>3 DEF OldEnough, AgeInv, Over
    <2>4. FileKept'
        BY <2>3 DEF FileKept
    <2> QED BY <2>1, <2>2, <2>4
<1>3. ASSUME NEW j \in Jobs, JanitorFile(j) PROVE IInv'
    <2> USE <1>3 DEF JanitorFile, ages
    <2>1. /\ jan' \in [pc : {"idle", "remove"}, known : SUBSET Jobs, doomed : SUBSET Jobs,
                       half : SUBSET Jobs, over : SUBSET Jobs]
          /\ jan'.pc = jan.pc /\ jan'.known = jan.known /\ jan'.over = jan.over
        BY DEF Typed
    <2>2. Typed'
        BY <2>1 DEF Typed
    <2>3. TakenInv' /\ RecordInv' /\ StopInv' /\ AgeInv' /\ CancelledWasStopped'
        BY <2>1 DEF TakenInv, RecordInv, StopInv, AgeInv, Over, CancelledWasStopped
    <2>4. FileKept'
        BY DEF Typed, TakenInv, FileKept
    <2> QED BY <2>2, <2>3, <2>4
<1>4. ASSUME NEW j \in Jobs, JanitorRecord(j) PROVE IInv'
    <2>1. rec' = rec \/ (rec[j] \notin {"none", "deleted"} /\ rec' = [rec EXCEPT ![j] = "deleted"])
        <3>1. rec = [rec EXCEPT ![j] = rec[j]]
            BY DEF Typed
        <3> QED BY <1>4, <3>1 DEF JanitorRecord, Deleted, NotDeleted, Written, HasRecord
    <2>2. /\ jan' \in [pc : {"idle", "remove"}, known : SUBSET Jobs, doomed : SUBSET Jobs,
                       half : SUBSET Jobs, over : SUBSET Jobs]
          /\ jan'.pc = jan.pc /\ jan'.known = jan.known /\ jan'.over = jan.over
        BY <1>4 DEF Typed, JanitorRecord
    <2>3. UNCHANGED <<job, ctx, disk, del, oldFile, gaveUp, unlinked, unlisted>>
        BY <1>4 DEF JanitorRecord, ages, history
    <2>4. Typed'
        BY <2>1, <2>2, <2>3 DEF Typed
    <2>5. RecordInv' /\ TakenInv' /\ StopInv'
        BY <2>1, <2>2, <2>3 DEF Typed, RecordInv, TakenInv, StopInv, Working
    <2>6. AgeInv' /\ FileKept' /\ CancelledWasStopped'
        BY <2>1, <2>2, <2>3 DEF Typed, AgeInv, Over, FileKept, CancelledWasStopped
    <2> QED BY <2>4, <2>5, <2>6
<1> QED BY <1>1, <1>2, <1>3, <1>4 DEF JanitorStep

(* Time and restarts. *)
LEMMA AgesInv == ASSUME IInv, NEW j \in Jobs, FileAges(j) \/ RecordAges(j) PROVE IInv'
<1> USE DEF IInv
<1>1. /\ UNCHANGED <<rec, job, ctx, disk, del, jan, gaveUp, unlinked, unlisted>>
      /\ oldFile' \subseteq oldFile \cup {j}
      /\ j \in oldFile' \ oldFile => Over(j) /\ (jan.pc = "idle" \/ j \in jan.over)
    BY DEF FileAges, RecordAges, history
<1>2. Typed'
    BY <1>1 DEF Typed
<1>3. RecordInv' /\ TakenInv' /\ StopInv' /\ FileKept' /\ CancelledWasStopped'
    BY <1>1 DEF RecordInv, TakenInv, StopInv, FileKept, CancelledWasStopped
<1>4. AgeInv'
    BY <1>1 DEF AgeInv, Over
<1> QED BY <1>2, <1>3, <1>4

LEMMA RestartInv == ASSUME IInv, Restart PROVE IInv'
<1> USE DEF IInv, Restart, ages, history
<1>1. Typed'
    BY DEF Typed, JobPcs, NoRound
<1>2. RecordInv' /\ TakenInv' /\ StopInv'
    BY DEF Typed, RecordInv, TakenInv, StopInv, Working, NoRound
<1>3. AgeInv' /\ FileKept' /\ CancelledWasStopped'
    BY DEF Typed, AgeInv, Over, FileKept, CancelledWasStopped, NoRound
<1> QED BY <1>1, <1>2, <1>3

LEMMA NextInv == ASSUME IInv, [Next]_vars PROVE IInv'
<1>1. CASE UNCHANGED vars
    BY <1>1 DEF vars, IInv, Typed, RecordInv, TakenInv, AgeInv, Over, StopInv, FileKept,
                CancelledWasStopped
<1>2. CASE Next
    <2>1. ASSUME NEW j \in Jobs, JobStep(j) PROVE IInv'
        BY <2>1, QuietJobInv, FileJobInv, FinalWordInv DEF JobStep
    <2>2. ASSUME NEW j \in Jobs, RequestStep(j) PROVE IInv'
        BY <2>2, StopRequestInv, DeleteInv DEF RequestStep
    <2> QED BY <1>2, <2>1, <2>2, CaptureInv, StopRequestInv, AgesInv, JanitorInv, RestartInv
            DEF Next
<1> QED BY <1>1, <1>2

(* The inductive invariant holds in every state. *)
THEOREM Invariance == Spec => []IInv
<1>1. Init => IInv
    BY InitInv
<1>2. IInv /\ [Next]_vars => IInv'
    BY NextInv
<1> QED BY <1>1, <1>2, PTL DEF Spec

(* No dump is deleted under the job that writes it, and the file of a ready *)
(* record is only gone if that record was being deleted.                    *)
THEOREM FileKeptAlways == Spec => []FileKept
<1>1. IInv => FileKept
    BY DEF IInv
<1> QED BY <1>1, Invariance, PTL

(* A record says cancelled only when a stop request cut the wait short. *)
THEOREM CancelledWasStoppedAlways == Spec => []CancelledWasStopped
<1>1. IInv => CancelledWasStopped
    BY DEF IInv
<1> QED BY <1>1, Invariance, PTL

-----------------------------------------------------------------------------
(* The status of a finished job is only ever replaced by its deletion. *)
LEMMA StepKeepsStatus ==
    ASSUME IInv, [Next]_vars, NEW i \in Jobs, rec[i] \in Finished
    PROVE  rec'[i] \in {rec[i], "deleted"}
<1>1. CASE rec' = rec
    BY <1>1
<1>2. ASSUME NEW j \in Jobs, Capture(j) PROVE rec'[i] = rec[i]
    BY <1>2 DEF Capture, IInv, Typed, Finished
<1>3. ASSUME NEW j \in Jobs, Mark(j) \/ Complete(j) PROVE rec'[i] = rec[i]
    <2>1. rec[j] \in {"pending", "deleted"} /\ \E status : rec' = [rec EXCEPT ![j] = status]
        BY <1>3, FinalWord
    <2> QED BY <2>1 DEF IInv, Typed, Finished
<1>4. ASSUME NEW j \in Jobs, DeleteRecord(j) \/ JanitorRecord(j)
      PROVE  rec'[i] \in {rec[i], "deleted"}
    BY <1>4 DEF DeleteRecord, JanitorRecord, Deleted, NotDeleted, Written, HasRecord, IInv, Typed
<1>5. ASSUME NEW j \in Jobs, JobStep(j) PROVE rec'[i] = rec[i]
    BY <1>3, <1>5 DEF JobStep, Register, Asked, Got, Created, Copied, Judge, Unregister
<1>6. ASSUME NEW j \in Jobs, RequestStep(j) PROVE rec'[i] \in {rec[i], "deleted"}
    BY <1>4, <1>6 DEF RequestStep, StopReads, StopAsked, StopCancels, DeleteReads, DeleteFile, requestKeeps
<1>7. ASSUME NEW j \in Jobs, Expire(j) \/ FileAges(j) \/ RecordAges(j) PROVE rec' = rec
    BY <1>7 DEF Expire, FileAges, RecordAges
<1>8. ASSUME JanitorStep PROVE rec'[i] \in {rec[i], "deleted"}
    BY <1>4, <1>8 DEF JanitorStep, JanitorLists, JanitorOrphans, JanitorFile
<1>9. ASSUME Restart PROVE rec' = rec
    BY <1>9 DEF Restart
<1> QED BY <1>1, <1>2, <1>5, <1>6, <1>7, <1>8, <1>9 DEF Next, vars

(* What the user has been told of a finished job is never revised. *)
THEOREM StatusFinalAlways == Spec => StatusFinal
<1>1. ASSUME IInv, [Next]_vars
      PROVE  [\A j \in Jobs : rec[j] \in Finished => rec'[j] \in {rec[j], "deleted"}]_vars
    BY <1>1, StepKeepsStatus
<1> QED BY <1>1, Invariance, PTL DEF Spec, StatusFinal

-----------------------------------------------------------------------------
(* The quota.  Every record has its place in the order of the list.        *)
OrderInv == /\ order \in Seq(Jobs)
            /\ \A j \in Jobs : rec[j] # "none" => j \in Range(order)

LEMMA OrderStep == ASSUME IInv, OrderInv, [Next]_vars PROVE OrderInv'
<1>0. order \in Seq(Jobs) /\ Len(order) \in Nat
    BY DEF OrderInv
<1>1. CASE UNCHANGED order /\ \A i \in Jobs : rec'[i] # "none" => rec[i] # "none"
    BY <1>1 DEF OrderInv
<1>2. ASSUME NEW j \in Jobs, Capture(j) PROVE OrderInv'
    <2>1. order' = Append(order, j) /\ rec' = [rec EXCEPT ![j] = "pending"]
        BY <1>2 DEF Capture
    <2>2. /\ order' \in Seq(Jobs) /\ Len(order') = Len(order) + 1
          /\ order'[Len(order) + 1] = j
          /\ \A n \in 1 .. Len(order) : order'[n] = order[n]
        BY <1>0, <2>1
    <2>3. Range(order') = Range(order) \cup {j}
        BY <1>0, <2>2 DEF Range
    <2> QED BY <2>1, <2>2, <2>3 DEF OrderInv, IInv, Typed
<1> DEFINE Same == UNCHANGED order /\ \A i \in Jobs : rec'[i] # "none" => rec[i] # "none"
<1>3. ASSUME NEW j \in Jobs, JobStep(j) PROVE Same
    <2>1. CASE Mark(j) \/ Complete(j)
        <3>1. UNCHANGED order
            BY <2>1 DEF Mark, Complete, Goes
        <3>2. rec[j] # "none" /\ \E status : rec' = [rec EXCEPT ![j] = status]
            BY <2>1, FinalWord
        <3> QED BY <3>1, <3>2 DEF IInv, Typed
    <2>2. CASE ~(Mark(j) \/ Complete(j))
        BY <1>3, <2>2 DEF JobStep, Register, Asked, Got, Created, Copied, Judge, Unregister, Goes
    <2> QED BY <2>1, <2>2
<1>4. ASSUME NEW j \in Jobs, RequestStep(j) PROVE Same
    BY <1>4 DEF RequestStep, StopReads, StopAsked, StopCancels, DeleteReads, DeleteFile,
                DeleteRecord, Deleted, NotDeleted, Written, HasRecord, requestKeeps, IInv, Typed
<1>5. ASSUME NEW j \in Jobs, Expire(j) \/ FileAges(j) \/ RecordAges(j) PROVE Same
    BY <1>5 DEF Expire, FileAges, RecordAges
<1>6. ASSUME JanitorStep PROVE Same
    <2>1. UNCHANGED order
        BY <1>6 DEF JanitorStep, JanitorLists, JanitorOrphans, JanitorFile, JanitorRecord
    <2>2. ASSUME NEW j \in Jobs, JanitorRecord(j) PROVE \A i \in Jobs : rec'[i] # "none" => rec[i] # "none"
        BY <2>2 DEF JanitorRecord, Deleted, NotDeleted, Written, HasRecord, IInv, Typed
    <2>3. (\A j \in Jobs : ~JanitorRecord(j)) => rec' = rec
        BY <1>6 DEF JanitorStep, JanitorLists, JanitorOrphans, JanitorFile
    <2> QED BY <2>1, <2>2, <2>3
<1>7. Restart \/ UNCHANGED vars => Same
    BY DEF Restart, vars
<1> HIDE DEF Same
<1>8. Same => OrderInv'
    BY <1>1 DEF Same
<1> QED BY <1>2, <1>3, <1>4, <1>5, <1>6, <1>7, <1>8 DEF Next

(* So a set of jobs with records is finite, and has an oldest. *)
LEMMA Oldest ==
    ASSUME OrderInv, NEW S \in SUBSET Range(order)
    PROVE  /\ IsFiniteSet(S)
           /\ S # {} => \E j \in S : S \subseteq From(j)
<1>1. order \in Seq(Jobs) /\ Len(order) \in Nat /\ DOMAIN order = 1 .. Len(order)
    BY DEF OrderInv
<1>2. IsFiniteSet(DOMAIN order) /\ DOMAIN order \subseteq Int
    BY <1>1, FS_Interval
<1>3. order \in Surjection(DOMAIN order, Range(order))
    BY <1>1 DEF Surjection, Range
<1>4. IsFiniteSet(Range(order))
    BY <1>2, <1>3, FS_Surjection
<1>5. ASSUME S # {} PROVE \E j \in S : S \subseteq From(j)
    <2>1. PICK D : D = {n \in DOMAIN order : order[n] \in S}
        OBVIOUS
    <2>2. D \in SUBSET Int /\ IsFiniteSet(D)
        BY <1>2, <2>1, FS_Subset
    <2>3. D # {}
        BY <1>5, <2>1 DEF Range
    <2>4. PICK m \in D : \A n \in D : m <= n
        BY <2>2, <2>3, Extremes
    <2>5. S \subseteq From(order[m])
        BY <2>1, <2>4 DEF From, Range
    <2> QED BY <2>1, <2>4, <2>5
<1> QED BY <1>4, <1>5, FS_Subset

(* What the janitor spares of the files it knows fits the quota. *)
LEMMA SparedFits ==
    ASSUME IInv, OrderInv
    PROVE  SumOver(Bytes, Known \ Doomed) <= MaxBytes
<1>0. MaxBytes \in Nat /\ Bytes \in [Jobs -> Nat]
    BY DumpJobsAssumption
<1>1. PICK U : U = Known \ Doomed
    OBVIOUS
<1>2. U \subseteq Kept \ Excess /\ Kept \subseteq Jobs /\ \A j \in U : rec[j] = "ready"
    BY <1>1 DEF Known, Doomed, Kept, Listed
<1>3. Kept \subseteq Range(order)
    BY DEF OrderInv, Kept, Listed, HasRecord
<1>4. CASE U = {}
    BY <1>0, <1>1, <1>4, SumEmpty
<1>5. CASE U # {}
    <2>1. PICK j \in U : U \subseteq From(j)
        BY <1>2, <1>3, <1>5, Oldest
    <2>2. PICK W : W = From(j) \cap Kept
        OBVIOUS
    <2>3. IsFiniteSet(W) /\ U \in SUBSET W
        BY <1>2, <1>3, <2>1, <2>2, Oldest
    <2>4. PICK f : f = [k \in W |-> RecBytes(k)]
        OBVIOUS
    <2>5. \A k \in W : f[k] \in Nat
        BY <1>0, <1>2, <2>2, <2>4 DEF RecBytes
    <2>6. ~(Total(W) > MaxBytes)
        BY <1>2, <2>2 DEF Excess
    <2>7. SumOver(f, W) \in Nat /\ SumOver(f, W) <= MaxBytes
        BY <1>0, <2>3, <2>4, <2>5, <2>6, SumType DEF Total
    <2>8. SumOver(f, U) <= SumOver(f, W) /\ SumOver(f, U) \in Nat
        BY <2>3, <2>5, SumSubset
    <2>9. \A k \in U : f[k] = Bytes[k]
        BY <1>2, <2>3, <2>4 DEF RecBytes
    <2>10. SumOver(f, U) = SumOver(Bytes, U)
        BY <2>3, <2>9, SumEqual, FS_Subset
    <2> QED BY <1>0, <1>1, <2>7, <2>8, <2>10
<1> QED BY <1>4, <1>5

(* During a round, the files it knows and does not mean to remove. *)
Spared == {j \in jan.known \ undeleted : rec[j] = "ready"} \ (jan.doomed \cup jan.half)

OneHalf == \A i, k \in jan.half : i = k

RoundInv == OneHalf /\ (jan.pc = "remove" => SumOver(Bytes, Spared) <= MaxBytes)

(* They do not become more: the records the round knows have had their     *)
(* last word from their jobs, and one that the janitor deletes is gone or  *)
(* could not be deleted.                                                   *)
LEMMA SparedShrinks ==
    ASSUME IInv, OneHalf, [Next]_vars, jan'.pc = "remove", jan.pc = "remove"
    PROVE  Spared' \subseteq Spared
<1>1. ASSUME NEW i \in Jobs, rec'[i] = "ready", i \in jan.known PROVE rec[i] = "ready"
    <2>1. job[i] # "copied"
        BY <1>1 DEF IInv, TakenInv
    <2>2. ASSUME NEW j \in Jobs, Mark(j) \/ Complete(j) PROVE rec[i] = "ready"
        <3>1. \E status : rec' = [rec EXCEPT ![j] = status] /\ (status = "ready" => job[j] = "copied")
            BY <2>2, FinalWord
        <3> QED BY <1>1, <2>1, <3>1 DEF IInv, Typed
    <2>3. ASSUME NEW j \in Jobs, Capture(j) PROVE rec[i] = "ready"
        BY <1>1, <2>3 DEF Capture, IInv, Typed
    <2>4. ASSUME NEW j \in Jobs, DeleteRecord(j) \/ JanitorRecord(j) PROVE rec[i] = "ready"
        BY <1>1, <2>4 DEF DeleteRecord, JanitorRecord, Deleted, NotDeleted, Written, HasRecord, IInv, Typed
    <2>5. ASSUME NEW j \in Jobs, JobStep(j) PROVE rec[i] = "ready"
        BY <1>1, <2>2, <2>5 DEF JobStep, Register, Asked, Got, Created, Copied, Judge, Unregister
    <2>6. ASSUME NEW j \in Jobs, RequestStep(j) PROVE rec[i] = "ready"
        BY <1>1, <2>4, <2>6 DEF RequestStep, StopReads, StopAsked, StopCancels, DeleteReads,
                                DeleteFile, requestKeeps
    <2>7. ASSUME NEW j \in Jobs, Expire(j) \/ FileAges(j) \/ RecordAges(j) PROVE rec[i] = "ready"
        BY <1>1, <2>7 DEF Expire, FileAges, RecordAges
    <2>8. ASSUME JanitorStep PROVE rec[i] = "ready"
        BY <1>1, <2>4, <2>8 DEF JanitorStep, JanitorLists, JanitorOrphans, JanitorFile
    <2>9. Restart \/ UNCHANGED vars => rec' = rec
        BY DEF Restart, vars
    <2> QED BY <1>1, <2>3, <2>5, <2>6, <2>7, <2>8, <2>9 DEF Next
<1>2. jan.known \subseteq Jobs
    BY DEF IInv, Typed
<1>3. CASE UNCHANGED <<jan, undeleted>>
    BY <1>1, <1>2, <1>3 DEF Spared
<1>4. ASSUME NEW j \in Jobs, JanitorFile(j) PROVE Spared' \subseteq Spared
    <2>1. /\ jan'.known = jan.known /\ undeleted' = undeleted
          /\ jan'.doomed \cup jan'.half = jan.doomed \cup jan.half
        BY <1>4 DEF JanitorFile, IInv, Typed
    <2> QED BY <1>1, <1>2, <2>1 DEF Spared
<1>5. ASSUME NEW j \in Jobs, JanitorRecord(j) PROVE Spared' \subseteq Spared
    <2>1. jan'.known = jan.known /\ jan'.doomed = jan.doomed /\ jan'.half = {}
        BY <1>5 DEF JanitorRecord, IInv, Typed
    <2>2. undeleted \subseteq undeleted' /\ (rec'[j] # "ready" \/ j \in undeleted')
        BY <1>5 DEF JanitorRecord, Deleted, NotDeleted, Written, HasRecord, IInv, Typed
    <2>3. jan.half = {j}
        BY <1>5 DEF JanitorRecord, OneHalf
    <2> QED BY <1>1, <1>2, <2>1, <2>2, <2>3 DEF Spared
<1>6. JanitorLists \/ JanitorOrphans \/ Restart => FALSE
    BY DEF JanitorLists, JanitorOrphans, Restart, NoRound
<1>7. ASSUME NEW j \in Jobs, JobStep(j) PROVE UNCHANGED <<jan, undeleted>>
    BY <1>7 DEF JobStep, Register, Asked, Got, Created, Copied, Judge, Mark, Complete, Unregister,
                Goes, NotWritten, history
<1>8. ASSUME NEW j \in Jobs, RequestStep(j) PROVE UNCHANGED <<jan, undeleted>>
    BY <1>8 DEF RequestStep, StopReads, StopAsked, StopCancels, DeleteReads, DeleteFile,
                DeleteRecord, requestKeeps, history
<1>9. ASSUME NEW j \in Jobs, Capture(j) \/ Expire(j) \/ FileAges(j) \/ RecordAges(j)
      PROVE  UNCHANGED <<jan, undeleted>>
    BY <1>9 DEF Capture, Expire, FileAges, RecordAges, history
<1>10. UNCHANGED vars => UNCHANGED <<jan, undeleted>>
    BY DEF vars
<1> QED BY <1>3, <1>4, <1>5, <1>6, <1>7, <1>8, <1>9, <1>10 DEF Next, JanitorStep

LEMMA SparedSum ==
    ASSUME IInv, OrderInv, RoundInv, jan.pc = "remove", Spared' \subseteq Spared
    PROVE  SumOver(Bytes, Spared)' <= MaxBytes
<1>0. MaxBytes \in Nat /\ Bytes \in [Jobs -> Nat]
    BY DumpJobsAssumption
<1>1. Spared \subseteq Jobs /\ \A j \in Spared : rec[j] = "ready"
    BY DEF Spared, IInv, Typed
<1>2. IsFiniteSet(Spared)
    BY <1>1, Oldest DEF OrderInv
<1>3. PICK T : T = Spared'
    OBVIOUS
<1>4. SumOver(Bytes, T) <= SumOver(Bytes, Spared) /\ SumOver(Bytes, T) \in Nat
    BY <1>0, <1>1, <1>2, <1>3, SumSubset
<1>5. SumOver(Bytes, Spared) \in Nat
    BY <1>0, <1>1, <1>2, SumType
<1>6. SumOver(Bytes, Spared)' = SumOver(Bytes, T)
    BY <1>3
<1> QED BY <1>0, <1>4, <1>5, <1>6 DEF RoundInv

LEMMA RoundStep ==
    ASSUME IInv, OrderInv, OrderInv', RoundInv, [Next]_vars
    PROVE  RoundInv'
<1>1. CASE UNCHANGED jan
    <2>1. jan.pc = "remove" => Spared' \subseteq Spared
        BY <1>1, SparedShrinks DEF RoundInv
    <2> QED BY <1>1, <2>1, SparedSum DEF RoundInv, OneHalf
<1>2. CASE JanitorLists
    <2>1. /\ jan'.known = Known /\ jan'.doomed = Doomed /\ jan'.half = {}
          /\ undeleted' = {} /\ UNCHANGED rec
        BY <1>2 DEF JanitorLists
    <2>2. Spared' = Known \ Doomed
        BY <2>1 DEF Spared, Known
    <2> QED BY <2>1, <2>2, SparedFits DEF RoundInv, OneHalf
<1>3. CASE JanitorOrphans \/ Restart
    BY <1>3 DEF JanitorOrphans, Restart, NoRound, RoundInv, OneHalf
<1>4. ASSUME NEW j \in Jobs, JanitorFile(j) \/ JanitorRecord(j) PROVE RoundInv'
    <2>0. jan'.half = {j} \/ jan'.half = {}
        BY <1>4 DEF JanitorFile, JanitorRecord, IInv, Typed
    <2>1. OneHalf'
        BY <2>0 DEF OneHalf
    <2>2. jan'.pc = jan.pc
        BY <1>4 DEF JanitorFile, JanitorRecord, IInv, Typed
    <2>3. jan.pc = "remove" => Spared' \subseteq Spared
        BY <2>2, SparedShrinks DEF RoundInv
    <2> QED BY <2>1, <2>2, <2>3, SparedSum DEF RoundInv
<1>5. ASSUME NEW j \in Jobs,
             Capture(j) \/ JobStep(j) \/ Expire(j) \/ RequestStep(j) \/ FileAges(j) \/ RecordAges(j)
      PROVE  UNCHANGED jan
    BY <1>5 DEF Capture, Expire, FileAges, RecordAges, JobStep, Register, Asked, Got, Created,
                Copied, Judge, Mark, Complete, Unregister, Goes, RequestStep, StopReads, StopAsked,
                StopCancels, DeleteReads, DeleteFile, DeleteRecord, requestKeeps
<1>6. UNCHANGED vars => UNCHANGED jan
    BY DEF vars
<1> QED BY <1>1, <1>2, <1>3, <1>4, <1>5, <1>6 DEF Next, JanitorStep

THEOREM OrderInvariance == Spec => []OrderInv
<1>1. Init => OrderInv
    BY DEF Init, OrderInv
<1>2. IInv /\ OrderInv /\ [Next]_vars => OrderInv'
    BY OrderStep
<1> QED BY <1>1, <1>2, Invariance, PTL DEF Spec

(* At the end of a round of the janitor what it knew and left on disk fits *)
(* the quota, for any jobs, sizes, quota and limit of the list, whatever   *)
(* jobs, stop and delete requests and restarts came in between, but for    *)
(* the records the database would not delete.                              *)
THEOREM RoundFitsAlways == Spec => []RoundFits
<1>1. Init => RoundInv
    BY DEF Init, RoundInv, OneHalf, NoRound
<1>2. IInv /\ OrderInv /\ OrderInv' /\ RoundInv /\ [Next]_vars => RoundInv'
    BY RoundStep
<1>3. IInv /\ RoundInv => RoundFits
    <2> SUFFICES ASSUME IInv, RoundInv, jan.pc = "remove", jan.doomed = {}, jan.half = {}
                 PROVE  SumOver(Bytes, {j \in jan.known \ undeleted : rec[j] = "ready"}) <= MaxBytes
        BY DEF RoundFits
    <2>1. Spared = {j \in jan.known \ undeleted : rec[j] = "ready"}
        BY DEF Spared
    <2> QED BY <2>1 DEF RoundInv
<1> QED BY <1>1, <1>2, <1>3, Invariance, OrderInvariance, PTL DEF Spec

=============================================================================
