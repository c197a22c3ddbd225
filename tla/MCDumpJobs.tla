----------------------------- MODULE MCDumpJobs -----------------------------
(***************************************************************************)
(* Small instances of DumpJobs for TLC.                                    *)
(***************************************************************************)
EXTENDS DumpJobs

CONSTANTS j1, j2

OneJob  == {j1}
OneSize == [j \in OneJob |-> 2]

TwoJobs  == {j1, j2}
TwoSizes == [j \in TwoJobs |-> 2]

(* One job, with everything that can happen to it; or two, of which only   *)
(* one fits the quota, and then no stop requests, no deadline, no restart  *)
(* and no failure to write or delete a record.  The two are alike: j1 is   *)
(* begun first.                                                            *)
Calm == /\ gaveUp = {} /\ unwritten = {} /\ undeleted = {} /\ restarts = 0
        /\ \A j \in Jobs : stop[j] = "idle" /\ ctx[j] = "live"

OneOrTwo ==
    /\ order \in {<<>>, <<j1>>, <<j1, j2>>}
    /\ Len(order) = 2 => Calm

MCSpec == Init /\ [][Next /\ OneOrTwo']_vars /\ Fairness
=============================================================================
