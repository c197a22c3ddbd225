---------------------------- MODULE ChunkLedger -----------------------------
(***************************************************************************)
(* What the pipeline promises about each chunk, whatever its channel,      *)
(* workers, batches and timers do.                                         *)
(*                                                                         *)
(* Accept takes a chunk or refuses it, once and for all.  A chunk that was *)
(* taken is given to the processors in the order New was given them, to    *)
(* each of them once and whatever the others make of it, and then it is    *)
(* done.  When Stop returns no chunk is half way, what is left behind was  *)
(* left to a cancelled context, and no processor is called any more.       *)
(***************************************************************************)
EXTENDS Naturals

CONSTANTS Chunks,     \* the chunks that may be offered
          Processors  \* the number of processors

VARIABLES status,     \* what has become of each chunk
          given,      \* given[c]: the processors that have had c
          phase,      \* how far Stop is
          cancelled   \* the context is cancelled

ledger == <<status, given, phase, cancelled>>

Init ==
    /\ status = [c \in Chunks |-> "unseen"]
    /\ given = [c \in Chunks |-> {}]
    /\ phase = "open"
    /\ cancelled = FALSE

Taken(c) == status[c] = "accepted"

Accept(c) ==
    /\ status[c] = "unseen"
    /\ phase = "open"
    /\ status' = [status EXCEPT ![c] = "accepted"]
    /\ UNCHANGED <<given, phase, cancelled>>

Refuse(c) ==
    /\ status[c] = "unseen"
    /\ status' = [status EXCEPT ![c] = "refused"]
    /\ UNCHANGED <<given, phase, cancelled>>

(* A batch is given to one processor, after those before it. *)
Give(C, p) ==
    /\ phase # "stopped"
    /\ \A c \in C : Taken(c) /\ given[c] = 1 .. p - 1
    /\ given' = [c \in Chunks |-> IF c \in C THEN 1 .. p ELSE given[c]]
    /\ UNCHANGED <<status, phase, cancelled>>

(* A batch is done when it has been given to all. *)
Complete(C) ==
    /\ phase # "stopped"
    /\ \A c \in C : Taken(c) /\ given[c] = 1 .. Processors
    /\ status' = [c \in Chunks |-> IF c \in C THEN "done" ELSE status[c]]
    /\ UNCHANGED <<given, phase, cancelled>>

Close ==
    /\ phase = "open"
    /\ phase' = "closed"
    /\ UNCHANGED <<status, given, cancelled>>

Cancel ==
    /\ ~cancelled
    /\ cancelled' = TRUE
    /\ UNCHANGED <<status, given, phase>>

StopReturns ==
    /\ phase = "closed"
    /\ \A c \in Chunks : Taken(c) => cancelled /\ given[c] = {}
    /\ phase' = "stopped"
    /\ UNCHANGED <<status, given, cancelled>>

Next ==
    \/ \E c \in Chunks : Accept(c) \/ Refuse(c)
    \/ \E C \in SUBSET Chunks :
         Complete(C) \/ \E p \in 1 .. Processors : Give(C, p)
    \/ Close \/ Cancel \/ StopReturns

Spec == Init /\ [][Next]_ledger
=============================================================================
