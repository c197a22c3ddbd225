----------------------------- MODULE Collector ------------------------------
(***************************************************************************)
(* The collector process, cmd/collector/main.go: the OTLP receiver         *)
(* (internal/otlp/receiver.go) in front of the pipeline, the pipeline, the *)
(* topology goroutine behind it, and main, which takes them down.          *)
(*                                                                         *)
(* The pipeline is module Pipeline, whole.  The topology is reduced to     *)
(* what shutdown depends on: a chunk its Process has folded in stays in    *)
(* memory until the goroutine flushes; module Topology has the detail.     *)
(* The request handlers are those of google.golang.org/grpc and net/http.  *)
(***************************************************************************)
EXTENDS Pipeline

CONSTANTS Grpc   \* the handlers of the gRPC server; the others serve HTTP

ASSUME CollectorAssumption ==
    /\ Grpc \subseteq Handlers
    /\ Processors = 2          \* pipeline.New(pipeCfg, log, store, topo)

VARIABLES
    main,      \* where main is
    up,        \* the servers that take new requests
    errCh,     \* a server has failed
    req,       \* req[h]: what h is doing
    topo,      \* where the topology goroutine is
    topoStop,  \* Builder.Stop has closed stopCh
    folded,    \* the chunks in the aggregated edges
    flushed    \* the chunks whose edges were handed to the sink

receiver == <<up, errCh, req>>
topology == <<topo, topoStop, folded, flushed>>
collectorVars == <<vars, main, up, errCh, req, topo, topoStop, folded, flushed>>

Http == Handlers \ Grpc
ServerOf(h) == IF h \in Grpc THEN "grpc" ELSE "http"
TopoProc == 2
Idle(H) == \A h \in H : req[h] = "idle"

CollectorInit ==
    /\ Init
    /\ main = "listen"
    /\ up = {}
    /\ errCh = FALSE
    /\ req = [h \in Handlers |-> "idle"]
    /\ topo = "select"
    /\ topoStop = FALSE
    /\ folded = {}
    /\ flushed = {}

-----------------------------------------------------------------------------
(* Requests.  The body arrives at the client's pace; then the handler runs *)
(* to its end without waiting for anything.                                *)
Request(h, from, to) ==
    /\ req[h] = from
    /\ req' = [req EXCEPT ![h] = to]
    /\ UNCHANGED <<main, up, errCh, topology>>

BeginRequest(h) ==
    /\ ServerOf(h) \in up
    /\ Request(h, "idle", "reading")
    /\ UNCHANGED vars

BodyArrives(h) == Request(h, "reading", "ready") /\ UNCHANGED vars

(* A body that cannot be read or decoded, or a request without spans. *)
NothingToConsume(h) == Request(h, "ready", "idle") /\ UNCHANGED vars

(* consume: Accept, then the counters, then the response. *)
ConsumeSend(h, c)  == Request(h, "ready", "sent") /\ Send(h, c)
ConsumeDone(h)     == Request(h, "sent", "idle") /\ CountSent(h)
ConsumeDrop(h, c)  == Request(h, "ready", "idle") /\ Drop(h, c)
ConsumePanic(h, c) == Request(h, "ready", "idle") /\ Panic(h, c)

-----------------------------------------------------------------------------
(* The workers: the pipeline's steps, of which a call to the topology is   *)
(* one.  Builder.Process never returns an error.                           *)
WorkerMoves(w) ==
    /\ Receive(w) \/ SeeClosed(w) \/ Tick(w) \/ SeeDone(w) \/ EndDispatch(w)
    /\ UNCHANGED <<main, receiver, topology>>

Write(w, ok) ==
    /\ worker[w].proc # TopoProc
    /\ Process(w, ok)
    /\ UNCHANGED <<main, receiver, topology>>

Fold(w) ==
    /\ worker[w].proc = TopoProc
    /\ Process(w, TRUE)
    /\ folded' = folded \cup batch[w].chunks
    /\ UNCHANGED <<main, receiver, topo, topoStop, flushed>>

-----------------------------------------------------------------------------
(* The topology goroutine *)

FlushTo(pc) ==
    /\ topo = "select"
    /\ topo' = pc
    /\ flushed' = flushed \cup folded
    /\ folded' = {}
    /\ UNCHANGED <<vars, main, receiver, topoStop>>

FlushTick == FlushTo("select")

(* What ends the goroutine, after a last flush: either channel; in the     *)
(* mutant, only the context.                                               *)
TopoEndsOnCtx == ctxDone
TopoEnds      == topoStop \/ ctxDone

LastFlush == TopoEnds /\ FlushTo("done")

-----------------------------------------------------------------------------
(* Serve and main *)

MainGoes(from, to) ==
    /\ main = from
    /\ main' = to

(* net.Listen for gRPC: without it Serve returns at once. *)
Listen ==
    /\ \/ MainGoes("listen", "serving") /\ up' = {"grpc", "http"}
       \/ MainGoes("listen", "stopPipe") /\ UNCHANGED up
    /\ UNCHANGED <<vars, errCh, req, topology>>

(* A server fails: its requests in flight go on. *)
ServerFails(s) ==
    /\ s \in up
    /\ up' = up \ {s}
    /\ errCh' = TRUE
    /\ UNCHANGED <<vars, main, req, topology>>

(* The select of Serve, then GracefulStop: no new gRPC requests. *)
BeginShutdown ==
    /\ ctxDone \/ errCh
    /\ MainGoes("serving", "drainGrpc")
    /\ up' = up \ {"grpc"}
    /\ UNCHANGED <<vars, errCh, req, topology>>

(* GracefulStop waits for the handlers; in the mutant it does not. *)
GrpcStopped  == TRUE
GrpcDrained  == Idle(Grpc)

GracefulStopReturns ==
    /\ GrpcDrained
    /\ MainGoes("drainGrpc", "drainHttp")
    /\ up' = up \ {"http"}
    /\ UNCHANGED <<vars, errCh, req, topology>>

(* Shutdown waits for the HTTP handlers, but not longer than five seconds. *)
HttpShutdownReturns ==
    /\ MainGoes("drainHttp", "stopPipe")
    /\ UNCHANGED <<vars, receiver, topology>>

StopPipeline ==
    /\ MainGoes("stopPipe", "waitPipe")
    /\ Close
    /\ UNCHANGED <<receiver, topology>>

PipelineStopped ==
    /\ MainGoes("waitPipe", "stopTopo")
    /\ StopReturns
    /\ UNCHANGED <<receiver, topology>>

(* The deferred calls. *)
StopTopology ==
    /\ MainGoes("stopTopo", "waitTopo")
    /\ topoStop' = TRUE
    /\ UNCHANGED <<vars, receiver, topo, folded, flushed>>

(* Stop waits for the goroutine; in the mutant main leaves without it. *)
TopoLeft  == TRUE
TopoEnded == topo = "done"

Exit ==
    /\ TopoEnded
    /\ MainGoes("waitTopo", "exit")
    /\ UNCHANGED <<vars, receiver, topology>>

Signal == Cancel /\ UNCHANGED <<main, receiver, topology>>

-----------------------------------------------------------------------------
HandlerStep(h) ==
    \/ NothingToConsume(h) \/ ConsumeDone(h)
    \/ \E c \in Chunks : ConsumeSend(h, c) \/ ConsumeDrop(h, c) \/ ConsumePanic(h, c)

PoolStep(w) == WorkerMoves(w) \/ Fold(w) \/ \E ok \in BOOLEAN : Write(w, ok)

TopoStep == FlushTick \/ LastFlush

MainStep ==
    \/ Listen \/ BeginShutdown \/ GracefulStopReturns \/ HttpShutdownReturns
    \/ StopPipeline \/ PipelineStopped \/ StopTopology \/ Exit

(* With main the process ends, whatever the other goroutines are doing. *)
CollectorNext ==
    /\ main # "exit"
    /\ \/ \E h \in Handlers : BeginRequest(h) \/ BodyArrives(h) \/ HandlerStep(h)
       \/ \E w \in Workers : PoolStep(w)
       \/ TopoStep
       \/ MainStep
       \/ \E s \in {"grpc", "http"} : ServerFails(s)
       \/ Signal

CollectorSpec == CollectorInit /\ [][CollectorNext]_collectorVars

-----------------------------------------------------------------------------
(* Properties *)

(* What Accept has taken in. *)
Accepted == offered \ (refused \cup panicked)

(* "Drain the queue first, then write the topology": at exit, everything   *)
(* that was accepted has been through the processors, and its edges have   *)
(* been handed to the sink.                                                *)
DrainedThenWritten == main = "exit" => Accepted \subseteq done \cap flushed

(* That holds when a failed listener brings the collector down; it needs   *)
(* every one of GracefulStop, pipe.Stop and topo.Stop to wait, in order.   *)
CompleteWithoutSignal == ~ctxDone => DrainedThenWritten

(* A gRPC handler never meets the closed queue: its panic would not be     *)
(* recovered and would take the process down before the last flush.        *)
GrpcMeetsNoClosedQueue == closed => Idle(Grpc)

-----------------------------------------------------------------------------
(* Fairness: goroutines run, the timers tick, the sink and the store       *)
(* return.  Nothing obliges a client to send the rest of its request.      *)
CollectorFairness ==
    /\ \A h \in Handlers : WF_collectorVars(HandlerStep(h))
    /\ \A w \in Workers : WF_collectorVars(PoolStep(w))
    /\ WF_collectorVars(LastFlush)
    /\ WF_collectorVars(MainStep)

FairCollectorSpec == CollectorSpec /\ CollectorFairness

(* A client has not finished sending a gRPC request. *)
GrpcStalled == \E h \in Grpc : req[h] = "reading"

(* After a signal or the failure of a server the process ends, unless a    *)
(* gRPC client stalls for ever: GracefulStop has no deadline.              *)
ShutdownEnds == (ctxDone \/ errCh) ~> (main = "exit" \/ []GrpcStalled)
=============================================================================
