--------------------------- MODULE KindPortForward ---------------------------
(***************************************************************************)
(* The port-forward supervisor of the kind backend (kind.go):             *)
(* exposeKindService, which walks the declared exposures in order and for *)
(* each one spawns a forwarder goroutine and waits on its ready and error *)
(* channels, the forwarder goroutines themselves, and the teardown        *)
(* KindCleanNotify, which signals stop and drains the acknowledgements.   *)
(*                                                                         *)
(* The exposures are 1..N in the order of Setup.Kind.ExposePorts.  What   *)
(* resolving a resource, dialling the pod and opening listeners returns   *)
(* is chosen nondeterministically; the channels are modelled by their     *)
(* buffer occupancy.                                                       *)
(***************************************************************************)
EXTENDS Naturals, FiniteSets

CONSTANT N          \* len(e2eConfig.Setup.Kind.ExposePorts)

ASSUME NAssumption == N \in Nat

Exports == 1 .. N

VARIABLES
  exposePc,       \* where exposeKindService is: "start", "loop", "select", "ok", "err"
  idx,            \* index of the exposure the loop is at
  resourceCount,  \* forwardContext.resourceCount (0 while no context exists)
  cancelled,      \* forwardContext.cancelFunc has been called
  bound,          \* the global portForwardContext points to the context
  wpc,            \* state of the forwarder goroutine of each exposure
  ready,          \* readyChannel of each exposure has been closed
  fwdErr,         \* forwardErrorChannel of each exposure holds an error
  published,      \* the env variables of each exposure have been exported
  stopBuf,        \* values buffered in forwardContext.stopChannel (capacity 1)
  finished,       \* values buffered in resourceFinishedChannel
  cleanPc,        \* where KindCleanNotify is: "idle", "drain", "done"
  received        \* loop counter i of the drain loop of KindCleanNotify

vars == <<exposePc, idx, resourceCount, cancelled, bound, wpc, ready, fwdErr,
          published, stopBuf, finished, cleanPc, received>>

WorkerState == {"idle", "forwarding", "running", "exited", "done"}

\* Mutant: the acknowledgement channel sized one short.
AckCapacityShort == N - 1

\* Capacity of resourceFinishedChannel: make(chan struct{}, len(exports)).
AckCapacity == N

\* Capacity of stopChannel: make(chan struct{}, 1).
StopCapacity == 1

\* Forwarders that were started (the goroutine of line 352 exists).
Spawned == {e \in Exports : wpc[e] # "idle"}

\* Forwarders whose ForwardPorts call has not returned yet.
Alive == {e \in Exports : wpc[e] \in {"forwarding", "running"}}

ExposeReturned == exposePc \in {"ok", "err"}

\* KindShouldWaitSignal: a context is bound and it forwards something.
KindShouldWaitSignal == bound /\ resourceCount > 0

-----------------------------------------------------------------------------
(* exposeKindService                                                        *)

Init ==
  /\ exposePc = "start"
  /\ idx = 1
  /\ resourceCount = 0
  /\ cancelled = FALSE
  /\ bound = FALSE
  /\ wpc = [e \in Exports |-> "idle"]
  /\ ready = [e \in Exports |-> FALSE]
  /\ fwdErr = [e \in Exports |-> FALSE]
  /\ published = [e \in Exports |-> FALSE]
  /\ stopBuf = 0
  /\ finished = 0
  /\ cleanPc = "idle"
  /\ received = 0

\* Reading the kubeconfig or building the REST client fails: return before
\* any context exists.
ExposeInitFail ==
  /\ exposePc = "start"
  /\ exposePc' = "err"
  /\ UNCHANGED <<idx, resourceCount, cancelled, bound, wpc, ready, fwdErr,
                 published, stopBuf, finished, cleanPc, received>>

\* Mutant: resourceCount off by one.
CreateContextOffByOne ==
  /\ exposePc = "start"
  /\ exposePc' = "loop"
  /\ resourceCount' = N + 1
  /\ UNCHANGED <<idx, cancelled, bound, wpc, ready, fwdErr, published,
                 stopBuf, finished, cleanPc, received>>

\* The shared forward context is created with resourceCount = len(exports).
CreateContext ==
  /\ exposePc = "start"
  /\ exposePc' = "loop"
  /\ resourceCount' = N
  /\ UNCHANGED <<idx, cancelled, bound, wpc, ready, fwdErr, published,
                 stopBuf, finished, cleanPc, received>>

\* exposePerKindService(i) fails before starting its goroutine (resource not
\* found, no attachable pod, a port that buildKindPort cannot resolve, or
\* portforward.New rejecting the ports): cancelFunc() and return the error.
ResolveFail(i) ==
  /\ exposePc = "loop" /\ idx = i /\ i \in Exports
  /\ exposePc' = "err"
  /\ cancelled' = TRUE
  /\ UNCHANGED <<idx, resourceCount, bound, wpc, ready, fwdErr, published,
                 stopBuf, finished, cleanPc, received>>

\* The ports of exposure i resolve: its forwarder goroutine is started and
\* the loop blocks in the select on readyChannel / forwardErrorChannel.
Spawn(i) ==
  /\ exposePc = "loop" /\ idx = i /\ i \in Exports
  /\ exposePc' = "select"
  /\ wpc' = [wpc EXCEPT ![i] = "forwarding"]
  /\ UNCHANGED <<idx, resourceCount, cancelled, bound, ready, fwdErr,
                 published, stopBuf, finished, cleanPc, received>>

\* readyChannel fired: export <resource>_host and <resource>_<port>, then go
\* on with the next exposure.
SelectReady(i) ==
  /\ exposePc = "select" /\ idx = i
  /\ ready[i]
  /\ published' = [published EXCEPT ![i] = TRUE]
  /\ exposePc' = "loop"
  /\ idx' = i + 1
  /\ UNCHANGED <<resourceCount, cancelled, bound, wpc, ready, fwdErr,
                 stopBuf, finished, cleanPc, received>>

\* forwardErrorChannel fired: the exposure fails, cancelFunc() and return.
SelectErr(i) ==
  /\ exposePc = "select" /\ idx = i
  /\ fwdErr[i]
  /\ exposePc' = "err"
  /\ cancelled' = TRUE
  /\ UNCHANGED <<idx, resourceCount, bound, wpc, ready, fwdErr, published,
                 stopBuf, finished, cleanPc, received>>

\* Mutant: the loop stops one exposure short of the end.
BindEarly ==
  /\ exposePc = "loop" /\ idx > N - 1
  /\ bound' = TRUE
  /\ exposePc' = "ok"
  /\ UNCHANGED <<idx, resourceCount, cancelled, wpc, ready, fwdErr,
                 published, stopBuf, finished, cleanPc, received>>

\* Every exposure is forwarding: bind the global context and return nil.
Bind ==
  /\ exposePc = "loop" /\ idx > N
  /\ bound' = TRUE
  /\ exposePc' = "ok"
  /\ UNCHANGED <<idx, resourceCount, cancelled, wpc, ready, fwdErr,
                 published, stopBuf, finished, cleanPc, received>>

-----------------------------------------------------------------------------
(* The forwarder goroutine: forwarder.ForwardPorts(), then the error if    *)
(* any, then one value on resourceFinishedChannel.                          *)

\* The listeners are open: ForwardPorts closes readyChannel and blocks until
\* stopChannel delivers a value or the connection to the pod is lost.
WorkerReady(e) ==
  /\ wpc[e] = "forwarding"
  /\ wpc' = [wpc EXCEPT ![e] = "running"]
  /\ ready' = [ready EXCEPT ![e] = TRUE]
  /\ UNCHANGED <<exposePc, idx, resourceCount, cancelled, bound, fwdErr,
                 published, stopBuf, finished, cleanPc, received>>

\* Mutant: the goroutine drops the error instead of sending it.
WorkerFailSilent(e) ==
  /\ wpc[e] = "forwarding"
  /\ wpc' = [wpc EXCEPT ![e] = "exited"]
  /\ UNCHANGED <<exposePc, idx, resourceCount, cancelled, bound, ready, fwdErr,
                 published, stopBuf, finished, cleanPc, received>>

\* Dialling the pod or listening fails: ForwardPorts returns the error,
\* which is sent on forwardErrorChannel (capacity 1, one sender).
WorkerFail(e) ==
  /\ wpc[e] = "forwarding"
  /\ wpc' = [wpc EXCEPT ![e] = "exited"]
  /\ fwdErr' = [fwdErr EXCEPT ![e] = TRUE]
  /\ UNCHANGED <<exposePc, idx, resourceCount, cancelled, bound, ready,
                 published, stopBuf, finished, cleanPc, received>>

\* ForwardPorts receives the value on the shared stopChannel and returns nil.
WorkerStop(e) ==
  /\ wpc[e] = "running"
  /\ stopBuf > 0
  /\ stopBuf' = stopBuf - 1
  /\ wpc' = [wpc EXCEPT ![e] = "exited"]
  /\ UNCHANGED <<exposePc, idx, resourceCount, cancelled, bound, ready,
                 fwdErr, published, finished, cleanPc, received>>

\* The stream connection to the pod closes: ForwardPorts returns nil.
WorkerLost(e) ==
  /\ wpc[e] = "running"
  /\ wpc' = [wpc EXCEPT ![e] = "exited"]
  /\ UNCHANGED <<exposePc, idx, resourceCount, cancelled, bound, ready,
                 fwdErr, published, stopBuf, finished, cleanPc, received>>

\* forward.resourceFinishedChannel <- struct{}{}: blocks while it is full.
WorkerAck(e) ==
  /\ wpc[e] = "exited"
  /\ finished < AckCapacity
  /\ finished' = finished + 1
  /\ wpc' = [wpc EXCEPT ![e] = "done"]
  /\ UNCHANGED <<exposePc, idx, resourceCount, cancelled, bound, ready,
                 fwdErr, published, stopBuf, cleanPc, received>>

-----------------------------------------------------------------------------
(* KindCleanNotify, called by the teardown once setup has returned.        *)

\* With a bound context: one value on stopChannel, then drain.  Without one
\* the call returns at once.
CleanNotify ==
  /\ cleanPc = "idle"
  /\ ExposeReturned
  /\ IF bound
       THEN /\ stopBuf < StopCapacity
            /\ stopBuf' = stopBuf + 1
            /\ cleanPc' = "drain"
       ELSE /\ cleanPc' = "done"
            /\ UNCHANGED stopBuf
  /\ UNCHANGED <<exposePc, idx, resourceCount, cancelled, bound, wpc, ready,
                 fwdErr, published, finished, received>>

\* Mutant: a receive that does not block (a select with a default case).
DrainRecvNoWait ==
  /\ cleanPc = "drain"
  /\ received < resourceCount
  /\ finished' = IF finished > 0 THEN finished - 1 ELSE 0
  /\ received' = received + 1
  /\ UNCHANGED <<exposePc, idx, resourceCount, cancelled, bound, wpc, ready,
                 fwdErr, published, stopBuf, cleanPc>>

\* <-portForwardContext.resourceFinishedChannel, for i < resourceCount.
DrainRecv ==
  /\ cleanPc = "drain"
  /\ received < resourceCount
  /\ finished > 0
  /\ finished' = finished - 1
  /\ received' = received + 1
  /\ UNCHANGED <<exposePc, idx, resourceCount, cancelled, bound, wpc, ready,
                 fwdErr, published, stopBuf, cleanPc>>

\* Mutant: the drain loop stops one acknowledgement short.
DrainExitEarly ==
  /\ cleanPc = "drain"
  /\ ~(received < resourceCount - 1)
  /\ cleanPc' = "done"
  /\ UNCHANGED <<exposePc, idx, resourceCount, cancelled, bound, wpc, ready,
                 fwdErr, published, stopBuf, finished, received>>

\* The drain loop ends when resourceCount acknowledgements were received.
DrainExit ==
  /\ cleanPc = "drain"
  /\ ~(received < resourceCount)
  /\ cleanPc' = "done"
  /\ UNCHANGED <<exposePc, idx, resourceCount, cancelled, bound, wpc, ready,
                 fwdErr, published, stopBuf, finished, received>>

-----------------------------------------------------------------------------

Expose ==
  \/ ExposeInitFail
  \/ CreateContext
  \/ \E i \in Exports : ResolveFail(i) \/ Spawn(i) \/ SelectReady(i) \/ SelectErr(i)
  \/ Bind

Worker(e) ==
  \/ WorkerReady(e) \/ WorkerFail(e) \/ WorkerStop(e) \/ WorkerLost(e)
  \/ WorkerAck(e)

Clean == CleanNotify \/ DrainRecv \/ DrainExit

Next == Expose \/ (\E e \in Exports : Worker(e)) \/ Clean

(***************************************************************************)
(* Fairness.  The goroutines of the code are weakly fair: the main loop,   *)
(* each forwarder's ForwardPorts call (which dials and either readies or   *)
(* fails), its receive of a stop value and its acknowledgement, and the    *)
(* teardown.  Losing the connection to a pod is the environment's doing    *)
(* and is not assumed to happen.                                           *)
(***************************************************************************)
Fairness ==
  /\ WF_vars(Expose)
  /\ \A e \in Exports : WF_vars(WorkerReady(e) \/ WorkerFail(e))
  /\ \A e \in Exports : WF_vars(WorkerStop(e))
  /\ \A e \in Exports : WF_vars(WorkerAck(e))
  /\ WF_vars(Clean)

Spec == Init /\ [][Next]_vars /\ Fairness

-----------------------------------------------------------------------------
(* Properties                                                               *)

TypeOK ==
  /\ exposePc \in {"start", "loop", "select", "ok", "err"}
  /\ idx \in 1 .. N + 1
  /\ resourceCount \in {0, N}
  /\ cancelled \in BOOLEAN
  /\ bound \in BOOLEAN
  /\ wpc \in [Exports -> WorkerState]
  /\ ready \in [Exports -> BOOLEAN]
  /\ fwdErr \in [Exports -> BOOLEAN]
  /\ published \in [Exports -> BOOLEAN]
  /\ stopBuf \in 0 .. StopCapacity
  /\ finished \in 0 .. N
  /\ cleanPc \in {"idle", "drain", "done"}
  /\ received \in 0 .. N

(* Drain barrier (KindCleanNotify): once teardown has returned for a bound *)
(* context, every forwarder goroutine that was started has finished and     *)
(* acknowledged; teardown never returns while a tunnel is still up.         *)
DrainBarrier ==
  (cleanPc = "done" /\ bound) => \A e \in Spawned : wpc[e] = "done"

(* Context accounting (exposeKindService): when the context is bound, its  *)
(* resourceCount is the number of forwarder goroutines actually started,    *)
(* and every one of them has had its env variables exported, so the drain  *)
(* waits for exactly the goroutines that exist.                             *)
ContextAccounting ==
  bound => /\ resourceCount = Cardinality(Spawned)
           /\ \A e \in Spawned : published[e]

(* Acknowledgement never blocks (resourceFinishedChannel): a forwarder that *)
(* returned can always deposit its acknowledgement, also when no teardown  *)
(* will ever drain the channel (the error path leaves the context unbound). *)
AckNeverBlocks ==
  \A e \in Exports : wpc[e] = "exited" => finished < AckCapacity

(* Exposure terminates (exposeKindService): the select on readyChannel and *)
(* forwardErrorChannel is always answered, so setup returns, with nil or    *)
(* with the first error, whatever each forwarder's dial does.               *)
ExposeTerminates == <>ExposeReturned

(* No orphan tunnel (spec 4.8, "first error ... cancels already-active      *)
(* tunnels"): once exposeKindService has returned, every forwarder still    *)
(* running is reachable by teardown through the bound context.              *)
NoOrphanTunnel ==
  (ExposeReturned /\ Alive # {}) => bound

(* Teardown terminates (spec 4.8, "broadcast a single stop signal, then     *)
(* block until exactly resourceCount acknowledgements"): KindCleanNotify,   *)
(* once called, eventually returns.                                         *)
CleanupTerminates ==
  (cleanPc # "idle") ~> (cleanPc = "done")

-----------------------------------------------------------------------------
(* Refinement of the promised lifecycle (PortForwardLifecycle).  The       *)
(* context's state is read off the two loops and the bound pointer; the    *)
(* tunnels opened are the forwarders started, and a tunnel is up until its *)
(* acknowledgement is on resourceFinishedChannel.                          *)

LifecycleState ==
  IF cleanPc = "drain" THEN "Draining"
  ELSE IF cleanPc = "done" /\ bound THEN "Stopped"
  ELSE IF bound THEN "Active"
  ELSE IF exposePc = "start" THEN "Idle"
  ELSE IF exposePc \in {"loop", "select"} THEN "Exposing"
  ELSE "Failed"

Lifecycle == INSTANCE PortForwardLifecycle WITH
  state   <- LifecycleState,
  started <- Spawned,
  up      <- {e \in Spawned : wpc[e] # "done"}

(* The supervisor implements the lifecycle of spec 4.8: exposeKindService  *)
(* opens tunnels only while exposing and binds the context only once all  *)
(* are open, and KindCleanNotify leaves the drain only when every started *)
(* forwarder has acknowledged.                                            *)
LifecycleRefined == Lifecycle!Spec

=============================================================================
