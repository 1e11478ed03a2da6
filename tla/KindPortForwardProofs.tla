------------------------ MODULE KindPortForwardProofs ------------------------
(***************************************************************************)
(* Proofs about the port-forward supervisor, for every number N of        *)
(* exposures: the type invariant, and the drain barrier of                *)
(* KindCleanNotify.                                                        *)
(***************************************************************************)
EXTENDS KindPortForward, FiniteSetTheorems, TLAPS

\* Forwarders that have put their acknowledgement on resourceFinishedChannel.
Acked == {e \in Exports : wpc[e] = "done"}

(***************************************************************************)
(* The inductive invariant behind the drain barrier.                       *)
(*   - Count: every acknowledgement is either still buffered or has been   *)
(*     received by the drain loop, so received + finished = |Acked|.       *)
(*   - Prefix: the loop has started the forwarders of every exposure       *)
(*     before idx, so when it binds the context all N exist.               *)
(*   - the context holds resourceCount = N from its creation on;           *)
(*   - Published: every exposure before idx has had its env exported;   *)
(*   - OkBound: exposeKindService returns nil only after binding;        *)
(*   - BoundIdx: the context is bound only once the loop passed the end; *)
(*   - teardown only starts once exposeKindService has returned, so a      *)
(*     context is never bound behind its back, and it only finishes with   *)
(*     a bound context after resourceCount receives.                       *)
(***************************************************************************)
IInv ==
  /\ TypeOK
  /\ Count:: received + finished = Cardinality(Acked)
  /\ Prefix:: \A e \in Exports : e < idx => wpc[e] # "idle"
  /\ ReadyStarted:: \A e \in Exports : ready[e] => wpc[e] # "idle"
  /\ SelectStarted:: exposePc = "select" => idx \in Exports /\ wpc[idx] # "idle"
  /\ Fresh:: \A e \in Exports : e > idx => wpc[e] = "idle"
  /\ LoopFresh:: (exposePc \in {"start", "loop"} /\ idx \in Exports) => wpc[idx] = "idle"
  /\ CountSet:: (exposePc \in {"loop", "select"} \/ bound) => resourceCount = N
  /\ BoundOk:: bound => exposePc = "ok"
  /\ CleanAfter:: cleanPc # "idle" => ExposeReturned
  /\ DrainBound:: cleanPc = "drain" => bound
  /\ DoneBound:: (cleanPc = "done" /\ bound) => received >= resourceCount
  /\ Published:: \A e \in Exports : e < idx => published[e]
  /\ BoundIdx:: bound => idx = N + 1
  /\ OkBound:: exposePc = "ok" => bound

USE NAssumption

LEMMA ExportsFinite == IsFiniteSet(Exports) /\ Cardinality(Exports) = N
  BY FS_Interval DEF Exports

LEMMA AckedFinite == IsFiniteSet(Acked) /\ Acked \subseteq Exports
  BY ExportsFinite, FS_Subset DEF Acked

-----------------------------------------------------------------------------
(* Type correctness.                                                        *)

LEMMA TypeInit == Init => TypeOK
<1> SUFFICES ASSUME Init PROVE TypeOK
  OBVIOUS
<1>1. wpc \in [Exports -> WorkerState]
  BY DEF Init, WorkerState
<1>2. ready \in [Exports -> BOOLEAN] /\ fwdErr \in [Exports -> BOOLEAN]
      /\ published \in [Exports -> BOOLEAN]
  BY DEF Init
<1>3. /\ exposePc \in {"start", "loop", "select", "ok", "err"}
      /\ idx \in 1 .. N + 1
      /\ resourceCount \in {0, N}
      /\ stopBuf \in 0 .. StopCapacity
      /\ finished \in 0 .. N /\ received \in 0 .. N
      /\ cleanPc \in {"idle", "drain", "done"}
  BY DEF Init, StopCapacity
<1>4. cancelled \in BOOLEAN /\ bound \in BOOLEAN
  BY Zenon DEF Init
<1>5. QED
  BY <1>1, <1>2, <1>3, <1>4, Zenon DEF TypeOK

LEMMA TypeStep == TypeOK /\ [Next]_vars => TypeOK'
<1> SUFFICES ASSUME TypeOK, [Next]_vars PROVE TypeOK'
  OBVIOUS
<1> USE DEF TypeOK, WorkerState, StopCapacity, AckCapacity, Exports
<1>1. CASE ExposeInitFail
  BY <1>1 DEF ExposeInitFail
<1>2. CASE CreateContext
  BY <1>2 DEF CreateContext
<1>3. ASSUME NEW i \in Exports, ResolveFail(i) PROVE TypeOK'
  BY <1>3 DEF ResolveFail
<1>4. ASSUME NEW i \in Exports, Spawn(i) PROVE TypeOK'
  BY <1>4 DEF Spawn
<1>5. ASSUME NEW i \in Exports, SelectReady(i) PROVE TypeOK'
  BY <1>5 DEF SelectReady
<1>6. ASSUME NEW i \in Exports, SelectErr(i) PROVE TypeOK'
  BY <1>6 DEF SelectErr
<1>7. CASE Bind
  BY <1>7 DEF Bind
<1>8. ASSUME NEW e \in Exports, Worker(e) PROVE TypeOK'
  <2>1. CASE WorkerReady(e)
    BY <2>1 DEF WorkerReady
  <2>2. CASE WorkerFail(e)
    BY <2>2 DEF WorkerFail
  <2>3. CASE WorkerStop(e)
    BY <2>3 DEF WorkerStop
  <2>4. CASE WorkerLost(e)
    BY <2>4 DEF WorkerLost
  <2>5. CASE WorkerAck(e)
    BY <2>5 DEF WorkerAck
  <2>6. QED
    BY <1>8, <2>1, <2>2, <2>3, <2>4, <2>5 DEF Worker
<1>9. CASE CleanNotify
  BY <1>9 DEF CleanNotify
<1>10. CASE DrainRecv
  BY <1>10 DEF DrainRecv
<1>11. CASE DrainExit
  BY <1>11 DEF DrainExit
<1>12. CASE UNCHANGED vars
  BY <1>12 DEF vars
<1>13. QED
  BY <1>1, <1>2, <1>3, <1>4, <1>5, <1>6, <1>7, <1>8, <1>9, <1>10, <1>11, <1>12
     DEF Next, Expose, Clean

(* TypeOK holds in every reachable state: the positions of the loops, the *)
(* channel buffers and the drain counter stay within their bounds.        *)
THEOREM TypeCorrect == Spec => []TypeOK
BY TypeInit, TypeStep, PTL DEF Spec

-----------------------------------------------------------------------------
(* The drain barrier.                                                       *)

\* A step that leaves wpc alone leaves the set of acknowledged forwarders.
LEMMA AckedStable == UNCHANGED wpc => Acked' = Acked
  BY DEF Acked

\* A forwarder moving between two states short of "done" leaves it too.
LEMMA AckedOther ==
  ASSUME NEW e \in Exports, NEW x, x # "done", wpc[e] # "done",
         wpc \in [Exports -> WorkerState],
         wpc' = [wpc EXCEPT ![e] = x]
  PROVE  Acked' = Acked
  BY DEF Acked

\* The forwarder e that acknowledges joins the acknowledged set.
LEMMA AckedAdd ==
  ASSUME NEW e \in Exports, wpc[e] = "exited",
         wpc \in [Exports -> WorkerState],
         wpc' = [wpc EXCEPT ![e] = "done"]
  PROVE  Cardinality(Acked') = Cardinality(Acked) + 1
<1>1. Acked' = Acked \cup {e}
  BY DEF Acked
<1>2. e \notin Acked
  BY DEF Acked
<1>3. QED
  BY <1>1, <1>2, AckedFinite, FS_AddElement, Zenon

LEMMA IInvInit == Init => IInv
<1> SUFFICES ASSUME Init PROVE IInv
  OBVIOUS
<1>1. Acked = {}
  BY DEF Init, Acked
<1>2. Cardinality(Acked) = 0
  BY <1>1, FS_EmptySet
<1>3. TypeOK
  BY TypeInit
<1>4. received + finished = Cardinality(Acked)
  BY <1>2 DEF Init
<1>5. /\ \A e \in Exports : wpc[e] = "idle" /\ ~ready[e] /\ ~published[e]
      /\ exposePc = "start" /\ idx = 1 /\ ~bound /\ cleanPc = "idle"
  BY DEF Init
<1>6. QED
  BY <1>3, <1>4, <1>5 DEF IInv, Exports

LEMMA IInvStep == IInv /\ [Next]_vars => IInv'
<1> SUFFICES ASSUME IInv, [Next]_vars PROVE IInv'
  OBVIOUS
<1>0. TypeOK'
  BY TypeStep DEF IInv
<1> USE DEF IInv, TypeOK, ExposeReturned
<1>1. CASE ExposeInitFail
  BY <1>0, <1>1, AckedStable DEF ExposeInitFail
<1>2. CASE CreateContext
  BY <1>0, <1>2, AckedStable DEF CreateContext
<1>3. ASSUME NEW i \in Exports, ResolveFail(i) PROVE IInv'
  BY <1>0, <1>3, AckedStable DEF ResolveFail
<1>4. ASSUME NEW i \in Exports, Spawn(i) PROVE IInv'
  <2>1. Acked' = Acked
    BY <1>4, AckedOther, Zenon DEF Spawn, Exports
  <2>2. QED
    BY <1>0, <1>4, <2>1 DEF Spawn, Exports
<1>5. ASSUME NEW i \in Exports, SelectReady(i) PROVE IInv'
  BY <1>0, <1>5, AckedStable DEF SelectReady, Exports
<1>6. ASSUME NEW i \in Exports, SelectErr(i) PROVE IInv'
  BY <1>0, <1>6, AckedStable DEF SelectErr
<1>7. CASE Bind
  BY <1>0, <1>7, AckedStable DEF Bind
<1>8. ASSUME NEW e \in Exports, Worker(e) PROVE IInv'
  <2>1. CASE WorkerReady(e)
    <3>1. Acked' = Acked
      <4>1. /\ wpc[e] # "done" /\ wpc \in [Exports -> WorkerState]
            /\ wpc' = [wpc EXCEPT ![e] = "running"]
        BY <2>1 DEF WorkerReady
      <4>2. QED
        BY <4>1, AckedOther, Zenon
    <3>2. QED
      BY <1>0, <2>1, <3>1 DEF WorkerReady
  <2>2. CASE WorkerFail(e)
    <3>1. Acked' = Acked
      <4>1. /\ wpc[e] # "done" /\ wpc \in [Exports -> WorkerState]
            /\ wpc' = [wpc EXCEPT ![e] = "exited"]
        BY <2>2 DEF WorkerFail
      <4>2. QED
        BY <4>1, AckedOther, Zenon
    <3>2. QED
      BY <1>0, <2>2, <3>1 DEF WorkerFail
  <2>3. CASE WorkerStop(e)
    <3>1. Acked' = Acked
      <4>1. /\ wpc[e] # "done" /\ wpc \in [Exports -> WorkerState]
            /\ wpc' = [wpc EXCEPT ![e] = "exited"]
        BY <2>3 DEF WorkerStop
      <4>2. QED
        BY <4>1, AckedOther, Zenon
    <3>2. QED
      BY <1>0, <2>3, <3>1 DEF WorkerStop
  <2>4. CASE WorkerLost(e)
    <3>1. Acked' = Acked
      <4>1. /\ wpc[e] # "done" /\ wpc \in [Exports -> WorkerState]
            /\ wpc' = [wpc EXCEPT ![e] = "exited"]
        BY <2>4 DEF WorkerLost
      <4>2. QED
        BY <4>1, AckedOther, Zenon
    <3>2. QED
      BY <1>0, <2>4, <3>1 DEF WorkerLost
  <2>5. CASE WorkerAck(e)
    <3>1. Cardinality(Acked') = Cardinality(Acked) + 1
      BY <2>5, AckedAdd, Zenon DEF WorkerAck
    <3>2. QED
      BY <1>0, <2>5, <3>1 DEF WorkerAck
  <2>6. QED
    BY <1>8, <2>1, <2>2, <2>3, <2>4, <2>5 DEF Worker
<1>9. CASE CleanNotify
  BY <1>0, <1>9, AckedStable DEF CleanNotify
<1>10. CASE DrainRecv
  BY <1>0, <1>10, AckedStable DEF DrainRecv
<1>11. CASE DrainExit
  BY <1>0, <1>11, AckedStable DEF DrainExit
<1>12. CASE UNCHANGED vars
  BY <1>12, AckedStable DEF vars
<1>13. QED
  BY <1>1, <1>2, <1>3, <1>4, <1>5, <1>6, <1>7, <1>8, <1>9, <1>10, <1>11, <1>12
     DEF Next, Expose, Clean

\* With a bound context, a finished drain has seen every forwarder acknowledge.
LEMMA IInvBarrier == IInv => DrainBarrier
<1> SUFFICES ASSUME IInv, cleanPc = "done", bound,
                    NEW e \in Spawned
             PROVE  wpc[e] = "done"
  BY Zenon DEF DrainBarrier
<1>1. Cardinality(Acked) >= N
  BY DEF IInv, TypeOK
<1>2. /\ Cardinality(Acked) <= Cardinality(Exports)
      /\ Cardinality(Exports) = Cardinality(Acked) => Exports = Acked
  <2>1. Acked \in SUBSET Exports
    BY AckedFinite
  <2>2. QED
    BY <2>1, ExportsFinite, FS_Subset
<1>3. Cardinality(Acked) = N
  <2>1. Cardinality(Acked) \in Nat
    BY AckedFinite, FS_CardinalityType
  <2>2. QED
    BY <1>1, <1>2, <2>1, ExportsFinite
<1>4. Acked = Exports
  BY <1>2, <1>3, ExportsFinite
<1>5. QED
  BY <1>4 DEF Acked, Spawned

(* Drain barrier: in every reachable state, once KindCleanNotify has       *)
(* returned for a bound context, every forwarder goroutine that was        *)
(* started has acknowledged on resourceFinishedChannel.                    *)
THEOREM DrainBarrierHolds == Spec => []DrainBarrier
BY IInvInit, IInvStep, IInvBarrier, PTL DEF Spec

-----------------------------------------------------------------------------
(* The acknowledgement channel never blocks.                               *)

\* An exited forwarder has not acknowledged, so at most N-1 have.
LEMMA AckedBelow ==
  ASSUME IInv, NEW e \in Exports, wpc[e] = "exited"
  PROVE  Cardinality(Acked) <= N - 1
<1>1. Acked \in SUBSET (Exports \ {e})
  BY DEF Acked
<1>2. IsFiniteSet(Exports \ {e}) /\ Cardinality(Exports \ {e}) = N - 1
  BY ExportsFinite, FS_RemoveElement
<1>3. QED
  BY <1>1, <1>2, FS_Subset

LEMMA IInvAck == IInv => AckNeverBlocks
<1> SUFFICES ASSUME IInv, NEW e \in Exports, wpc[e] = "exited"
             PROVE  finished < AckCapacity
  BY Zenon DEF AckNeverBlocks
<1>1. Cardinality(Acked) <= N - 1
  BY AckedBelow
<1>2. QED
  BY <1>1 DEF IInv, TypeOK, AckCapacity

(* Acknowledgements never block: in every reachable state a forwarder      *)
(* whose ForwardPorts returned finds room on resourceFinishedChannel, on   *)
(* the error path too, where nothing ever drains it.                       *)
THEOREM AckNeverBlocksHolds == Spec => []AckNeverBlocks
BY IInvInit, IInvStep, IInvAck, PTL DEF Spec

-----------------------------------------------------------------------------
(* Context accounting.                                                      *)

\* Once the context is bound, every exposure has its forwarder started.
LEMMA BoundAllSpawned == IInv /\ bound => Spawned = Exports
BY DEF IInv, TypeOK, Spawned, Exports

LEMMA IInvAccounting == IInv => ContextAccounting
<1> SUFFICES ASSUME IInv, bound
             PROVE  /\ resourceCount = Cardinality(Spawned)
                    /\ \A e \in Spawned : published[e]
  BY Zenon DEF ContextAccounting
<1>1. Spawned = Exports
  BY BoundAllSpawned
<1>2. resourceCount = N
  BY DEF IInv
<1>3. \A e \in Exports : published[e]
  BY DEF IInv, TypeOK, Exports
<1>4. QED
  BY <1>1, <1>2, <1>3, ExportsFinite

(* Context accounting: in every reachable state a bound context counts     *)
(* exactly the forwarder goroutines exposeKindService started, and all of  *)
(* them have their env variables exported.                                 *)
THEOREM ContextAccountingHolds == Spec => []ContextAccounting
BY IInvInit, IInvStep, IInvAccounting, PTL DEF Spec

-----------------------------------------------------------------------------
(* Refinement of the abstract lifecycle.                                    *)

\* The tunnels that are up under the refinement mapping.
Up == {e \in Spawned : wpc[e] # "done"}

\* Enough acknowledgements mean every exposure acknowledged.
LEMMA AllAcked ==
  ASSUME IInv, Cardinality(Acked) >= N
  PROVE  Acked = Exports
<1>1. /\ Cardinality(Acked) <= Cardinality(Exports)
      /\ Cardinality(Exports) = Cardinality(Acked) => Exports = Acked
  BY AckedFinite, ExportsFinite, FS_Subset
<1>2. Cardinality(Acked) \in Nat
  BY AckedFinite, FS_CardinalityType
<1>3. QED
  BY <1>1, <1>2, ExportsFinite

LEMMA RefineInit == Init => Lifecycle!Init
<1> SUFFICES ASSUME Init PROVE Lifecycle!Init
  OBVIOUS
<1>1. LifecycleState = "Idle"
  BY DEF Init, LifecycleState
<1>2. Spawned = {}
  BY DEF Init, Spawned
<1>3. QED
  BY <1>1, <1>2 DEF Lifecycle!Init

\* The mapped variables are those of the abstract step relation.
LEMMA RefineStep == IInv /\ [Next]_vars => [Lifecycle!Next]_(Lifecycle!vars)
<1> SUFFICES ASSUME IInv, [Next]_vars
             PROVE  [Lifecycle!Next]_(Lifecycle!vars)
  OBVIOUS
<1> USE DEF IInv, TypeOK, ExposeReturned
<1> DEFINE st == LifecycleState
<1>1. CASE ExposeInitFail
  <2>1. st = "Idle" /\ st' = "Failed"
    BY <1>1 DEF ExposeInitFail, LifecycleState
  <2>2. Spawned' = Spawned /\ Up' = Up
    BY <1>1 DEF ExposeInitFail, Spawned, Up
  <2>3. QED
    BY <2>1, <2>2 DEF Lifecycle!Next, Lifecycle!Abort, Up
<1>2. CASE CreateContext
  <2>1. st = "Idle" /\ st' = "Exposing"
    BY <1>2 DEF CreateContext, LifecycleState
  <2>2. Spawned' = Spawned /\ Up' = Up
    BY <1>2 DEF CreateContext, Spawned, Up
  <2>3. QED
    BY <2>1, <2>2 DEF Lifecycle!Next, Lifecycle!Begin, Up
<1>3. ASSUME NEW i \in Exports, ResolveFail(i) PROVE [Lifecycle!Next]_(Lifecycle!vars)
  <2>1. st = "Exposing" /\ st' = "Failed"
    BY <1>3 DEF ResolveFail, LifecycleState
  <2>2. Spawned' = Spawned /\ Up' = Up
    BY <1>3 DEF ResolveFail, Spawned, Up
  <2>3. QED
    BY <2>1, <2>2 DEF Lifecycle!Next, Lifecycle!Abort, Up
<1>4. ASSUME NEW i \in Exports, Spawn(i) PROVE [Lifecycle!Next]_(Lifecycle!vars)
  <2>1. st = "Exposing" /\ st' = "Exposing"
    BY <1>4 DEF Spawn, LifecycleState
  <2>2. i \notin Spawned
    BY <1>4 DEF Spawn, Spawned
  <2>3. Spawned' = Spawned \cup {i} /\ Up' = Up \cup {i}
    BY <1>4 DEF Spawn, Spawned, Up
  <2>4. QED
    BY <2>1, <2>2, <2>3 DEF Lifecycle!Next, Lifecycle!Open, Lifecycle!Tunnels,
       Exports, Up
<1>5. ASSUME NEW i \in Exports, SelectReady(i) PROVE [Lifecycle!Next]_(Lifecycle!vars)
  <2>1. st' = st
    BY <1>5 DEF SelectReady, LifecycleState
  <2>2. Spawned' = Spawned /\ Up' = Up
    BY <1>5 DEF SelectReady, Spawned, Up
  <2>3. QED
    BY <2>1, <2>2 DEF Lifecycle!vars, Up
<1>6. ASSUME NEW i \in Exports, SelectErr(i) PROVE [Lifecycle!Next]_(Lifecycle!vars)
  <2>1. st = "Exposing" /\ st' = "Failed"
    BY <1>6 DEF SelectErr, LifecycleState
  <2>2. Spawned' = Spawned /\ Up' = Up
    BY <1>6 DEF SelectErr, Spawned, Up
  <2>3. QED
    BY <2>1, <2>2 DEF Lifecycle!Next, Lifecycle!Abort, Up
<1>7. CASE Bind
  <2>1. st = "Exposing" /\ st' = "Active"
    BY <1>7 DEF Bind, LifecycleState
  <2>2. Spawned = Exports
    BY <1>7 DEF Bind, Spawned, Exports
  <2>3. Spawned' = Spawned /\ Up' = Up
    BY <1>7 DEF Bind, Spawned, Up
  <2>4. QED
    BY <2>1, <2>2, <2>3 DEF Lifecycle!Next, Lifecycle!Activate,
       Lifecycle!Tunnels, Exports, Up
<1>8. ASSUME NEW e \in Exports, Worker(e) PROVE [Lifecycle!Next]_(Lifecycle!vars)
  <2>1. ASSUME WorkerReady(e) \/ WorkerFail(e) \/ WorkerStop(e) \/ WorkerLost(e)
        PROVE  [Lifecycle!Next]_(Lifecycle!vars)
    <3>1. /\ wpc[e] \in {"forwarding", "running"}
          /\ wpc' = [wpc EXCEPT ![e] = wpc'[e]]
          /\ wpc'[e] \in {"running", "exited"}
          /\ UNCHANGED <<exposePc, bound, cleanPc>>
      BY <2>1 DEF WorkerReady, WorkerFail, WorkerStop, WorkerLost
    <3>2. st' = st
      BY <3>1 DEF LifecycleState
    <3>3. Spawned' = Spawned /\ Up' = Up
      BY <3>1 DEF Spawned, Up, Exports
    <3>4. QED
      BY <3>2, <3>3 DEF Lifecycle!vars, Up
  <2>2. CASE WorkerAck(e)
    <3>1. st' = st
      BY <2>2 DEF WorkerAck, LifecycleState
    <3>2. e \in Up /\ Spawned' = Spawned /\ Up' = Up \ {e}
      BY <2>2 DEF WorkerAck, Spawned, Up, Exports
    <3>3. QED
      BY <3>1, <3>2 DEF Lifecycle!Next, Lifecycle!Finish, Lifecycle!Tunnels,
         Exports, Up
  <2>3. QED
    BY <1>8, <2>1, <2>2 DEF Worker
<1>9. CASE CleanNotify
  <2>1. Spawned' = Spawned /\ Up' = Up
    BY <1>9 DEF CleanNotify, Spawned, Up
  <2>2. CASE bound
    <3>0. cleanPc = "idle" /\ cleanPc' = "drain" /\ bound /\ bound'
      BY <1>9, <2>2, Zenon DEF CleanNotify
    <3>a. st = "Active"
      BY <3>0 DEF LifecycleState, st
    <3>b. LifecycleState' = "Draining"
      BY <3>0 DEF LifecycleState
    <3>1. st = "Active" /\ st' = "Draining"
      BY <3>a, <3>b
    <3>2. QED
      BY <2>1, <3>1 DEF Lifecycle!Next, Lifecycle!Stop, Up
  <2>3. CASE ~bound
    <3>1. st = "Failed" /\ st' = "Failed"
      BY <1>9, <2>3 DEF CleanNotify, LifecycleState
    <3>2. QED
      BY <2>1, <3>1 DEF Lifecycle!vars, Up
  <2>4. QED
    BY <2>2, <2>3
<1>10. CASE DrainRecv
  <2>1. st' = st
    BY <1>10 DEF DrainRecv, LifecycleState
  <2>2. Spawned' = Spawned /\ Up' = Up
    BY <1>10 DEF DrainRecv, Spawned, Up
  <2>3. QED
    BY <2>1, <2>2 DEF Lifecycle!vars, Up
<1>11. CASE DrainExit
  <2>0. cleanPc = "drain" /\ cleanPc' = "done" /\ bound /\ bound'
    BY <1>11, Zenon DEF DrainExit
  <2>1. st = "Draining" /\ st' = "Stopped"
    BY <2>0 DEF LifecycleState, st
  <2>2. Acked = Exports
    <3>1. Cardinality(Acked) >= N
      BY <1>11 DEF DrainExit
    <3>2. QED
      BY <3>1, AllAcked
  <2>3. Up = {}
    BY <2>2 DEF Acked, Up, Spawned
  <2>4. Spawned' = Spawned /\ Up' = Up
    BY <1>11 DEF DrainExit, Spawned, Up
  <2>5. QED
    BY <2>1, <2>3, <2>4 DEF Lifecycle!Next, Lifecycle!Stopped, Up
<1>12. CASE UNCHANGED vars
  BY <1>12 DEF vars, Lifecycle!vars, LifecycleState, Spawned
<1>13. QED
  BY <1>1, <1>2, <1>3, <1>4, <1>5, <1>6, <1>7, <1>8, <1>9, <1>10, <1>11, <1>12
     DEF Next, Expose, Clean

(* Refinement: every behaviour of the supervisor is a behaviour of the     *)
(* lifecycle of spec 4.8, for every number of exposures: tunnels are       *)
(* opened only while exposing, the context is bound only once all are     *)
(* open, and KindCleanNotify finishes only when no tunnel is up.           *)
THEOREM Refinement == Spec => LifecycleRefined
<1>1. Init => Lifecycle!Init
  BY RefineInit
<1>2. IInv /\ [Next]_vars => [Lifecycle!Next]_(Lifecycle!vars)
  BY RefineStep
<1>3. QED
  BY <1>1, <1>2, IInvInit, IInvStep, PTL
     DEF Spec, LifecycleRefined, Lifecycle!Spec

=============================================================================
