------------------------ MODULE ConditionWaiterProofs ------------------------
(***************************************************************************)
(* Proofs about one kind setup step (ConditionWaiter), for every number W *)
(* of waits and F of manifest files: the type invariant, selector         *)
(* exclusivity, and that no wait's error is lost by the join.             *)
(***************************************************************************)
EXTENDS ConditionWaiter, FiniteSetTheorems, TLAPS

\* Waiters whose goroutine has not yet run its deferred Done.
Busy == {w \in Waits : wpc[w] \in {"waiting", "sending"}}

\* Failed waiters whose error is on ErrChan.
Sent == {w \in Waits : wpc[w] = "done" /\ w \in failed}

\* Some waiter goroutine was started.
Spawned == \E w \in Waits : wpc[w] # "idle"

(***************************************************************************)
(* The inductive invariant.                                                *)
(*   - the waiters are started together, after every option was built and *)
(*     validated, and never before the step reached "wait";               *)
(*   - a waiter is in failed exactly when RunWait returned an error, so it *)
(*     is sending or done;                                                *)
(*   - the WaitGroup counts the waiters not yet done, and ErrChan holds    *)
(*     one error per failed waiter that is done;                           *)
(*   - once joined, no waiter is busy and the step succeeded exactly when  *)
(*     ErrChan was empty.                                                  *)
(***************************************************************************)
Together == \A v, w \in Waits : wpc[v] = "idle" => wpc[w] = "idle"
Early == pc \in {"manifest", "options"} => ~Spawned
Late == Spawned => pc \in {"wait", "ok", "err"} /\ opt = W + 1
Valid == \A w \in Waits : w < opt => WaitOptionsValid(w)
FailedSet == \A w \in Waits : w \in failed <=> wpc[w] = "sending" \/ w \in Sent
WgBusy == wg = Cardinality(Busy)
ErrSent == errBuf = Cardinality(Sent)
Joined == (pc \in {"ok", "err"} /\ Spawned) => Busy = {} /\ (pc = "ok" <=> errBuf = 0)

IInv ==
  TypeOK /\ Together /\ Early /\ Late /\ Valid /\ FailedSet /\ WgBusy /\ ErrSent /\ Joined

USE WaiterAssumption

-----------------------------------------------------------------------------
(* Lemmas about the sets of waiters.                                        *)

\* Every set of waiters is finite and has at most W elements.
LEMMA WaitSubset ==
  ASSUME NEW S, S \subseteq Waits
  PROVE  IsFiniteSet(S) /\ Cardinality(S) \in 0 .. W
<1>1. IsFiniteSet(Waits) /\ Cardinality(Waits) = W
  BY FS_Interval DEF Waits
<1>2. QED
  BY <1>1, FS_Subset, FS_CardinalityType

\* A set of waiters is empty exactly when its cardinality is 0.
LEMMA WaitEmpty ==
  ASSUME NEW S, S \subseteq Waits
  PROVE  Cardinality(S) = 0 <=> S = {}
BY WaitSubset, FS_EmptySet

-----------------------------------------------------------------------------
(* IInv holds initially and is preserved by every step.                    *)

LEMMA IInvInit == Init => IInv
<1> SUFFICES ASSUME Init PROVE IInv
  OBVIOUS
<1>1. Busy = {} /\ Sent = {} /\ ~Spawned
  BY DEF Init, Busy, Sent, Spawned
<1>2. TypeOK
  BY DEF Init, TypeOK, ErrCapacity
<1>3. Cardinality(Busy) = 0 /\ Cardinality(Sent) = 0
  BY <1>1, FS_EmptySet
<1>4. \A w \in Waits : ~(w < opt) /\ w \notin failed /\ wpc[w] = "idle"
  BY DEF Init, Waits
<1>5. QED
  BY <1>1, <1>2, <1>3, <1>4
     DEF Init, IInv, Together, Early, Late, Valid, FailedSet, WgBusy, ErrSent, Joined

LEMMA IInvStep == IInv /\ [Next]_vars => IInv'
<1> SUFFICES ASSUME IInv, [Next]_vars PROVE IInv'
  OBVIOUS
<1> USE DEF IInv, TypeOK, ErrCapacity
<1>0. /\ Busy \subseteq Waits /\ Sent \subseteq Waits
      /\ Busy' \subseteq Waits /\ Sent' \subseteq Waits
  BY DEF Busy, Sent
\* The steps of the step's goroutine before the waiters exist.
<1>1. CASE ManifestFail \/ ManifestCreate \/ ManifestsDone \/ OptionsFail \/ OptionsOk
  <2>0. UNCHANGED <<resource, label, wpc, failed, errBuf, wg>>
    BY <1>1 DEF ManifestFail, ManifestCreate, ManifestsDone, OptionsFail, OptionsOk
  <2>1. ~Spawned /\ ~Spawned' /\ Busy' = Busy /\ Sent' = Sent
    <3>1. pc \in {"manifest", "options"}
      BY <1>1 DEF ManifestFail, ManifestCreate, ManifestsDone, OptionsFail, OptionsOk
    <3>2. QED
      BY <3>1, <2>0 DEF Early, Spawned, Busy, Sent
  <2>2. TypeOK'
    <3>1. CASE ManifestFail \/ OptionsFail
      BY <3>1, <2>0 DEF ManifestFail, OptionsFail
    <3>2. CASE ManifestCreate
      BY <3>2, <2>0 DEF ManifestCreate
    <3>3. CASE ManifestsDone
      BY <3>3, <2>0 DEF ManifestsDone
    <3>4. CASE OptionsOk
      BY <3>4, <2>0 DEF OptionsOk, Waits
    <3>5. QED
      BY <1>1, <3>1, <3>2, <3>3, <3>4
  <2>3. Valid'
    <3>1. CASE OptionsOk
      <4>1. opt \in Waits /\ opt' = opt + 1 /\ WaitOptionsValid(opt)
        BY <3>1 DEF OptionsOk
      <4>2. ASSUME NEW v \in Waits, v < opt' PROVE WaitOptionsValid(v)'
        <5>1. v < opt \/ v = opt
          BY <4>1, <4>2 DEF Waits
        <5>2. WaitOptionsValid(v)
          BY <5>1, <4>1 DEF Valid
        <5>3. QED
          BY <5>2, <2>0, Zenon DEF WaitOptionsValid
      <4>3. QED
        BY <4>2 DEF Valid
    <3>2. CASE ~OptionsOk
      BY <1>1, <3>2, <2>0, Zenon DEF ManifestFail, ManifestCreate, ManifestsDone, OptionsFail,
                                Valid, WaitOptionsValid
    <3>3. QED
      BY <3>1, <3>2
  <2>4. Together' /\ FailedSet' /\ WgBusy' /\ ErrSent'
    BY <2>0, <2>1 DEF Together, FailedSet, WgBusy, ErrSent
  <2>5. Early' /\ Late' /\ Joined'
    BY <2>1 DEF Early, Late, Joined
  <2>6. QED
    BY <2>2, <2>3, <2>4, <2>5
<1>3. CASE SpawnWaiters
  <2>0. UNCHANGED <<resource, label, file, opt, failed, errBuf>>
        /\ pc' = "wait" /\ wg' = W /\ wpc' = [w \in Waits |-> "waiting"]
    BY <1>3 DEF SpawnWaiters
  <2>1. ~Spawned /\ opt = W + 1
    BY <1>3 DEF SpawnWaiters, Early
  <2>2. failed = {} /\ Sent = {}
    BY <2>1 DEF Spawned, Sent, FailedSet
  <2>3. Busy' = Waits /\ Sent' = {}
    BY <2>0 DEF Busy, Sent
  <2>4. Cardinality(Waits) = W /\ Cardinality({}) = 0
    BY FS_Interval, FS_EmptySet DEF Waits
  <2>5. TypeOK'
    BY <2>0, <2>1, <2>2, <2>4 DEF ErrSent
  <2>6. Together' /\ Early' /\ Late' /\ Joined'
    BY <2>0, <2>1 DEF Together, Early, Late, Joined, Spawned
  <2>7. Valid' /\ FailedSet'
    BY <2>0, <2>2, <2>3, Zenon DEF Valid, FailedSet, WaitOptionsValid
  <2>8. WgBusy' /\ ErrSent'
    BY <2>0, <2>2, <2>3, <2>4 DEF WgBusy, ErrSent
  <2>9. QED
    BY <2>5, <2>6, <2>7, <2>8
<1>4. CASE Join
  <2>0. UNCHANGED <<resource, label, file, opt, wpc, failed, errBuf, wg>>
        /\ pc = "wait" /\ wg = 0 /\ pc' = IF errBuf > 0 THEN "err" ELSE "ok"
    BY <1>4 DEF Join
  <2>1. Busy = {}
    BY <2>0, <1>0, WaitEmpty, Zenon DEF WgBusy
  <2>2. Busy' = Busy /\ Sent' = Sent /\ Spawned' = Spawned
    BY <2>0 DEF Busy, Sent, Spawned
  <2>3. TypeOK'
    BY <2>0
  <2>4. Together' /\ Valid' /\ FailedSet' /\ WgBusy' /\ ErrSent'
    BY <2>0, <2>2, Zenon DEF Together, Valid, WaitOptionsValid, FailedSet, WgBusy, ErrSent
  <2>5. Early' /\ Late' /\ Joined'
    BY <2>0, <2>1, <2>2 DEF Early, Late, Joined
  <2>6. QED
    BY <2>3, <2>4, <2>5
\* A waiter's steps.  All need the waiters started, so the step is waiting.
<1>5. ASSUME NEW w \in Waits, wpc[w] \in {"waiting", "sending"}
      PROVE  /\ w \in Busy /\ w \notin Sent /\ Spawned /\ pc = "wait"
             /\ \A v \in Waits : wpc[v] # "idle"
             /\ Cardinality(Busy) \in 1 .. W
  <2>1. w \in Busy /\ w \notin Sent /\ Spawned
    BY <1>5 DEF Busy, Sent, Spawned
  <2>2. Cardinality(Busy) \in 1 .. W
    BY <2>1, <1>0, WaitSubset, WaitEmpty
  <2>3. pc = "wait"
    BY <2>1 DEF Late, Joined
  <2>4. QED
    BY <1>5, <2>1, <2>2, <2>3 DEF Together
<1>6. ASSUME NEW w \in Waits, WaitMet(w) PROVE IInv'
  <2>0. UNCHANGED <<resource, label, pc, file, opt, failed, errBuf>>
        /\ wpc[w] = "waiting" /\ wpc' = [wpc EXCEPT ![w] = "done"] /\ wg' = wg - 1
    BY <1>6 DEF WaitMet
  <2>1. /\ w \in Busy /\ w \notin Sent /\ Spawned /\ pc = "wait"
        /\ \A v \in Waits : wpc[v] # "idle"
        /\ Cardinality(Busy) \in 1 .. W
    BY <2>0, <1>5
  <2>2. w \notin failed
    BY <2>0, <2>1 DEF FailedSet
  <2>3. Busy' = Busy \ {w} /\ Sent' = Sent /\ Spawned'
    BY <2>0, <2>2 DEF Busy, Sent, Spawned
  <2>4. Cardinality(Busy') = Cardinality(Busy) - 1
    BY <2>1, <2>3, <1>0, WaitSubset, FS_RemoveElement
  <2>5. TypeOK'
    BY <2>0, <2>1, <2>4 DEF WgBusy
  <2>6. Together' /\ Early' /\ Late' /\ Valid' /\ Joined'
    BY <2>0, <2>1, <2>3, Zenon DEF Together, Early, Late, Valid, WaitOptionsValid, Joined
  <2>7. FailedSet'
    BY <2>0, <2>2, <2>3 DEF FailedSet
  <2>8. WgBusy' /\ ErrSent'
    BY <2>0, <2>3, <2>4 DEF WgBusy, ErrSent
  <2>9. QED
    BY <2>5, <2>6, <2>7, <2>8
<1>7. ASSUME NEW w \in Waits, WaitFailed(w) PROVE IInv'
  <2>0. UNCHANGED <<resource, label, pc, file, opt, errBuf, wg>>
        /\ wpc[w] = "waiting" /\ wpc' = [wpc EXCEPT ![w] = "sending"]
        /\ failed' = failed \cup {w}
    BY <1>7 DEF WaitFailed
  <2>1. /\ w \in Busy /\ w \notin Sent /\ Spawned /\ pc = "wait"
        /\ \A v \in Waits : wpc[v] # "idle"
    BY <2>0, <1>5
  <2>2. Busy' = Busy /\ Sent' = Sent /\ Spawned'
    BY <2>0, <2>1 DEF Busy, Sent, Spawned
  <2>3. TypeOK'
    BY <2>0
  <2>4. Together' /\ Early' /\ Late' /\ Valid' /\ Joined'
    BY <2>0, <2>1, <2>2, Zenon DEF Together, Early, Late, Valid, WaitOptionsValid, Joined
  <2>5. FailedSet'
    BY <2>0, <2>2 DEF FailedSet
  <2>6. WgBusy' /\ ErrSent'
    BY <2>0, <2>2 DEF WgBusy, ErrSent
  <2>7. QED
    BY <2>3, <2>4, <2>5, <2>6
<1>8. ASSUME NEW w \in Waits, SendErr(w) PROVE IInv'
  <2>0. UNCHANGED <<resource, label, pc, file, opt, failed>>
        /\ wpc[w] = "sending" /\ wpc' = [wpc EXCEPT ![w] = "done"]
        /\ errBuf < W /\ errBuf' = errBuf + 1 /\ wg' = wg - 1
    BY <1>8 DEF SendErr
  <2>1. /\ w \in Busy /\ w \notin Sent /\ Spawned /\ pc = "wait"
        /\ \A v \in Waits : wpc[v] # "idle"
        /\ Cardinality(Busy) \in 1 .. W
    BY <2>0, <1>5
  <2>2. w \in failed
    BY <2>0 DEF FailedSet
  <2>3. Busy' = Busy \ {w} /\ Sent' = Sent \cup {w} /\ Spawned'
    BY <2>0, <2>2 DEF Busy, Sent, Spawned
  <2>4. /\ Cardinality(Busy') = Cardinality(Busy) - 1
        /\ Cardinality(Sent') = Cardinality(Sent) + 1
    BY <2>1, <2>3, <1>0, WaitSubset, FS_RemoveElement, FS_AddElement, Zenon
  <2>5. TypeOK'
    BY <2>0, <2>1, <2>4 DEF WgBusy
  <2>6. Together' /\ Early' /\ Late' /\ Valid' /\ Joined'
    BY <2>0, <2>1, <2>3, Zenon DEF Together, Early, Late, Valid, WaitOptionsValid, Joined
  <2>7. FailedSet'
    BY <2>0, <2>3 DEF FailedSet
  <2>8. WgBusy' /\ ErrSent'
    BY <2>0, <2>4 DEF WgBusy, ErrSent
  <2>9. QED
    BY <2>5, <2>6, <2>7, <2>8
<1>9. CASE UNCHANGED vars
  <2>1. Busy' = Busy /\ Sent' = Sent /\ Spawned' = Spawned
    BY <1>9 DEF vars, Busy, Sent, Spawned
  <2>2. QED
    BY <1>9, <2>1, Zenon DEF vars, Together, Early, Late, Valid, WaitOptionsValid, FailedSet,
                      WgBusy, ErrSent, Joined
<1>10. QED
  BY <1>1, <1>3, <1>4, <1>6, <1>7, <1>8, <1>9 DEF Next, Step, Waiter

LEMMA IInvHolds == Spec => []IInv
BY IInvInit, IInvStep, PTL DEF Spec

-----------------------------------------------------------------------------
(* The theorems.                                                           *)

(* Type correctness: the step's position, the manifest and option cursors, *)
(* the waiters, the ErrChan occupancy and the WaitGroup counter stay in    *)
(* range, whatever W and F are.                                            *)
THEOREM TypeCorrect == Spec => []TypeOK
BY IInvHolds, PTL DEF IInv

(* No lost error (concurrentlyWait and the WaitSet): for every W and F,    *)
(* once the step has joined its waiters it reports success exactly when no *)
(* RunWait failed; a failed wait's error always reaches ErrChan before its *)
(* Done lets WaitGroup.Wait() return.                                      *)
THEOREM ErrorNotLostHolds == Spec => []ErrorNotLost
<1>1. IInv => ErrorNotLost
  <2> SUFFICES ASSUME IInv, Waits # {}, pc \in {"ok", "err"},
                      \A w \in Waits : wpc[w] # "idle"
               PROVE  pc = "ok" <=> failed = {}
    BY DEF ErrorNotLost
  <2>1. Spawned
    BY DEF Spawned
  <2>2. Busy = {} /\ (pc = "ok" <=> errBuf = 0)
    BY <2>1 DEF IInv, Joined
  <2>3. failed = Sent
    BY <2>2 DEF IInv, TypeOK, Busy, Sent, FailedSet
  <2>4. errBuf = Cardinality(failed) /\ failed \subseteq Waits
    BY <2>3 DEF IInv, TypeOK, ErrSent
  <2>5. QED
    BY <2>2, <2>4, WaitEmpty
<1>2. QED
  BY <1>1, IInvHolds, PTL

=============================================================================
