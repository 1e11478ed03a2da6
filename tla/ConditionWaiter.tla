--------------------------- MODULE ConditionWaiter ---------------------------
(***************************************************************************)
(* One setup step of the kind backend: its manifest files are created one *)
(* after the other (createByManifest), the options of each declared wait  *)
(* are built and validated (getWaitOptions), one goroutine per wait runs  *)
(* `kubectl wait` (concurrentlyWait), and the step blocks until all of     *)
(* them are done and then looks at the error channel.                     *)
(*                                                                         *)
(* The caller and the WaitSet (a WaitGroup and the buffered ErrChan) are  *)
(* not code of this repository; they follow spec 4.7.  What a manifest   *)
(* operation, ToOptions and RunWait return is chosen nondeterministically. *)
(***************************************************************************)
EXTENDS Naturals

CONSTANTS
  W,            \* number of waits declared by the step
  F             \* number of manifest files under the step's path

ASSUME WaiterAssumption == W \in Nat /\ F \in Nat

Waits == 1 .. W

\* The shapes of Wait.Resource: empty, "kind" or "kind/name".
ResourceForms == {"", "kind", "kind/name"}

VARIABLES
  resource,     \* Wait.Resource of each wait (fixed by the config)
  label,        \* Wait.LabelSelector # "" for each wait (fixed by the config)
  pc,           \* the step: "manifest", "options", "wait", "ok", "err"
  file,         \* next manifest file to create
  opt,          \* next wait whose options are built
  wpc,          \* each waiter: "idle", "waiting", "sending", "done"
  failed,       \* the waits whose RunWait returned an error
  errBuf,       \* errors buffered in WaitSet.ErrChan
  wg            \* the WaitGroup counter

vars == <<resource, label, pc, file, opt, wpc, failed, errBuf, wg>>

\* Mutant: ErrChan sized one short.
ErrCapacityShort == W - 1

\* Capacity of WaitSet.ErrChan: the number of waits (spec 4.7).
ErrCapacity == W

-----------------------------------------------------------------------------
(* getWaitOptions: the checks made before any flag is built.                *)

\* Neither "kind/name" together with a label selector, nor an empty resource.
WaitOptionsValid(w) ==
  /\ ~(resource[w] = "kind/name" /\ label[w])
  /\ resource[w] # ""

-----------------------------------------------------------------------------

Init ==
  /\ resource \in [Waits -> ResourceForms]
  /\ label \in [Waits -> BOOLEAN]
  /\ pc = "manifest"
  /\ file = 1
  /\ opt = 1
  /\ wpc = [w \in Waits |-> "idle"]
  /\ failed = {}
  /\ errBuf = 0
  /\ wg = 0

\* util.GetManifests fails, or creating file `file` fails: return the error.
ManifestFail ==
  /\ pc = "manifest"
  /\ pc' = "err"
  /\ UNCHANGED <<resource, label, file, opt, wpc, failed, errBuf, wg>>

\* util.OperateManifest(c, dc, f, Create) succeeds for the next file.
ManifestCreate ==
  /\ pc = "manifest" /\ file <= F
  /\ file' = file + 1
  /\ UNCHANGED <<resource, label, pc, opt, wpc, failed, errBuf, wg>>

\* Every file was created.
ManifestsDone ==
  /\ pc = "manifest" /\ file > F
  /\ pc' = "options"
  /\ UNCHANGED <<resource, label, file, opt, wpc, failed, errBuf, wg>>

\* getWaitOptions for the next wait: its checks pass and ToOptions succeeds.
OptionsOk ==
  /\ pc = "options" /\ opt \in Waits
  /\ WaitOptionsValid(opt)
  /\ opt' = opt + 1
  /\ UNCHANGED <<resource, label, pc, file, wpc, failed, errBuf, wg>>

\* getWaitOptions returns an error: a failed check, or ToOptions failing.
OptionsFail ==
  /\ pc = "options" /\ opt \in Waits
  /\ pc' = "err"
  /\ UNCHANGED <<resource, label, file, opt, wpc, failed, errBuf, wg>>

\* All options are built: WaitGroup.Add(W) and one concurrentlyWait each.
SpawnWaiters ==
  /\ pc = "options" /\ opt > W
  /\ wg' = W
  /\ wpc' = [w \in Waits |-> "waiting"]
  /\ pc' = "wait"
  /\ UNCHANGED <<resource, label, file, opt, failed, errBuf>>

\* Mutant: Done called a second time by a goroutine already done.
WaitMetDoubleDone(w) ==
  /\ wpc[w] \in {"waiting", "done"}
  /\ wpc' = [wpc EXCEPT ![w] = "done"]
  /\ wg' = wg - 1
  /\ UNCHANGED <<resource, label, pc, file, opt, failed, errBuf>>

\* options.RunWait() returns nil: the deferred Done runs.
WaitMet(w) ==
  /\ wpc[w] = "waiting"
  /\ wpc' = [wpc EXCEPT ![w] = "done"]
  /\ wg' = wg - 1
  /\ UNCHANGED <<resource, label, pc, file, opt, failed, errBuf>>

\* options.RunWait() returns an error (condition not met in time).
WaitFailed(w) ==
  /\ wpc[w] = "waiting"
  /\ wpc' = [wpc EXCEPT ![w] = "sending"]
  /\ failed' = failed \cup {w}
  /\ UNCHANGED <<resource, label, pc, file, opt, errBuf, wg>>

\* Mutant: the error is dropped and the goroutine just returns.
SendErrDropped(w) ==
  /\ wpc[w] = "sending"
  /\ wpc' = [wpc EXCEPT ![w] = "done"]
  /\ wg' = wg - 1
  /\ UNCHANGED <<resource, label, pc, file, opt, failed, errBuf>>

\* waitSet.ErrChan <- err (blocks while the channel is full), then return,
\* which runs the deferred Done.
SendErr(w) ==
  /\ wpc[w] = "sending"
  /\ errBuf < ErrCapacity
  /\ errBuf' = errBuf + 1
  /\ wpc' = [wpc EXCEPT ![w] = "done"]
  /\ wg' = wg - 1
  /\ UNCHANGED <<resource, label, pc, file, opt, failed>>

\* WaitGroup.Wait() returns; the step fails if ErrChan holds an error.
Join ==
  /\ pc = "wait" /\ wg = 0
  /\ pc' = IF errBuf > 0 THEN "err" ELSE "ok"
  /\ UNCHANGED <<resource, label, file, opt, wpc, failed, errBuf, wg>>

Step ==
  \/ ManifestFail \/ ManifestCreate \/ ManifestsDone
  \/ OptionsOk \/ OptionsFail \/ SpawnWaiters \/ Join

Waiter(w) == WaitMet(w) \/ WaitFailed(w) \/ SendErr(w)

Next == Step \/ \E w \in Waits : Waiter(w)

(***************************************************************************)
(* Fairness.  The step's goroutine and every waiter are weakly fair.  A    *)
(* waiter's RunWait always returns, because getWaitOptions sets its        *)
(* timeout to SingleDefaultWaitTimeout (kind.go:185).                      *)
(***************************************************************************)
Spec ==
  /\ Init /\ [][Next]_vars
  /\ WF_vars(Step)
  /\ \A w \in Waits : WF_vars(WaitMet(w) \/ WaitFailed(w)) /\ WF_vars(SendErr(w))

-----------------------------------------------------------------------------

TypeOK ==
  /\ resource \in [Waits -> ResourceForms]
  /\ label \in [Waits -> BOOLEAN]
  /\ pc \in {"manifest", "options", "wait", "ok", "err"}
  /\ file \in 1 .. F + 1
  /\ opt \in 1 .. W + 1
  /\ wpc \in [Waits -> {"idle", "waiting", "sending", "done"}]
  /\ failed \subseteq Waits
  /\ errBuf \in 0 .. ErrCapacity
  /\ wg \in 0 .. W

(* No lost error (concurrentlyWait and the WaitSet): once the step has     *)
(* joined its waiters, it reports success exactly when no RunWait failed.  *)
ErrorNotLost ==
  (Waits # {} /\ pc \in {"ok", "err"} /\ \A w \in Waits : wpc[w] # "idle")
    => (pc = "ok" <=> failed = {})

(* The step's wait ends (concurrentlyWait): every waiter eventually runs   *)
(* its deferred Done, so WaitGroup.Wait() returns, however many of the     *)
(* waits fail.                                                             *)
StepTerminates == <>(pc \in {"ok", "err"})

=============================================================================
