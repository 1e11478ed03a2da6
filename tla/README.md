# Formal models of skywalking-infra-e2e's setup components

This directory holds TLA+ models of the two environment-setup paths of
skywalking-infra-e2e:

- `internal/components/setup/compose.go` (docker-compose);
- `internal/components/setup/kind.go` (kind, with its port-forward tunnels).

It also holds the TLC configurations that model-check those models and the
TLAPS proofs about them. The inventory of the system comes first, then the
modules and the runs, what is proved, what is not modelled, and the plan.

## 1. Inventory

### Components

| Component | Source | State it owns | Operations |
|---|---|---|---|
| ComposeOrchestrator | compose.go `ComposeSetup` | progress through setup, the resolved ip | resolve the network, plan the ports, `compose up`, visit each service, run the steps |
| PortBindingPlanner | compose.go `bindWaitPort`, `getExpectPort` | the map `serviceWithPorts` | parse each `ports:` entry and choose the port to watch |
| NetworkResolver | compose.go `getDefaultNetwork`, `getGatewayIP` | none | find the gateway ip, or fail (the caller ignores the failure) |
| HealthProbe | compose.go, lines 125-165, `buildInternalCheckCommand`, `Exec` | none | the external dial loop and the internal exec loop |
| EnvironmentVariableBroker | `exportComposeEnv`, `exportKindEnv` | the process environment | `<svc>_host`, `<svc>_<port>`, `<res>_host`, `<res>_<port>` |
| ClusterProvisioner | kind.go `KindSetup`, `createKindCluster` | the kind and kube config paths | create the cluster, apply manifests, wait, expose |
| ConditionWaiter | kind.go `createByManifest`, `concurrentlyWait`, `getWaitOptions` | a WaitSet (outside src/): a WaitGroup and ErrChan | create the manifests, validate the waits, fan out the `kubectl wait` goroutines and collect the errors |
| PortForwardSupervisor | kind.go `exposeKindService`, `exposePerKindService`, `KindShouldWaitSignal`, `KindCleanNotify` | `portForwardContext`: stopChannel (capacity 1), resourceFinishedChannel (capacity N), resourceCount, cancelFunc | start one forwarder goroutine per export, wait for it to be ready or to fail, publish the env, tear the tunnels down |
| CI and action glue | action.yaml, build.yaml, go.mod | none | not part of the program's runtime |

### How the parts interact

The CLI's setup calls `ComposeSetup` or `KindSetup`. Cleanup later calls
`KindShouldWaitSignal` and `KindCleanNotify` on the global
`portForwardContext`.

The forwarders are goroutines that run concurrently with the main thread.
Each one:

- blocks in client-go's `ForwardPorts`, which returns when `stopChannel`
  delivers a value or the connection is lost;
- then sends once on `resourceFinishedChannel`.

### What makes it hard

Several things here go wrong in ways a unit test would hardly reach:

- goroutine interleavings;
- a single-value send on a channel that N goroutines share;
- a barrier counted against `resourceCount`;
- failure partway through a sequence of exposures;
- Go's random map order;
- probe loops without a deadline;
- a docker proxy that accepts a connection before the service listens;
- a container restarted while setup still holds its old port table;
- port tokens that resolve through one or two kubectl lookups, and env keys
  built by rewriting resource names.

## 2. Modules

### `KindPortForward` (kind.go lines 58-71, 139-152 and 303-449)

The constant `N` is the number of exports. It is `len(exports)`.

Variables and what they model:

| Variable | Models |
|---|---|
| `exposePc`, `idx` | the loop in `exposeKindService` and the `select` in `exposePerKindService` |
| `resourceCount`, `cancelled`, `bound` | the fields of the context, and whether it was stored in `portForwardContext` |
| `wpc[e]` | forwarder e: idle, forwarding, running (ready), exited (ForwardPorts returned), done (acknowledgement sent) |
| `ready`, `fwdErr`, `published` | readyChannel, forwardErrorChannel, and the exported env |
| `stopBuf`, `finished` | the occupancy of the two buffered channels |
| `cleanPc`, `received` | `KindCleanNotify` and its drain loop |

Actions:

- `ExposeInitFail` is the early returns of lines 396-420.
- `CreateContext` is lines 422-438.
- The per-export step is one of three actions:
  - `ResolveFail`: any error before the goroutine starts, on lines 311-349;
  - `Spawn`: line 352;
  - `SelectReady` or `SelectErr`: lines 360-391.
- `Bind` is line 447.
- The forwarder's actions are `WorkerReady`, `WorkerFail`, `WorkerStop`,
  `WorkerLost` (the connection drops) and `WorkerAck`.
- `KindCleanNotify` is `CleanNotify`, `DrainRecv` and `DrainExit`.

Fairness:

- weak fairness on the main thread's steps, and for each forwarder on its
  own steps. The Go scheduler eventually runs a runnable goroutine;
- none on `WorkerLost`, which is the environment.

### `ComposeSetup` and `MCComposeSetup` (compose.go lines 48-251 and 284-398)

The constant `Decl` gives each service its `ports:` entries. Each entry is a
sequence of 1 to 3 numeric parts; `Junk` stands for a non-numeric part, such as
an address. The other constants are:

- `HostMode`: the services with no port table;
- `NoShell`: the services whose exec returns 126;
- `Gateway` and `NoIP`: the two outcomes of the ip lookup.

Variables:

- `pc`, `todo`, `cur`, `pi` and `cp`: where the loops of `ComposeSetup` are;
- `hostEnv` and `portEnv`: the exported env;
- `snap`: the port table kept as `containerPorts` when the container was
  found. `MatchPort` and `Dial` use this copy, so it can go stale;
- `accepting`, `listening` and `epoch`: the environment. They say which host
  ports accept (the docker proxy), which container ports the service
  listens on, and how often each container has been started.

Actions:

- The main thread's actions, one per step or error path:
  - `ResolveNetwork`: lines 62-65; either outcome is allowed because the code
    ignores the errors;
  - `BindWaitPort`;
  - `ComposeUp`;
  - `FindContainerFail`;
  - `VisitService`: the service is chosen with `\E`, as in Go map order;
  - `MatchPort`;
  - `Dial`;
  - `ExecOk`: guarded by `InternalCheckPasses`;
  - `ExecFail`: exit code 126, for the services in `NoShell`;
  - `ExecError`: the exec API call itself fails (lines 144-147).
  - `NextService`;
  - `RunSteps`;
  - `StepsDone`.
- The environment's actions are `ProxyAccept`, `Listen` and `Restart`. They
  have no fairness, because nothing in the code makes a service come up.
  `Restart(s)` models a container crashing and being restarted while setup
  still probes; there are at most `MaxRestarts` of them per container. It
  clears what the container accepts and listens on, and gives its ephemeral
  ports new host ports.

Fairness: `Spec` is weakly fair on `Setup`, the main thread's steps, because
the goroutine is always runnable. `ExecError` is left out of `Setup` and has
no fairness: nothing obliges the daemon to fail an exec. An exec whose check
exits 1 is a stutter, so while a port does not listen the exec loop retries
forever, as the code does.

Where the model is coarser than the code:

- `Dial` dials the host port of the snapshot; the address's ip part
  (`ip` or `localhost`) is not modelled, so a dial to an unreachable ip is
  not a case.
- `InternalCheckPasses` reads `listening` directly. The `/proc/net/tcp`
  scan of `buildInternalCheckCommand` is taken to be exact.
- `MatchPort` may take any entry of the table with the wanted private port,
  not only the first. This adds behaviours and removes none.

`PublicOf` and `Ephemeral` stand for docker's choice of host ports. Neither is
code of this repository.

### `PortForwardLifecycle` (spec 4.8)

The abstract specification of what the supervisor promises. The shared
context goes `Idle -> Exposing -> Active -> Draining -> Stopped`, or to
`Failed` from `Idle` or `Exposing`. `started` is the set of tunnels opened
and `up` the tunnels still up. Tunnels are opened only while exposing, the
context becomes `Active` only once all `N` are open, any tunnel may go down
at any time, and `Stopped` needs `up = {}`.

`KindPortForward` implements it. Its refinement mapping is:

- `state <- LifecycleState`, read off `cleanPc`, `bound` and `exposePc`;
- `started <- Spawned`, the forwarders started;
- `up <- {e \in Spawned : wpc[e] # "done"}`, the forwarders that have not
  yet put their acknowledgement on `resourceFinishedChannel`.

The run `kind_safety` checks `LifecycleRefined == Lifecycle!Spec` as a
PROPERTY, and the theorem `Refinement` proves it for every N.

### `ConditionWaiter` (kind.go lines 175-238)

One setup step of the kind backend. The constants are `W`, the number of
waits, and `F`, the number of manifest files. The shape of each wait is
chosen in `Init`:

- `resource[w]` is "", "kind" or "kind/name";
- `label[w]` says whether it has a label selector.

The step is `pc`:

- `ManifestCreate`, `ManifestFail` and `ManifestsDone` are the loop of
  `createByManifest`;
- `OptionsOk` and `OptionsFail` are `getWaitOptions`, whose two checks are
  `WaitOptionsValid`;
- `SpawnWaiters` is `WaitGroup.Add` and one `go concurrentlyWait` per wait;
- `Join` is `WaitGroup.Wait()` followed by the look at `ErrChan`.

Each waiter `wpc[w]` goes from waiting to done through one of two paths:

- `WaitMet`: `RunWait` returns nil and the deferred `Done` runs;
- `WaitFailed` then `SendErr`: the send on `ErrChan` blocks while the
  channel is full, and `Done` runs only after it.

The WaitSet and the code that spawns and joins the waiters are not under
src/. `ErrCapacity`, `SpawnWaiters` and `Join` follow spec 4.7 (a channel
with one slot per wait). Fairness is weak on the step and on each waiter.
It is justified because `RunWait` always returns:
`waitFlags.Timeout = SingleDefaultWaitTimeout` (line 185).

### `KindPortResolve` and `MCKindPortResolve` (kind.go lines 241-386)

This module models the data side of exposures: how their port tokens become
tunnels and env keys. It complements `KindPortForward`, which abstracts that
part to "resolves or fails".

Tokens are sequences of one part (`"8080"`, `"http"`) or two parts
(`"5000:9090"`). A part is a number or a port name. The constants are:

- the Pod's named container ports (`PodPorts`);
- the Service's ports with their target ports (`SvcPorts`), where a target
  is a name, a number, or 0 (not set);
- `Fail`, `NoLocal` and `Host`, as model values;
- `Busy`, the local ports that other processes already listen on.

The kubectl lookups `ContainerPortByName`, `ServicePortByName` and
`ContainerPortByServicePort`, and client-go's port parsing `ParsePortsOk`,
are library code and follow its documented behaviour.

Definitions translated from the code:

- `BuildKindPort` is `buildKindPort`: the Pod and Service branches, the
  failed lookups, and the rewrite of `waitExpose` when the resolved port
  differs from the token.
- `Sanitize` is the two `strings.ReplaceAll` calls on the resource name.
- `EnvKey` is the key `<resource>_<port>`, as the pair of the sanitised name
  and the suffix.

The actions walk the exposures in order:

- `BuildPorts`: lines 329-338, stopping at the first error;
- `NewForwarder`: `portforward.New` and the forwarding goroutine (lines
  345-360). `LocalPort` is the local port of a port: the given one, or one
  the kernel picks from the ephemeral range. `Listening` is client-go's
  `forward()`: a port listens unless its local port is held (`Held`: in
  `Busy` or used by an open tunnel) or taken by an earlier port of the same
  forwarder. A port that cannot listen is only logged. If no port listens,
  `ForwardPorts` fails and the error is returned. Otherwise `GetPorts`
  still reports every requested port;
- `ExportEnv`: the `case <-readyChannel` branch. It writes `_host`, and for
  each forwarded port every token whose `realPort` matches. The last write
  of a key wins, so a port key overrides the host key.

`writers` records which resources wrote each key. `RefTarget` is the
reference: the container port that a token names according to spec 4.8.

## 3. Runs

| Run | Checks | Result |
|---|---|---|
| `kind_safety` (N = 3) | `TypeOK`, `DrainBarrier`, `ContextAccounting`, `AckNeverBlocks`, `ExposeTerminates`, `LifecycleRefined` | pass, 335 distinct states |
| `kind_orphan` (N = 2) | `NoOrphanTunnel` | violated: export 1 becomes ready, export 2 fails, and tunnel 1 keeps running with no context bound |
| `kind_drain2` (N = 2) | `CleanupTerminates` | violated: one stop value is sent for two live forwarders, so the drain blocks forever |
| `waiter_safety` (W = 3, F = 1) | `TypeOK`, `ErrorNotLost`, `StepTerminates` | pass, 3375 distinct states |
| `resolve_safety` | `TypeOK`, `ExportReachesTargetIfFree` | pass, 516 distinct states |
| `resolve_busy` | `ExportReachesTarget` | violated: the Pod token `6000:80` names a local port another process holds; no tunnel listens on 6000, yet `a_b_80=6000` is exported |
| `resolve_named` | `ResolvableExposed` | violated: the Pod token `http` resolves to 80, but `:http` is handed to `portforward.New`, which rejects it |
| `resolve_collide` | `EnvKeysDistinct` | violated: resources `a-b` and `a/b` both write `a_b_host` and `a_b_80` |
| `compose_safety` (no restarts) | `TypeOK`, `ReadyBeforeSteps`, `EnvMatchesBinding`, `ReadyThenReturns` | pass, 1491 distinct states |
| `compose_restart_fixed` (one restart each, fixed host ports; s3 has no `/bin/sh`) | `ReadyThenReturns` | pass, 13675 distinct states |
| `compose_restart` (one restart each, ephemeral ports) | `ReadyThenReturns` | violated: s1 is found (snapshot: port 1 on 101), restarted (now on 111), listens, and the dial loop calls 101 forever |
| `compose_unprobed` | `ReadyBeforeSteps` | violated: s1's `127.0.0.1:5:2` makes the code watch host port 5, s2 runs in host mode with no port table, and both ports are skipped silently |

### Bounds and why they are enough

**kind_safety.** N = 3 gives two forwarders that can be alive together while
a third is spawned, fails, or is still idle. That is the least N at which
"some acknowledgements arrived, some did not" and "an earlier export failed
after a later one started" both occur.

**Compose runs.** The compose instance has three services:

- s1 with an ephemeral entry and a `host:container` entry;
- s2 with one entry;
- s3 with an empty list.

This covers:

- both shapes of `getExpectPort`;
- the `len(portList) == 0` skip;
- every order of visiting the services;
- every order of the proxy and the listener.

**waiter_safety.** W = 3 waits with every combination of the three resource
shapes and the label flag give 216 configurations. These include steps
rejected by each check, and steps where one, two or three waits fail and
their sends race for `ErrChan`. F = 1 covers both a manifest that is created
and one that fails.

**Resolve runs.** The tokens cover every branch of `buildKindPort`:

- on a Pod: a number, a name, and an unknown port;
- on a Service: a number whose target is a name (8080 to http), a number
  (9090 to 9000), or unset (9000), and a Service port given by name (web);
- the `local:remote` form of both.

Two tokens that resolve to the same container port (80 and http) also
occur. The resource names `a-b`, `a/b` and `ab` exercise both replacements.
`Busy = {6000}` and the token `6000:80` give a local port held by another
process; `5000:9090` next to `5000:web` gives one asked for twice.

**Restart runs.** One restart per container is enough to move an ephemeral
port. The two services of `MCDeclSmall` let a restart hit the service being
probed and another one. `MCDeclFixed` has three, each with one fixed entry;
s3 has no `/bin/sh`, so the exit-126 abort happens in a passing run.

Deadlock checking is off in every run. A terminal state ("ok", "err", or
cleanup done) is the process returning.

### Mutants

Each property of a passing run is broken by a plausible bug in the mapped
code. The mutants are listed in PROJECT.json:

- an off-by-one in `resourceCount`;
- a drain that exits early;
- a bind that happens early;
- an acknowledgement channel one too small;
- a forwarder that fails without signalling;
- an exec loop that skips a port, drops the internal check, checks the
  host port instead of the container port, or exports the private port;
- a dial loop that calls the container port instead of the published one;
- a drain that receives without waiting (against the refinement);
- a failed wait that drops its error;
- an `ErrChan` one slot short;
- a double `Done`;
- a `buildKindPort` that never rewrites the token;
- a port loop that ignores an error of `buildKindPort`.

## 4. What is proved

Four modules hold theorems, each extending the module it is about and
`TLAPS`. `tlapm` checks every proof to the last leaf. Every inductive
invariant was first checked with TLC as an invariant of a run. Where a
theorem carries a hypothesis, a violated run or a TLC check shows that it
cannot be dropped.

### `KindPortForwardProofs`

All theorems are proved for every `N \in Nat`, from `NAssumption` alone:

- `TypeCorrect`: `Spec => []TypeOK`;
- `DrainBarrierHolds`: `Spec => []DrainBarrier`. `KindCleanNotify` never
  returns, for a bound context, while a started forwarder has not
  acknowledged;
- `AckNeverBlocksHolds`: `Spec => []AckNeverBlocks`. A forwarder that has
  returned always finds a free slot in `resourceFinishedChannel`;
- `ContextAccountingHolds`: `Spec => []ContextAccounting`. A bound context
  counts exactly the forwarders started, and each of them was exported;
- `Refinement`: `Spec => LifecycleRefined`. The supervisor implements
  `PortForwardLifecycle`.

None of the invariants is inductive as it stands. The strengthening `IInv`
adds these facts:

- **Count:** `received + finished` equals the number of forwarders in
  state "done". Each acknowledgement is either still buffered or already
  drained.
- **Prefix, Fresh and LoopFresh:** exactly the exports below `idx` have been
  started, so `Spawn` always starts an idle forwarder.
- **CountSet:** `resourceCount = N` once the context exists.
- **BoundOk, BoundIdx and OkBound:** the context is bound only after the
  loop finished (`idx = N + 1`), and exposure returns nil only with the
  context bound.
- **Published:** every export below `idx` has had its env exported.
- **DrainBound and DoneBound:** cleanup leaves the drain only after receiving
  `resourceCount` acknowledgements.

The arguments:

- **DrainBarrier.** "done" together with `bound` gives
  `Cardinality(Acked) >= N`. Since `Acked \subseteq 1..N`, this forces
  `Acked = 1..N` (lemma `AllAcked`).
- **AckNeverBlocks.** An exited forwarder is not yet in `Acked`, so
  `finished <= Cardinality(Acked) < N` (lemma `AckedBelow`).
- **ContextAccounting.** `BoundIdx` and `Prefix` give `Spawned = 1..N`.
- **Refinement.** `RefineInit` maps the initial state to `Idle`. For each
  action, `RefineStep` shows that `IInv /\ [Next]_vars` implies
  `[Lifecycle!Next]_(Lifecycle!vars)`:
  - `Spawn` is `Open`;
  - `Bind` is `Activate`;
  - `WorkerAck` is `Finish`;
  - `CleanNotify` is `Stop`, or a stutter when the context is unbound;
  - `DrainExit` is `Stopped`;
  - the failing steps are `Abort`;
  - the rest stutter.

The finite-set lemmas used are `FS_Interval`, `FS_Subset`,
`FS_AddElement`, `FS_RemoveElement` and `FS_EmptySet`. `IInv` was first
checked with TLC as an invariant for N = 0..3.

### `ConditionWaiterProofs`

All theorems are proved for every `W \in Nat`, from `WaiterAssumption`:

- `TypeCorrect`: `Spec => []TypeOK`;
- `ErrorNotLostHolds`: when the waits are joined, the `WaitGroup` is at zero
  and the setup fails exactly when some waiter sent an error.

The strengthening `IInv` has one named conjunct per fact:

- **Together:** the goroutines are started together.
- **Early and Late:** none runs before the options are validated, and all
  run only after every one was validated (`Valid`).
- **FailedSet:** a failed waiter is either sending or has sent.
- **WgBusy:** the `WaitGroup` counter equals the number of waiters still
  waiting or sending.
- **ErrSent:** the channel holds one error per waiter that sent.
- **Joined:** after `wg.Wait()` no waiter is busy, and the result is "ok"
  exactly when the channel is empty.

The counter and the channel are cardinalities of subsets of `1..W`. The
steps use the lemmas `WaitSubset` and `WaitEmpty` with `FS_Subset`,
`FS_AddElement`, `FS_RemoveElement` and `FS_EmptySet`.

### `ComposeSetupProofs`

Proved from `DeclAssumption`, which declares each entry a sequence of
numbers and `Junk`, under these hypotheses:

- `EnvMatchesBindingHolds`: under `NoRestarts` (`MaxRestarts = 0`).
- `ReadyBeforeStepsHolds`: under `NoRestarts` and `ShortEntries`. Every entry
  is `c` or `h:c`, and no service runs in host mode. These hypotheses are
  exactly what the violated runs break:
  - `compose_unprobed` breaks them with `ip:h:c` entries and a host-mode
    service;
  - `compose_restart` breaks them with restarts.
- `TypeCorrect`: `Spec => []TypeOK`, when at least one service has a ports
  key and the port tables hold numbers (`TableNumeric`). `cur` starts as a
  `CHOOSE` over the services. The model reads the container's port table
  from the declaration, where docker reports numbers.

The invariant `BindInv` proves `EnvMatchesBinding`:

- **EpochZero:** no container was restarted.
- **SnapCur:** while `cur`'s ports are probed, the kept table is
  `ContainerPorts(cur)`.
- **CpInSnap:** the matched entry is in it.

The export in `ExecOk` writes `cp.public` for `cp.private`, which is a
published entry of the current table. Lemma `PortsStable` shows that the
table does not change without a restart.

`ReadyInv` adds what `ReadyBeforeSteps` needs:

- **LeftReady:** every service taken out of `todo` has all its declared
  ports listening.
- **CurReady:** the planned ports before `pi` listen.
- **CpPlanned:** the matched entry is planned port `pi`.
- **StepsAfterAll:** the steps start only with `todo` empty.

Under `ShortEntries`, the planned port of entry `i` is its container part
(lemma `ExpectPortLast`), and the table has an entry for it
(`PlannedInTable`). So `MatchPort` never skips a port, and `NextService`
leaves a service only after `ExecOk` saw every one of its declared ports
listening (`DeclaredPlanned`).

### `KindPortResolveProofs`

Proved for any number of exposures and tokens, from `ResolveAssumption`.
Tokens are sequences of numbers and port names, container ports are
numbers, and target ports are numbers or names, as in the Kubernetes types.

- `TypeCorrect`: `Spec => []TypeOK`.
- `ExportReachesTargetHolds`: `Spec => []ExportReachesTargetIfFree`, that
  is `KeysApart /\ LocalsFree => ExportReachesTarget`, where
  `ExportReachesTarget` asks for the local end of a *listening* tunnel.
  Both hypotheses are needed:
  - `KeysApart` says no two exposures have the same sanitised resource
    name. Without it a key of the first exposure is overwritten by the
    second, the collision `resolve_collide` shows.
  - `LocalsFree` says every explicit local port is outside `Busy`, below
    the ephemeral range, and used by one token only. Without it the
    forwarder does not listen on the port, which `resolve_busy` shows.

The lemma `BuildOk` says what `buildKindPort` returns when it succeeds:
- its input port is the token's remote part;
- its real port is `RefTarget`;
- a numeric remote part of `waitExpose` is the real port, in both the Pod
  and the Service branches.

`portforward.New` accepted the ports (`ParsePortsOk`). So each forward's
remote port is its token's real port, and every token has a matching
forward. The key is written with the local end of the last matching
forward. Lemma `MaxExists` shows that this last forward exists. It is proved
from `WFMin` and `NatLessThanWellFounded`, on the set `{n - p : p \in S}`.
Every forward matching the key was built from a token with the same remote
part. `RefTarget` depends on nothing else (`RefTargetRemote`), so the tunnel
reaches the right port. The keys of earlier exposures have another prefix,
so `ExportEnv` leaves them alone. The inductive invariant `IInv` adds:

- **KInLoop:** `k` names an exposure while the loop runs.
- **ConvBuilt:** `conv` holds `buildKindPort`'s results for exposure `k`.
- **FwdBuilt:** `fwd` is what `GetPorts` reports; under `LocalsFree`
  every one of its ports listens, so its tunnels are recorded.
- **TunnelsOwned:** every open tunnel's local port is that of a token of an
  exposure already forwarded. With `LocalsFree` this keeps the next
  forwarder's ports out of `Held` (lemmas `LocalApart`, `FwdLocal` and
  `AllListen`).

TLC checked `IInv` on two exposures of up to two tokens each, with `Busy = {6000}` (1044900
states).

### What stays model-checked

These stay with TLC because TLAPS has no backend for them:

- the liveness properties `ExposeTerminates`, `CleanupTerminates`,
  `StepTerminates` and `ReadyThenReturns`. They rest on fairness and
  `ENABLED`.

These properties hold only in some configurations, and the proofs state the
configurations in which they hold:

- `ReadyBeforeSteps` and `EnvMatchesBinding`, outside their hypotheses;
- the violated properties `NoOrphanTunnel`, `CleanupTerminates` with one
  stop value, `ResolvableExposed`, `EnvKeysDistinct`, and
  `ReadyThenReturns` with restarts.

## 5. Not modelled

- `KindSetup` and `createKindCluster`: a straight-line sequence of CLI and
  library calls with an early return on each error. It holds no state that
  the modelled components do not already start from.
- A deadline on the compose probe loops. They use `context.Background()`
  and retry forever. Spec 4.3 leaves the deadline to the caller, which
  cancels the setup, so `ReadyThenReturns` asks only that the loops end once
  their checks can succeed.
- `MappedPort` and `Ports`: their results are only logged. This is why a
  restart makes the compose port table stale.
- The exported `<service>_host`. `getDefaultNetwork` and `getGatewayIP`
  errors are overwritten before they are checked (compose.go 62-65), so
  setup goes on with an empty address. The model keeps that path (`NoIP`),
  but no property is stated about it: the spec's wording on the host is not
  a claim the code makes.
- Log output and string formatting. Compose env keys are the pairs
  (service, port); kind env keys are pairs of the sanitised resource name
  and the token.
- `os.Setenv` and the process environment beyond the keys written.
- action.yaml, build.yaml and go.mod.

## 6. Plan for later sittings

1. Action properties worth stating as `[][A]_vars` and proving from the
   invariants above, e.g. that an exported compose binding only changes
   for a port declared twice.
2. A composition of `ConditionWaiter` and `KindPortForward` under
   `KindSetup`: steps, then exposure, then the CLI's cleanup.
3. Larger instances: N = 4 exposures, and W = 4 waits with two manifests.
