------------------------- MODULE ComposeSetupProofs -------------------------
(***************************************************************************)
(* Proofs about ComposeSetup, for every stack Decl.  The runs show that    *)
(* readiness fails for "ip:host:container" entries, for host-network       *)
(* services and when a container restarts, and that the exported ports go  *)
(* stale after a restart; the theorems prove that outside these cases the  *)
(* two properties hold for every stack.                                    *)
(***************************************************************************)
EXTENDS ComposeSetup, TLAPS

\* No container is restarted while setup probes.
NoRestarts == MaxRestarts = 0

\* Every port entry is "container" or "host:container", and no service runs
\* with network_mode: host.
ShortEntries ==
  /\ HostMode = {}
  /\ \A s \in Services : \A i \in 1 .. Len(Decl[s]) : Len(Decl[s][i]) \in {1, 2}

(***************************************************************************)
(* BindInv: what makes every exported port the published one.  The port   *)
(* table kept for cur is the container's, which never changes without     *)
(* restarts, and the entry being probed comes from it.                    *)
(***************************************************************************)
EpochZero == epoch = [s \in Services |-> 0]
EnvDom == DOMAIN portEnv = Services \X Ports
SnapCur == pc \in {"ports", "dial", "exec"} => cur \in Services /\ snap = ContainerPorts(cur)
CpInSnap == pc \in {"dial", "exec"} => cp \in snap

BindInv == EpochZero /\ EnvDom /\ SnapCur /\ CpInSnap /\ EnvMatchesBinding

(***************************************************************************)
(* ReadyInv: what makes the steps wait for every port.  Every service the  *)
(* loop has left listens on all its ports, the planned ports of cur before *)
(* pi listen, and the entry being probed is the planned port pi.          *)
(***************************************************************************)
TodoOk == todo \subseteq Services /\ DOMAIN listening = Services
CurTodo == pc \in {"ports", "dial", "exec"} => cur \in todo /\ pi \in 1 .. Len(Decl[cur]) + 1
CpPlanned == pc \in {"dial", "exec"} => pi \in 1 .. Len(Decl[cur]) /\ cp.private = ExpectPort(cur, pi)
LeftReady ==
  pc \in {"services", "ports", "dial", "exec", "steps", "ok"} =>
    \A s \in Services \ todo : DeclaredPorts(s) \subseteq listening[s]
CurReady == pc \in {"ports", "dial", "exec"} => \A i \in 1 .. pi - 1 : ExpectPort(cur, i) \in listening[cur]
StepsAfterAll == pc \in {"steps", "ok"} => todo = {}

ReadyInv == BindInv /\ TodoOk /\ CurTodo /\ CpPlanned /\ LeftReady /\ CurReady /\ StepsAfterAll

-----------------------------------------------------------------------------
(* Without restarts, no container's port table ever changes.               *)

LEMMA NoRestartStep ==
  ASSUME NoRestarts, EpochZero, [Next]_vars
  PROVE  epoch' = epoch
<1>1. ASSUME NEW s \in Services, Restart(s) PROVE FALSE
  BY <1>1 DEF Restart, NoRestarts, EpochZero
<1>2. QED
  BY <1>1 DEF Next, Setup, Environment, vars, ResolveNetwork, BindWaitPort, ComposeUp,
              FindContainerFail, VisitService, MatchPort, NextService, Dial, ExecOk,
              ExecFail, ExecError, RunSteps, StepsDone, ProxyAccept, Listen

LEMMA PortsStable ==
  ASSUME epoch' = epoch
  PROVE  \A s : ContainerPorts(s)' = ContainerPorts(s)
BY DEF ContainerPorts

-----------------------------------------------------------------------------
(* BindInv is inductive.                                                   *)

LEMMA BindInit == Init => BindInv
<1> SUFFICES ASSUME Init PROVE BindInv
  OBVIOUS
<1>1. EpochZero /\ EnvDom
  BY DEF Init, EpochZero, EnvDom
<1>2. SnapCur /\ CpInSnap
  BY DEF Init, SnapCur, CpInSnap
<1>3. \A s \in Services, p \in Ports : portEnv[<<s, p>>] = 0
  BY DEF Init
<1>4. EnvMatchesBinding
  BY <1>3 DEF EnvMatchesBinding
<1>5. QED
  BY <1>1, <1>2, <1>4 DEF BindInv

LEMMA BindStep ==
  ASSUME NoRestarts
  PROVE  BindInv /\ [Next]_vars => BindInv'
<1> SUFFICES ASSUME BindInv, [Next]_vars PROVE BindInv'
  OBVIOUS
<1>0. epoch' = epoch /\ \A s : ContainerPorts(s)' = ContainerPorts(s)
  BY NoRestartStep, PortsStable DEF BindInv
<1>e. EpochZero'
  BY <1>0 DEF BindInv, EpochZero
\* Steps that leave the exported ports alone and end outside the port loop.
<1>1. CASE \/ ResolveNetwork \/ BindWaitPort \/ ComposeUp \/ NextService
           \/ ExecFail \/ ExecError \/ RunSteps \/ StepsDone
           \/ \E s \in Services : FindContainerFail(s)
  <2>1. UNCHANGED portEnv /\ pc' \notin {"ports", "dial", "exec"}
    BY <1>1 DEF ResolveNetwork, BindWaitPort, ComposeUp, NextService, ExecFail, ExecError,
                RunSteps, StepsDone, FindContainerFail
  <2>2. QED
    BY <1>0, <1>e, <2>1 DEF BindInv, EnvDom, SnapCur, CpInSnap, EnvMatchesBinding
\* The environment changes neither the loop nor the exported ports.
<1>2. CASE \E s \in Services, p \in Ports : ProxyAccept(s, p) \/ Listen(s, p)
  <2>1. UNCHANGED ctl
    BY <1>2 DEF ProxyAccept, Listen
  <2>2. QED
    BY <1>0, <1>e, <2>1 DEF ctl, BindInv, EnvDom, SnapCur, CpInSnap, EnvMatchesBinding
<1>3. ASSUME NEW s \in Services, Restart(s) PROVE BindInv'
  BY <1>3 DEF Restart, NoRestarts, BindInv, EpochZero
<1>4. ASSUME NEW s \in Services, VisitService(s) PROVE BindInv'
  <2>1. UNCHANGED <<portEnv, cp>> /\ pc = "services"
    BY <1>4 DEF VisitService
  <2>2. pc' \in {"ports", "dial", "exec"} => cur' = s /\ snap' = ContainerPorts(s)
    BY <1>4 DEF VisitService
  <2>3. pc' \notin {"dial", "exec"}
    BY <1>4 DEF VisitService
  <2>4. QED
    BY <1>0, <1>e, <2>1, <2>2, <2>3 DEF BindInv, EnvDom, SnapCur, CpInSnap, EnvMatchesBinding
<1>5. CASE MatchPort
  <2>1. UNCHANGED <<portEnv, cur, snap>> /\ pc = "ports" /\ pc' \in {"ports", "dial"}
    BY <1>5 DEF MatchPort
  <2>2. pc' = "dial" => cp' \in snap
    BY <1>5 DEF MatchPort
  <2>3. QED
    BY <1>0, <1>e, <2>1, <2>2 DEF BindInv, EnvDom, SnapCur, CpInSnap, EnvMatchesBinding
<1>6. CASE Dial
  <2>1. UNCHANGED <<portEnv, cur, snap, cp>> /\ pc = "dial" /\ pc' = "exec"
    BY <1>6 DEF Dial
  <2>2. QED
    BY <1>0, <1>e, <2>1 DEF BindInv, EnvDom, SnapCur, CpInSnap, EnvMatchesBinding
\* The one step that exports a port: it exports the public port of an entry
\* of cur's port table.
<1>7. CASE ExecOk
  <2>1. UNCHANGED <<cur, snap, cp>> /\ pc = "exec" /\ pc' = "ports"
        /\ portEnv' = [portEnv EXCEPT ![<<cur, cp.private>>] = cp.public]
    BY <1>7 DEF ExecOk
  <2>2. cur \in Services /\ cp \in ContainerPorts(cur)
    BY <2>1 DEF BindInv, SnapCur, CpInSnap
  <2>3. EnvDom'
    BY <2>1 DEF BindInv, EnvDom
  <2>4. EnvMatchesBinding'
    <3> SUFFICES ASSUME NEW t \in Services, NEW p \in Ports, portEnv'[<<t, p>>] # 0
                 PROVE  \E c \in ContainerPorts(t)' :
                          c.private = p /\ c.public = portEnv'[<<t, p>>]
      BY Zenon DEF EnvMatchesBinding
    <3>1. CASE <<t, p>> = <<cur, cp.private>>
      BY <3>1, <2>1, <2>2, <1>0 DEF BindInv, EnvDom
    <3>2. CASE <<t, p>> # <<cur, cp.private>>
      <4>1. portEnv'[<<t, p>>] = portEnv[<<t, p>>]
        BY <3>2, <2>1 DEF BindInv, EnvDom
      <4>2. QED
        BY <4>1, <1>0 DEF BindInv, EnvMatchesBinding
    <3>3. QED
      BY <3>1, <3>2
  <2>5. SnapCur' /\ CpInSnap'
    BY <1>0, <2>1, <2>2 DEF BindInv, SnapCur, CpInSnap
  <2>6. QED
    BY <1>e, <2>3, <2>4, <2>5 DEF BindInv
<1>8. CASE UNCHANGED vars
  BY <1>8, <1>0, <1>e DEF vars, BindInv, EnvDom, SnapCur, CpInSnap, EnvMatchesBinding
<1>9. QED
  BY <1>1, <1>2, <1>3, <1>4, <1>5, <1>6, <1>7, <1>8 DEF Next, Setup, Environment

(* Exported bindings are the published ones (spec 4.4, 8): for every stack, *)
(* as long as no container is restarted during setup, every exported       *)
(* <service>_<port> holds the host port docker published that container    *)
(* port on: ExecOk exports the PublicPort of the entry of the port table   *)
(* that MatchPort took for that container port.                           *)
THEOREM EnvMatchesBindingHolds ==
  ASSUME NoRestarts
  PROVE  Spec => []EnvMatchesBinding
<1>1. Spec => []BindInv
  BY BindInit, BindStep, PTL DEF Spec
<1>2. QED
  BY <1>1, PTL DEF BindInv

-----------------------------------------------------------------------------
(* Lemmas about short port entries.                                        *)

\* For "c" and "h:c", getExpectPort watches the container port c.
LEMMA ExpectPortLast ==
  ASSUME ShortEntries, NEW s \in Services, NEW i \in 1 .. Len(Decl[s])
  PROVE  ExpectPort(s, i) = Decl[s][i][Len(Decl[s][i])]
BY DEF ShortEntries, ExpectPort, ExpectPortPart

\* A service's declared ports are exactly the ports the planner watches.
LEMMA DeclaredPlanned ==
  ASSUME ShortEntries, NEW s \in Services
  PROVE  DeclaredPorts(s) = {ExpectPort(s, i) : i \in 1 .. Len(Decl[s])}
BY ExpectPortLast DEF DeclaredPorts

\* The port table of a container outside host mode has an entry for every
\* planned port.
LEMMA PlannedInTable ==
  ASSUME ShortEntries, NEW s \in Services, NEW i \in 1 .. Len(Decl[s])
  PROVE  \E c \in ContainerPorts(s) : c.private = ExpectPort(s, i)
<1>1. s \notin HostMode
  BY DEF ShortEntries
<1>2. [private |-> Decl[s][i][Len(Decl[s][i])], public |-> PublicOf(Decl[s][i], epoch[s])]
        \in ContainerPorts(s)
  BY <1>1, Zenon DEF ContainerPorts, ContainerPortsAt
<1>3. QED
  BY <1>2, ExpectPortLast

-----------------------------------------------------------------------------
(* ReadyInv is inductive.                                                  *)

LEMMA ReadyInit == Init => ReadyInv
BY BindInit DEF Init, ReadyInv, TodoOk, CurTodo, CpPlanned, LeftReady, CurReady, StepsAfterAll

LEMMA ReadyStep ==
  ASSUME NoRestarts, ShortEntries
  PROVE  ReadyInv /\ [Next]_vars => ReadyInv'
<1> SUFFICES ASSUME ReadyInv, [Next]_vars PROVE ReadyInv'
  OBVIOUS
<1> DEFINE Rest == TodoOk /\ CurTodo /\ CpPlanned /\ LeftReady /\ CurReady /\ StepsAfterAll
<1>0. BindInv'
  BY BindStep DEF ReadyInv
<1>a. DeclAssumption
  BY DeclAssumption, Zenon
<1>b. \A t \in Services : Len(Decl[t]) \in Nat
  BY <1>a
<1> SUFFICES Rest'
  BY <1>0 DEF ReadyInv
<1> USE DEF ReadyInv, Rest
\* Steps before the loop, and the error exits.
<1>1. CASE \/ ResolveNetwork \/ BindWaitPort \/ ExecFail \/ ExecError
           \/ \E t \in Services : FindContainerFail(t)
  <2>1. UNCHANGED <<todo, listening>> /\ pc' \in {"bind", "up", "err"}
    BY <1>1 DEF ResolveNetwork, BindWaitPort, ExecFail, ExecError, FindContainerFail
  <2>2. QED
    BY <2>1 DEF TodoOk, CurTodo, CpPlanned, LeftReady, CurReady, StepsAfterAll
<1>2. CASE ComposeUp
  <2>1. UNCHANGED listening
        /\ \/ pc' = "err" /\ todo' = todo
           \/ pc' = "services" /\ todo' = Services
    BY <1>2 DEF ComposeUp
  <2>2. CASE pc' = "err" /\ todo' = todo
    BY <2>1, <2>2 DEF TodoOk, CurTodo, CpPlanned, LeftReady, CurReady, StepsAfterAll
  <2>3. CASE pc' = "services" /\ todo' = Services
    <3>1. Services \ todo' = {}
      BY <2>3
    <3>2. QED
      BY <2>1, <2>3, <3>1 DEF TodoOk, CurTodo, CpPlanned, LeftReady, CurReady, StepsAfterAll
  <2>4. QED
    BY <2>1, <2>2, <2>3
<1>3. ASSUME NEW t \in Services, VisitService(t) PROVE Rest'
  <2>1. pc = "services" /\ t \in todo /\ UNCHANGED listening
    BY <1>3 DEF VisitService
  <2>2. CASE Len(Decl[t]) = 0
    <3>1. todo' = todo \ {t} /\ pc' = "services"
      BY <1>3, <2>2 DEF VisitService
    <3>2. DeclaredPorts(t) = {}
      BY <2>2 DEF DeclaredPorts
    <3>3. QED
      BY <2>1, <3>1, <3>2 DEF TodoOk, CurTodo, CpPlanned, LeftReady, CurReady, StepsAfterAll
  <2>3. CASE Len(Decl[t]) # 0
    <3>1. todo' = todo /\ pc' = "ports" /\ cur' = t /\ pi' = 1
      BY <1>3, <2>3 DEF VisitService
    <3>2. 1 \in 1 .. Len(Decl[t]) + 1
      BY <1>b
    <3>3. QED
      BY <2>1, <3>1, <3>2 DEF TodoOk, CurTodo, CpPlanned, LeftReady, CurReady, StepsAfterAll
  <2>4. QED
    BY <2>2, <2>3
\* Every planned port of cur is found in its port table, so none is skipped.
<1>4. CASE MatchPort
  <2>1. pc = "ports" /\ pi \in 1 .. Len(Decl[cur])
        /\ UNCHANGED <<todo, cur, listening>>
    BY <1>4 DEF MatchPort
  <2>2. cur \in Services /\ snap = ContainerPorts(cur)
    BY <2>1 DEF BindInv, SnapCur
  <2>3. {c \in snap : c.private = ExpectPort(cur, pi)} # {}
    BY <2>1, <2>2, PlannedInTable
  <2>4. pc' = "dial" /\ pi' = pi /\ cp'.private = ExpectPort(cur, pi)
    BY <1>4, <2>3 DEF MatchPort
  <2>5. QED
    BY <2>1, <2>4 DEF TodoOk, CurTodo, CpPlanned, LeftReady, CurReady, StepsAfterAll
\* Leaving cur: all of its planned ports, hence all its ports, listen.
<1>5. CASE NextService
  <2>1. pc = "ports" /\ pi > Len(Decl[cur]) /\ pc' = "services"
        /\ todo' = todo \ {cur} /\ UNCHANGED listening
    BY <1>5 DEF NextService
  <2>2. cur \in Services /\ pi \in Nat
    BY <2>1 DEF CurTodo, TodoOk
  <2>3. \A i \in 1 .. Len(Decl[cur]) : ExpectPort(cur, i) \in listening[cur]
    BY <2>1, <2>2, <1>b DEF CurReady
  <2>4. DeclaredPorts(cur) \subseteq listening[cur]
    BY <2>2, <2>3, DeclaredPlanned
  <2>5. QED
    BY <2>1, <2>4 DEF TodoOk, CurTodo, CpPlanned, LeftReady, CurReady, StepsAfterAll
<1>6. CASE Dial
  <2>1. pc = "dial" /\ pc' = "exec" /\ UNCHANGED <<todo, cur, pi, cp, listening>>
    BY <1>6 DEF Dial
  <2>2. QED
    BY <2>1 DEF TodoOk, CurTodo, CpPlanned, LeftReady, CurReady, StepsAfterAll
\* The internal check passed: planned port pi listens.
<1>7. CASE ExecOk
  <2>1. /\ pc = "exec" /\ pc' = "ports" /\ pi' = pi + 1
        /\ cp.private \in listening[cur]
        /\ UNCHANGED <<todo, cur, listening>>
    BY <1>7 DEF ExecOk, InternalCheckPasses
  <2>2. pi \in 1 .. Len(Decl[cur]) /\ cp.private = ExpectPort(cur, pi) /\ cur \in todo
    BY <2>1 DEF CpPlanned, CurTodo
  <2>3. cur \in Services
    BY <2>2 DEF TodoOk
  <2>4. \A i \in 1 .. pi : ExpectPort(cur, i) \in listening[cur]
    BY <2>1, <2>2, <2>3, <1>b DEF CurReady
  <2>5. pi + 1 \in 1 .. Len(Decl[cur]) + 1
    BY <2>2, <2>3, <1>b
  <2>6. QED
    BY <2>1, <2>2, <2>4, <2>5 DEF TodoOk, CurTodo, CpPlanned, LeftReady, CurReady, StepsAfterAll
<1>8. CASE RunSteps \/ StepsDone
  <2>1. pc \in {"services", "steps"} /\ pc' \in {"steps", "ok", "err"}
        /\ UNCHANGED <<todo, listening>>
        /\ (pc' \in {"steps", "ok"} => todo = {})
    BY <1>8 DEF RunSteps, StepsDone, StepsAfterAll
  <2>2. QED
    BY <2>1 DEF TodoOk, CurTodo, CpPlanned, LeftReady, CurReady, StepsAfterAll
\* The environment only adds listening ports.
<1>9. CASE \E t \in Services, p \in Ports : ProxyAccept(t, p) \/ Listen(t, p)
  <2>1. UNCHANGED ctl
    BY <1>9 DEF ProxyAccept, Listen
  <2>2. DOMAIN listening' = Services /\ \A t \in Services : listening[t] \subseteq listening'[t]
    BY <1>9 DEF ProxyAccept, Listen, TodoOk
  <2>3. QED
    BY <2>1, <2>2 DEF ctl, TodoOk, CurTodo, CpPlanned, LeftReady, CurReady, StepsAfterAll
<1>10. ASSUME NEW t \in Services, Restart(t) PROVE Rest'
  BY <1>10 DEF Restart, NoRestarts, BindInv, EpochZero
<1>11. CASE UNCHANGED vars
  BY <1>11 DEF vars, TodoOk, CurTodo, CpPlanned, LeftReady, CurReady, StepsAfterAll
<1>12. QED
  BY <1>1, <1>2, <1>3, <1>4, <1>5, <1>6, <1>7, <1>8, <1>9, <1>10, <1>11
     DEF Next, Setup, Environment

(* Ready before steps (spec 4.5, 4.2): for every stack whose port entries *)
(* are "container" or "host:container" and that runs no service in host    *)
(* mode, and as long as no container is restarted during setup, the steps  *)
(* only run once every port every service declares listens inside its     *)
(* container: the port loop visits every planned port, MatchPort always   *)
(* finds it in the port table, and ExecOk is the only way past it.         *)
THEOREM ReadyBeforeStepsHolds ==
  ASSUME NoRestarts, ShortEntries
  PROVE  Spec => []ReadyBeforeSteps
<1>1. Spec => []ReadyInv
  BY ReadyInit, ReadyStep, PTL DEF Spec
<1>2. ReadyInv => ReadyBeforeSteps
  BY DEF ReadyInv, StepsAfterAll, LeftReady, ReadyBeforeSteps
<1>3. QED
  BY <1>1, <1>2, PTL

-----------------------------------------------------------------------------
(* Type correctness.                                                       *)

\* The port table docker reports holds numbers: the container part of every
\* entry, and the host part of an entry that gives one, are numbers.
TableNumeric ==
  \A s \in Services : \A i \in 1 .. Len(Decl[s]) :
    /\ Decl[s][i][Len(Decl[s][i])] \in Nat
    /\ Len(Decl[s][i]) > 1 => Decl[s][i][Len(Decl[s][i]) - 1] \in Nat

\* The ports loop only dials and execs a planned port.
PiPlanned == pc \in {"dial", "exec"} => pi \in 1 .. Len(Decl[cur])

TypeInv == TypeOK /\ PiPlanned

\* Every port table, at every start of the container, is a set of entries.
LEMMA TableEntry ==
  ASSUME TableNumeric, NEW s \in Services, NEW g \in Nat
  PROVE  ContainerPortsAt(s, g) \subseteq Entry
<1>1. Decl[s] \in Seq(Seq(Nat \cup {Junk}))
  BY DeclAssumption
<1>2. ASSUME NEW i \in 1 .. Len(Decl[s])
      PROVE  /\ Decl[s][i][Len(Decl[s][i])] \in Nat
             /\ PublicOf(Decl[s][i], g) \in Nat
  <2>1. Len(Decl[s][i]) \in 1 .. 3
    BY DeclAssumption, Zenon
  <2>2. Decl[s][i][Len(Decl[s][i])] \in Nat
        /\ (Len(Decl[s][i]) > 1 => Decl[s][i][Len(Decl[s][i]) - 1] \in Nat)
    BY Zenon DEF TableNumeric
  <2>3. CASE Len(Decl[s][i]) = 1
    <3>1. PublicOf(Decl[s][i], g) = 100 + 10 * g + Decl[s][i][1]
      BY <2>3 DEF PublicOf, Ephemeral
    <3>2. QED
      BY <2>2, <2>3, <3>1
  <2>4. CASE Len(Decl[s][i]) > 1
    BY <2>2, <2>4 DEF PublicOf
  <2>5. Len(Decl[s][i]) = 1 \/ Len(Decl[s][i]) > 1
    BY <2>1
  <2>6. QED
    BY <2>3, <2>4, <2>5
<1>3. QED
  BY <1>2 DEF ContainerPortsAt, Entry

LEMMA TypeInit ==
  ASSUME Services # {}
  PROVE  Init => TypeInv
<1> SUFFICES ASSUME Init PROVE TypeInv
  OBVIOUS
<1>1. cur \in Services
  BY DEF Init
<1>2. Len(Decl[cur]) \in Nat
  BY <1>1, DeclAssumption
<1>3. QED
  BY <1>1, <1>2, DeclAssumption DEF Init, TypeInv, TypeOK, PiPlanned, Entry

LEMMA TypeStep ==
  ASSUME TableNumeric
  PROVE  TypeInv /\ [Next]_vars => TypeInv'
<1> SUFFICES ASSUME TypeInv, [Next]_vars PROVE TypeInv'
  OBVIOUS
<1> USE DEF TypeInv
<1>a. \A t \in Services : Len(Decl[t]) \in Nat
  BY DeclAssumption
<1>b. \A t \in Services : ContainerPorts(t) \subseteq Entry
  BY TableEntry DEF TypeOK, ContainerPorts
<1>1. CASE ResolveNetwork \/ BindWaitPort \/ ComposeUp \/ RunSteps \/ StepsDone
           \/ ExecFail \/ ExecError \/ \E t \in Services : FindContainerFail(t)
  <2>1. UNCHANGED <<cur, pi, cp, hostEnv, portEnv, snap, accepting, listening, epoch>>
        /\ pc' \in {"bind", "up", "err", "services", "steps", "ok"}
        /\ ip' \in {Gateway, NoIP} /\ todo' \subseteq Services
    BY <1>1 DEF ResolveNetwork, BindWaitPort, ComposeUp, RunSteps, StepsDone,
                ExecFail, ExecError, FindContainerFail, TypeOK
  <2>2. QED
    BY <2>1 DEF TypeOK, PiPlanned
<1>2. ASSUME NEW t \in Services, VisitService(t) PROVE TypeInv'
  <2>1. pc = "services" /\ t \in todo
        /\ UNCHANGED <<ip, cp, portEnv, accepting, listening, epoch>>
    BY <1>2 DEF VisitService
  <2>2. CASE Len(Decl[t]) = 0
    <3>1. todo' = todo \ {t} /\ UNCHANGED <<pc, cur, pi, hostEnv, snap>>
      BY <1>2, <2>2 DEF VisitService
    <3>2. QED
      BY <2>1, <3>1 DEF TypeOK, PiPlanned
  <2>3. CASE Len(Decl[t]) # 0
    <3>1. /\ hostEnv' = [hostEnv EXCEPT ![t] = ip] /\ snap' = ContainerPorts(t)
          /\ cur' = t /\ pi' = 1 /\ pc' = "ports" /\ todo' = todo
      BY <1>2, <2>3 DEF VisitService
    <3>2. 1 \in 1 .. Len(Decl[t]) + 1
      BY <1>a
    <3>3. QED
      BY <1>b, <2>1, <3>1, <3>2 DEF TypeOK, PiPlanned
  <2>4. QED
    BY <2>2, <2>3
<1>3. CASE MatchPort
  <2>1. snap \subseteq Entry /\ cur \in Services
    BY DEF TypeOK
  <2>2. QED
    BY <1>3, <1>a, <2>1 DEF MatchPort, TypeOK, PiPlanned
<1>4. CASE NextService \/ Dial
  BY <1>4 DEF NextService, Dial, TypeOK, PiPlanned
<1>5. CASE ExecOk
  <2>1. pi \in 1 .. Len(Decl[cur]) /\ cp \in Entry /\ cur \in Services
    BY <1>5 DEF ExecOk, PiPlanned, TypeOK
  <2>2. portEnv' \in [Services \X Ports -> Nat]
    BY <1>5, <2>1, Zenon DEF ExecOk, TypeOK, Entry
  <2>3. QED
    BY <1>5, <1>a, <2>1, <2>2 DEF ExecOk, TypeOK, PiPlanned
<1>6. ASSUME NEW t \in Services, NEW p \in Ports, ProxyAccept(t, p) \/ Listen(t, p)
      PROVE  TypeInv'
  <2>1. PublishedAt(t, p) \subseteq Nat
    BY <1>b DEF PublishedAt, Entry
  <2>2. p \in DeclaredPorts(t) => p \in Ports
    BY DEF Ports
  <2>3. CASE ProxyAccept(t, p)
    BY <2>1, <2>3 DEF ProxyAccept, ctl, TypeOK, PiPlanned
  <2>4. CASE Listen(t, p)
    BY <2>1, <2>2, <2>4 DEF Listen, ctl, TypeOK, PiPlanned
  <2>5. QED
    BY <1>6, <2>3, <2>4
<1>7. ASSUME NEW t \in Services, Restart(t) PROVE TypeInv'
  <2>1. epoch[t] + 1 \in 0 .. MaxRestarts
    BY <1>7, DeclAssumption DEF Restart, TypeOK
  <2>2. epoch' \in [Services -> 0 .. MaxRestarts]
    BY <1>7, <2>1 DEF Restart, TypeOK
  <2>3. QED
    BY <1>7, <2>2 DEF Restart, ctl, TypeOK, PiPlanned
<1>8. CASE UNCHANGED vars
  BY <1>8 DEF vars, TypeOK, PiPlanned
<1>9. QED
  BY <1>1, <1>2, <1>3, <1>4, <1>5, <1>6, <1>7, <1>8 DEF Next, Setup, Environment

(* Type correctness of ComposeSetup (compose.go) and of the containers it  *)
(* waits for, for every stack with at least one service with a ports key   *)
(* and whose port tables hold numbers: the port index stays within the     *)
(* planned ports of the visited service, every exported <service>_<port>   *)
(* is a port number, and restarts stay within their bound.                 *)
THEOREM TypeCorrect ==
  ASSUME Services # {}, TableNumeric
  PROVE  Spec => []TypeOK
<1>1. Spec => []TypeInv
  BY TypeInit, TypeStep, PTL DEF Spec
<1>2. QED
  BY <1>1, PTL DEF TypeInv

=============================================================================
