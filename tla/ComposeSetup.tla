---------------------------- MODULE ComposeSetup ----------------------------
(***************************************************************************)
(* The compose backend (compose.go): ComposeSetup resolves the default    *)
(* network and its gateway, plans the ports to wait for (bindWaitPort,    *)
(* getExpectPort), starts the stack, then for every service (in Go map    *)
(* order, i.e. any order) finds its container, exports <service>_host and *)
(* for every planned port that the container's port table lists, dials   *)
(* the published port until it connects, runs the in-container check     *)
(* until it exits 0, and exports <service>_<port>; then it runs the steps. *)
(*                                                                         *)
(* A port declaration is the sequence of the ":"-separated parts of the  *)
(* compose "ports" entry, each part a number or Junk (not a number).      *)
(* The containers and their ports are the environment: a port is         *)
(* "accepting" once a TCP connect to its published address succeeds      *)
(* (the docker proxy may accept before the service does) and "listening" *)
(* once the service inside the container listens.                        *)
(***************************************************************************)
EXTENDS Naturals, Sequences

CONSTANTS
  Decl,       \* service -> its "ports" entries (services with a ports key)
  HostMode,   \* services running with network_mode: host
  NoShell,    \* services whose /bin/sh cannot be executed (exit code 126)
  Junk,       \* a port part that strconv.Atoi rejects ("9200/udp", "80-81")
  Gateway,    \* the gateway address of the default network
  NoIP,       \* "": what getGatewayIP leaves in ip when it fails
  MaxRestarts \* how often each container may be restarted during setup

Services == DOMAIN Decl

\* A part is a number or Junk; Atoi succeeds on numbers only.
IsNum(x) == x # Junk

ASSUME DeclAssumption ==
  /\ \A s \in Services : Decl[s] \in Seq(Seq(Nat \cup {Junk}))
  /\ \A s \in Services : \A i \in 1 .. Len(Decl[s]) :
       /\ Len(Decl[s][i]) \in 1 .. 3
       /\ \A j \in 1 .. Len(Decl[s][i]) : IsNum(Decl[s][i][j]) => Decl[s][i][j] \in Nat
  /\ HostMode \subseteq Services /\ NoShell \subseteq Services
  /\ Gateway # NoIP
  /\ MaxRestarts \in Nat

\* getExpectPort: "a:b..." yields Atoi of the second part, "a" of the first.
\* (Part 1 of an "ip:host:container" entry is the address, not a number.)
ExpectPortPart(tok) == IF Len(tok) > 1 THEN tok[2] ELSE tok[1]

\* bindWaitPort fails when some entry's expected port is not a number.
PlanOk == \A s \in Services : \A i \in 1 .. Len(Decl[s]) :
            IsNum(ExpectPortPart(Decl[s][i]))

\* The expected port bindWaitPort records for entry i of service s.
ExpectPort(s, i) == ExpectPortPart(Decl[s][i])

(***************************************************************************)
(* The port table docker reports for a container (types.Container.Ports): *)
(* one entry per published entry, the container port being the last part *)
(* and the host port the one before it, or an ephemeral port 100 + c when *)
(* only the container port c is given.  A host-network container has no  *)
(* port table at all.  Docker allocates ephemeral ports afresh each time  *)
(* a container starts, so they depend on the start g: 100 + 10 * g + c.    *)
(***************************************************************************)
Ephemeral(c, g) == 100 + 10 * g + c

PublicOf(tok, g) == IF Len(tok) = 1 THEN Ephemeral(tok[1], g) ELSE tok[Len(tok) - 1]

ContainerPortsAt(s, g) ==
  IF s \in HostMode THEN {}
  ELSE {[private |-> Decl[s][i][Len(Decl[s][i])], public |-> PublicOf(Decl[s][i], g)] :
          i \in 1 .. Len(Decl[s])}

\* The container ports a service really declares (the last part of each entry).
DeclaredPorts(s) == {Decl[s][i][Len(Decl[s][i])] : i \in 1 .. Len(Decl[s])}

Ports == UNION {DeclaredPorts(s) : s \in Services}

Unset == "unset"

VARIABLES
  pc,         \* "start", "bind", "up", "services", "ports", "dial", "exec", "steps", "ok", "err"
  ip,         \* the gateway address ComposeSetup works with
  todo,       \* services the range over serviceWithPorts has not visited
  cur,        \* the service being visited
  pi,         \* inx: index into the planned port list of cur
  cp,         \* the containerPort entry matched for the planned port
  hostEnv,    \* value of <service>_host in the process environment
  portEnv,    \* value of <service>_<port> (0 while unset)
  snap,       \* containerPorts: container.Ports as listed when cur was found
  accepting,  \* service -> host ports on which its published addresses accept
  listening,  \* service -> container ports the service listens on
  epoch       \* service -> how often its container was (re)started

vars == <<pc, ip, todo, cur, pi, cp, hostEnv, portEnv, snap, accepting, listening, epoch>>

ctl == <<pc, ip, todo, cur, pi, cp, hostEnv, portEnv, snap>>

\* The port table of s's container as it is now.
ContainerPorts(s) == ContainerPortsAt(s, epoch[s])

Entry == [private : Nat, public : Nat]

\* buildInternalCheckCommand: the shell check (/proc/net/tcp*, nc, /dev/tcp)
\* exits 0 exactly when something listens on the port inside the container.
InternalCheckPasses(s, p) == p \in listening[s]

Init ==
  /\ pc = "start"
  /\ ip = NoIP
  /\ todo = {}
  /\ cur = CHOOSE s \in Services : TRUE
  /\ pi = 1
  /\ cp = [private |-> 0, public |-> 0]
  /\ hostEnv = [s \in Services |-> Unset]
  /\ portEnv = [k \in Services \X Ports |-> 0]
  /\ snap = {}
  /\ accepting = [s \in Services |-> {}]
  /\ listening = [s \in Services |-> {}]
  /\ epoch = [s \in Services |-> 0]

-----------------------------------------------------------------------------
(* ComposeSetup                                                            *)

\* getDefaultNetwork and getGatewayIP: their errors are assigned to err and
\* overwritten before being read, so a failure leaves ip = "" and goes on.
ResolveNetwork ==
  /\ pc = "start"
  /\ ip' \in {Gateway, NoIP}
  /\ pc' = "bind"
  /\ UNCHANGED <<todo, cur, pi, cp, hostEnv, portEnv, snap, accepting, listening, epoch>>

\* bindWaitPort: a port entry getExpectPort cannot parse aborts setup.
BindWaitPort ==
  /\ pc = "bind"
  /\ pc' = IF PlanOk THEN "up" ELSE "err"
  /\ UNCHANGED <<ip, todo, cur, pi, cp, hostEnv, portEnv, snap, accepting, listening, epoch>>

\* docker-compose up -d: fails, or starts the stack.
ComposeUp ==
  /\ pc = "up"
  /\ \/ pc' = "err" /\ UNCHANGED todo
     \/ pc' = "services" /\ todo' = Services
  /\ UNCHANGED <<ip, cur, pi, cp, hostEnv, portEnv, snap, accepting, listening, epoch>>

\* findContainer(<identifier>_<service>_1) lists no container: abort.
FindContainerFail(s) ==
  /\ pc = "services" /\ s \in todo
  /\ pc' = "err"
  /\ UNCHANGED <<ip, todo, cur, pi, cp, hostEnv, portEnv, snap, accepting, listening, epoch>>

\* The container is found.  With an empty port list the service is done;
\* otherwise its port table is kept (containerPorts := container.Ports),
\* <service>_host = ip is exported and its port loop starts.
VisitService(s) ==
  /\ pc = "services" /\ s \in todo
  /\ IF Len(Decl[s]) = 0
       THEN /\ todo' = todo \ {s}
            /\ UNCHANGED <<pc, cur, pi, hostEnv, snap>>
       ELSE /\ hostEnv' = [hostEnv EXCEPT ![s] = ip]
            /\ snap' = ContainerPorts(s)
            /\ cur' = s
            /\ pi' = 1
            /\ pc' = "ports"
            /\ UNCHANGED todo
  /\ UNCHANGED <<ip, cp, portEnv, accepting, listening, epoch>>

\* Planned port pi: the first entry of the kept port table with that
\* container port is probed (MappedPort re-reads the container, but only for
\* a log line); when none has it the port is skipped without an error.
MatchPort ==
  /\ pc = "ports" /\ pi \in 1 .. Len(Decl[cur])
  /\ LET m == {c \in snap : c.private = ExpectPort(cur, pi)}
     IN IF m = {}
          THEN /\ pi' = pi + 1
               /\ UNCHANGED <<pc, cp>>
          ELSE /\ cp' \in m
               /\ pc' = "dial"
               /\ UNCHANGED pi
  /\ UNCHANGED <<ip, todo, cur, hostEnv, portEnv, snap, accepting, listening, epoch>>

\* The port list of cur is done.
NextService ==
  /\ pc = "ports" /\ pi > Len(Decl[cur])
  /\ pc' = "services"
  /\ todo' = todo \ {cur}
  /\ UNCHANGED <<ip, cur, pi, cp, hostEnv, portEnv, snap, accepting, listening, epoch>>

\* Mutant: the container port is dialled instead of the published one.
DialPrivate ==
  /\ pc = "dial"
  /\ cp.private \in accepting[cur]
  /\ pc' = "exec"
  /\ UNCHANGED <<ip, todo, cur, pi, cp, hostEnv, portEnv, snap, accepting, listening, epoch>>

\* External check: the dial loop (retry every 2s, no deadline) ends once a
\* connection to ip:PublicPort succeeds.
Dial ==
  /\ pc = "dial"
  /\ cp.public \in accepting[cur]
  /\ pc' = "exec"
  /\ UNCHANGED <<ip, todo, cur, pi, cp, hostEnv, portEnv, snap, accepting, listening, epoch>>

\* Mutant: the internal check is built with the published port.
ExecOkPublic ==
  /\ pc = "exec" /\ cur \notin NoShell
  /\ InternalCheckPasses(cur, cp.public)
  /\ portEnv' = [portEnv EXCEPT ![<<cur, cp.private>>] = cp.public]
  /\ pi' = pi + 1
  /\ pc' = "ports"
  /\ UNCHANGED <<ip, todo, cur, cp, hostEnv, snap, accepting, listening, epoch>>

\* Mutant: the port index advances past the next planned port.
ExecOkSkip ==
  /\ pc = "exec" /\ cur \notin NoShell
  /\ cp.private \in listening[cur]
  /\ portEnv' = [portEnv EXCEPT ![<<cur, cp.private>>] = cp.public]
  /\ pi' = pi + 2
  /\ pc' = "ports"
  /\ UNCHANGED <<ip, todo, cur, cp, hostEnv, snap, accepting, listening, epoch>>

\* Mutant: the in-container check is skipped.
ExecOkNoInternal ==
  /\ pc = "exec" /\ cur \notin NoShell
  /\ portEnv' = [portEnv EXCEPT ![<<cur, cp.private>>] = cp.public]
  /\ pi' = pi + 1
  /\ pc' = "ports"
  /\ UNCHANGED <<ip, todo, cur, cp, hostEnv, snap, accepting, listening, epoch>>

\* Mutant: the container port is exported instead of the published one.
ExecOkPrivate ==
  /\ pc = "exec" /\ cur \notin NoShell
  /\ cp.private \in listening[cur]
  /\ portEnv' = [portEnv EXCEPT ![<<cur, cp.private>>] = cp.private]
  /\ pi' = pi + 1
  /\ pc' = "ports"
  /\ UNCHANGED <<ip, todo, cur, cp, hostEnv, snap, accepting, listening, epoch>>

\* Internal check: the exec loop re-runs the check (exit code 1) until it
\* exits 0 once the service listens; then <service>_<PrivatePort> =
\* PublicPort is exported and the next planned port is taken.
ExecOk ==
  /\ pc = "exec" /\ cur \notin NoShell
  /\ InternalCheckPasses(cur, cp.private)
  /\ portEnv' = [portEnv EXCEPT ![<<cur, cp.private>>] = cp.public]
  /\ pi' = pi + 1
  /\ pc' = "ports"
  /\ UNCHANGED <<ip, todo, cur, cp, hostEnv, snap, accepting, listening, epoch>>

\* Exit code 126: /bin/sh cannot be executed in the container; abort.
ExecFail ==
  /\ pc = "exec" /\ cur \in NoShell
  /\ pc' = "err"
  /\ UNCHANGED <<ip, todo, cur, pi, cp, hostEnv, portEnv, snap, accepting, listening, epoch>>

\* The exec API call itself fails (ContainerExecCreate, Attach or Inspect
\* return an error); abort.
ExecError ==
  /\ pc = "exec"
  /\ pc' = "err"
  /\ UNCHANGED <<ip, todo, cur, pi, cp, hostEnv, portEnv, snap, accepting, listening, epoch>>

\* Every service is done: RunStepsAndWait is called ...
RunSteps ==
  /\ pc = "services" /\ todo = {}
  /\ pc' = "steps"
  /\ UNCHANGED <<ip, todo, cur, pi, cp, hostEnv, portEnv, snap, accepting, listening, epoch>>

\* ... and its result is returned.
StepsDone ==
  /\ pc = "steps"
  /\ pc' \in {"ok", "err"}
  /\ UNCHANGED <<ip, todo, cur, pi, cp, hostEnv, portEnv, snap, accepting, listening, epoch>>

-----------------------------------------------------------------------------
(* The environment: once the stack is up, a published address may start  *)
(* accepting (the proxy), and a service may start listening, which makes  *)
(* its published address accept too.  While setup still probes, a         *)
(* container may be restarted (a crash under a restart policy): it stops  *)
(* listening, its old addresses stop accepting, and its ephemeral ports   *)
(* are allocated anew.                                                     *)

\* The host ports on which container port p of s is published now.
PublishedAt(s, p) == {c.public : c \in {c \in ContainerPorts(s) : c.private = p}}

ProxyAccept(s, p) ==
  /\ pc \notin {"start", "bind", "up"}
  /\ p \in DeclaredPorts(s) /\ ~(PublishedAt(s, p) \subseteq accepting[s])
  /\ accepting' = [accepting EXCEPT ![s] = @ \cup PublishedAt(s, p)]
  /\ UNCHANGED <<ctl, listening, epoch>>

Listen(s, p) ==
  /\ pc \notin {"start", "bind", "up"}
  /\ p \in DeclaredPorts(s) /\ p \notin listening[s]
  /\ listening' = [listening EXCEPT ![s] = @ \cup {p}]
  /\ accepting' = [accepting EXCEPT ![s] = @ \cup PublishedAt(s, p)]
  /\ UNCHANGED <<ctl, epoch>>

Restart(s) ==
  /\ pc \in {"services", "ports", "dial", "exec"}
  /\ epoch[s] < MaxRestarts
  /\ epoch' = [epoch EXCEPT ![s] = @ + 1]
  /\ listening' = [listening EXCEPT ![s] = {}]
  /\ accepting' = [accepting EXCEPT ![s] = {}]
  /\ UNCHANGED ctl

Setup ==
  \/ ResolveNetwork \/ BindWaitPort \/ ComposeUp
  \/ \E s \in Services : FindContainerFail(s) \/ VisitService(s)
  \/ MatchPort \/ NextService \/ Dial \/ ExecOk \/ ExecFail
  \/ RunSteps \/ StepsDone

Environment ==
  \/ \E s \in Services, p \in Ports : ProxyAccept(s, p) \/ Listen(s, p)
  \/ \E s \in Services : Restart(s)

Next == Setup \/ ExecError \/ Environment

\* ComposeSetup runs in one goroutine, so it keeps taking its steps; nothing
\* obliges a container to ever listen, and nothing obliges the daemon to
\* fail an exec: while the check exits 1 the exec loop may retry forever.
Spec == Init /\ [][Next]_vars /\ WF_vars(Setup)

-----------------------------------------------------------------------------
(* Properties                                                               *)

TypeOK ==
  /\ pc \in {"start", "bind", "up", "services", "ports", "dial", "exec",
             "steps", "ok", "err"}
  /\ ip \in {Gateway, NoIP}
  /\ todo \subseteq Services
  /\ cur \in Services
  /\ pi \in 1 .. Len(Decl[cur]) + 1
  /\ cp \in Entry
  /\ hostEnv \in [Services -> {Unset, Gateway, NoIP}]
  /\ portEnv \in [Services \X Ports -> Nat]
  /\ snap \subseteq Entry
  /\ accepting \in [Services -> SUBSET Nat]
  /\ listening \in [Services -> SUBSET Ports]
  /\ epoch \in [Services -> 0 .. MaxRestarts]

(* Ready before steps (spec 4.5, 4.2): the steps only run once every port  *)
(* every service declares is listening inside its container; a port that  *)
(* cannot be resolved aborts setup instead.                                *)
ReadyBeforeSteps ==
  pc \in {"steps", "ok"} => \A s \in Services : DeclaredPorts(s) \subseteq listening[s]

(* Exported bindings are the published ones (spec 4.4, 8): every exported *)
(* <service>_<port> names a container port of that service and holds the  *)
(* host port docker published it on.                                       *)
EnvMatchesBinding ==
  \A s \in Services, p \in Ports :
    portEnv[<<s, p>>] # 0 =>
      \E c \in ContainerPorts(s) : c.private = p /\ c.public = portEnv[<<s, p>>]

(* Ready services let setup return (the dial and exec loops, spec 3):     *)
(* if from some point on every declared port of every service listens,    *)
(* ComposeSetup returns; the dial loop probes the port it read from the   *)
(* container's port table, which must be the address that now accepts.   *)
ReadyThenReturns ==
  (<>[](\A s \in Services : DeclaredPorts(s) \subseteq listening[s]))
    => <>(pc \in {"ok", "err"})

=============================================================================
