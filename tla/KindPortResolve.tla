---------------------------- MODULE KindPortResolve ----------------------------
(***************************************************************************)
(* The data side of exposing kind resources (kind.go): for each exposure, *)
(* buildKindPort turns every comma-separated port token into a kindPort   *)
(* {inputPort, realPort, waitExpose}, portforward.New parses the          *)
(* waitExpose strings, and once the forwarder is ready the exposure's     *)
(* <resource>_host and <resource>_<inputPort> variables are exported.     *)
(*                                                                         *)
(* A token is <<remote>> or <<local, remote>> (its ":"-separated parts);  *)
(* a part is a port number or a port name.  A resource name is a          *)
(* sequence of characters, so that the sanitising of env keys is exact.   *)
(* The pod and service of every exposure have the ports PodPorts and      *)
(* SvcPorts.  The lifecycle of the forwarders is KindPortForward's.       *)
(***************************************************************************)
EXTENDS Naturals, Sequences, FiniteSets

CONSTANTS
  NExp,         \* number of exposures
  MaxTokens,    \* most tokens in one exposure's Port list
  Names,        \* candidate resource names (sequences of characters)
  Tokens,       \* candidate port tokens
  PodPorts,     \* container ports of the pod: a set of [name, port]
  SvcPorts,     \* ports of the service: a set of [name, port, target]
  PortNames,    \* port names (model values); every other part is a number
  Fail,         \* the result of a failed lookup
  NoLocal,      \* the empty local part of ":port"
  Host,         \* the suffix "host" of <resource>_host
  Busy          \* local ports other processes listen on

\* strconv.Atoi / ParseInt succeeds on the part.
IsNum(x) == x \notin PortNames

\* A token part is a number or a name; ContainerPort.ContainerPort and
\* ServicePort.Port are numbers, TargetPort is a number or a name.
ASSUME ResolveAssumption ==
  /\ NExp \in Nat /\ MaxTokens \in Nat \ {0}
  /\ \A t \in Tokens : t \in Seq(Nat \cup PortNames) /\ Len(t) \in {1, 2}
  /\ PodPorts \subseteq [name : PortNames, port : Nat]
  /\ SvcPorts \subseteq [name : PortNames, port : Nat, target : Nat \cup PortNames]
  /\ Busy \subseteq Nat

TokenSeqs == UNION {[1 .. n -> Tokens] : n \in 1 .. MaxTokens}

Exposure == [res : Names, obj : {"pod", "svc"}, toks : TokenSeqs]

-----------------------------------------------------------------------------
(* Lookups of kubectl's util package.                                       *)

\* LookupContainerPortNumberByName.
ContainerPortByName(name) ==
  IF \E p \in PodPorts : p.name = name
    THEN (CHOOSE p \in PodPorts : p.name = name).port ELSE Fail

\* LookupServicePortNumberByName.
ServicePortByName(name) ==
  IF \E p \in SvcPorts : p.name = name
    THEN (CHOOSE p \in SvcPorts : p.name = name).port ELSE Fail

\* LookupContainerPortNumberByServicePort: the service port's targetPort,
\* the port itself when targetPort is omitted (0), or a named target
\* looked up in the pod.
ContainerPortByServicePort(n) ==
  IF \E p \in SvcPorts : p.port = n
    THEN LET sp == CHOOSE p \in SvcPorts : p.port = n
         IN  IF ~IsNum(sp.target) THEN ContainerPortByName(sp.target)
             ELSE IF sp.target = 0 THEN sp.port ELSE sp.target
    ELSE Fail

-----------------------------------------------------------------------------
(* buildKindPort                                                            *)

\* strings.Split(port, ":")[1], or the token itself.
RemotePart(tok) == IF Len(tok) > 1 THEN tok[2] ELSE tok[1]

\* The token as given, or ":" + token (an empty local part).
NeedExpose(tok) == IF Len(tok) > 1 THEN tok ELSE <<NoLocal, tok[1]>>

\* The local part kept when the remote part is rewritten.
LocalPart(tok) == IF Len(tok) > 1 THEN tok[1] ELSE NoLocal

\* Mutant: the service branch never rewrites waitExpose.
BuildKindPortNoRewrite(tok, obj) ==
  LET remote == RemotePart(tok)
      portnum == IF IsNum(remote) THEN remote ELSE ServicePortByName(remote)
      real == IF portnum = Fail THEN Fail ELSE ContainerPortByServicePort(portnum)
  IN  IF obj = "pod"
        THEN LET r == IF IsNum(remote) THEN remote ELSE ContainerPortByName(remote)
             IN  IF r = Fail THEN Fail
                 ELSE [inputPort |-> remote, realPort |-> r, waitExpose |-> NeedExpose(tok)]
      ELSE IF real = Fail THEN Fail
      ELSE [inputPort |-> remote, realPort |-> real, waitExpose |-> NeedExpose(tok)]

\* A pod's port is a number or the name of a container port; a service's
\* port (a number or a service port name) is mapped to its container port,
\* and waitExpose rewritten to local:realPort when that differs.
BuildKindPort(tok, obj) ==
  LET remote == RemotePart(tok)
      portnum == IF IsNum(remote) THEN remote ELSE ServicePortByName(remote)
      real == IF portnum = Fail THEN Fail ELSE ContainerPortByServicePort(portnum)
  IN  IF obj = "pod"
        THEN LET r == IF IsNum(remote) THEN remote ELSE ContainerPortByName(remote)
             IN  IF r = Fail THEN Fail
                 ELSE [inputPort |-> remote, realPort |-> r, waitExpose |-> NeedExpose(tok)]
      ELSE IF real = Fail THEN Fail
      ELSE [inputPort |-> remote, realPort |-> real,
            waitExpose |-> IF real # remote THEN <<LocalPart(tok), real>>
                           ELSE NeedExpose(tok)]

\* portforward.New accepts "local:remote" pairs with a numeric remote part
\* and a numeric or empty local part.
ParsePortsOk(conv) ==
  \A j \in DOMAIN conv :
    /\ IsNum(conv[j].waitExpose[2])
    /\ conv[j].waitExpose[1] = NoLocal \/ IsNum(conv[j].waitExpose[1])

\* The first port of the kernel's ephemeral range (Linux: 32768-60999).
EphemeralBase == 32768

\* The local port of port j of exposure k's forwarder, whose local part is
\* l: the given one, or (l empty) a free port the kernel picks.
LocalPort(k, j, l) ==
  IF l = NoLocal THEN EphemeralBase + (k - 1) * MaxTokens + (j - 1) ELSE l

-----------------------------------------------------------------------------
(* Env keys                                                                 *)

\* strings.ReplaceAll(s, old, new) on one character.
ReplaceAll(s, old, new) == [i \in DOMAIN s |-> IF s[i] = old THEN new ELSE s[i]]

\* Lines 368-370: "/" and then "-" replaced by "_".
Sanitize(res) == ReplaceAll(ReplaceAll(res, "/", "_"), "-", "_")

\* fmt.Sprintf("%s_%s", resourceName, suffix), kept as the pair of its two
\* parts: a port name has no "_", so no two pairs give the same string.
EnvKey(res, suffix) == <<Sanitize(res), suffix>>

-----------------------------------------------------------------------------

VARIABLES
  exps,     \* the declared exposures (fixed by the config)
  k,        \* exposure being processed
  pc,       \* "build", "new", "export", "ok", "err"
  conv,     \* convertedPorts of exposure k
  fwd,      \* forwarder.GetPorts(): [local, remote] per forwarded port
  env,      \* exported env variables: key -> value
  writers,  \* key -> resource names of the exposures that set it
  tunnels   \* every forward opened so far: [local, remote]

vars == <<exps, k, pc, conv, fwd, env, writers, tunnels>>

\* The parts a token can have, and the shape of a kindPort.
Parts == UNION {{t[i] : i \in DOMAIN t} : t \in Tokens}
KindPortRec == [inputPort : Parts, realPort : Nat, waitExpose : Seq(Parts \cup Nat \cup {NoLocal})]

Init ==
  /\ exps \in [1 .. NExp -> Exposure]
  /\ k = 1
  /\ pc = IF NExp = 0 THEN "ok" ELSE "build"
  /\ conv = << >>
  /\ fwd = << >>
  /\ env = << >>
  /\ writers = << >>
  /\ tunnels = {}

\* Mutant: the error of buildKindPort ignored.
BuildPortsIgnoreErr ==
  /\ pc = "build"
  /\ pc' = "new"
  /\ conv' = [j \in DOMAIN exps[k].toks |-> BuildKindPort(exps[k].toks[j], exps[k].obj)]
  /\ UNCHANGED <<exps, k, fwd, env, writers, tunnels>>

\* Lines 330-338: buildKindPort for every token; the first error returns.
BuildPorts ==
  /\ pc = "build"
  /\ LET toks == exps[k].toks
         c == [j \in DOMAIN toks |-> BuildKindPort(toks[j], exps[k].obj)]
     IN  IF \E j \in DOMAIN c : c[j] = Fail
           THEN pc' = "err" /\ UNCHANGED conv
           ELSE pc' = "new" /\ conv' = c
  /\ UNCHANGED <<exps, k, fwd, env, writers, tunnels>>

\* The local ports held when a forwarder starts listening: other
\* processes', and those of the tunnels already open.
Held == Busy \cup {t.local : t \in tunnels}

\* ForwardPorts (client-go forward()): the ports f of the forwarder listen
\* in order; a port whose local port is held, or was taken by an earlier
\* port of the same forwarder, fails and is only logged.  An empty local
\* part listens on a free port.
Listening(c, f) ==
  {j \in DOMAIN f :
     \/ c[j].waitExpose[1] = NoLocal
     \/ /\ f[j].local \notin Held
        /\ \A i \in 1 .. j - 1 : f[i].local # f[j].local}

\* Lines 345-360: portforward.New with the waitExpose strings, then the
\* forwarding goroutine and the select.  When no port listens, ForwardPorts
\* fails and its error is returned; otherwise Ready is closed and GetPorts
\* reports every requested port, listening or not.
NewForwarder ==
  /\ pc = "new"
  /\ LET f == [j \in DOMAIN conv |->
                [local |-> LocalPort(k, j, conv[j].waitExpose[1]),
                 remote |-> conv[j].waitExpose[2]]]
         up == Listening(conv, f)
     IN  IF ParsePortsOk(conv) /\ up # {}
           THEN /\ pc' = "export"
                /\ fwd' = f
                /\ tunnels' = tunnels \cup {f[j] : j \in up}
           ELSE pc' = "err" /\ UNCHANGED <<fwd, tunnels>>
  /\ UNCHANGED <<exps, k, conv, env, writers>>

\* The ports of forward p that set the key of convertedPorts[m] (line 379).
Matches(m) == {p \in DOMAIN fwd : fwd[p].remote = conv[m].realPort}

\* Lines 367-386: <resource>_host, then for every forward and every
\* converted port with the same remote port, <resource>_<inputPort> set to
\* the forward's local port; the last write of a key wins (so a port key
\* also overrides the host key).
ExportEnv ==
  /\ pc = "export"
  /\ LET res == exps[k].res
         hostKey == EnvKey(res, Host)
         portKeys == {EnvKey(res, conv[m].inputPort) : m \in {m \in DOMAIN conv : Matches(m) # {}}}
         lastLocal(key) ==
           LET ps == {p \in DOMAIN fwd : \E m \in DOMAIN conv :
                        EnvKey(res, conv[m].inputPort) = key /\ p \in Matches(m)}
               last == CHOOSE p \in ps : \A q \in ps : q <= p
           IN  fwd[last].local
         keys == portKeys \cup {hostKey}
     IN  /\ env' = [x \in DOMAIN env \cup keys |->
                      IF x \in portKeys THEN lastLocal(x)
                      ELSE IF x = hostKey THEN "localhost" ELSE env[x]]
         /\ writers' = [x \in DOMAIN writers \cup keys |->
                          (IF x \in DOMAIN writers THEN writers[x] ELSE {})
                          \cup (IF x \in keys THEN {res} ELSE {})]
  /\ k' = k + 1
  /\ pc' = IF k < NExp THEN "build" ELSE "ok"
  /\ UNCHANGED <<exps, conv, fwd, tunnels>>

Next == BuildPorts \/ NewForwarder \/ ExportEnv

Spec == Init /\ [][Next]_vars

-----------------------------------------------------------------------------
(* Reference (spec 4.8): the container port a token must reach.  A pod's   *)
(* named or numeric container port directly; a service's named or numeric  *)
(* service port through its target port to the pod.                         *)

RefTarget(tok, obj) ==
  LET remote == RemotePart(tok)
  IN  IF obj = "pod"
        THEN IF IsNum(remote) THEN remote ELSE ContainerPortByName(remote)
      ELSE LET n == IF IsNum(remote) THEN remote ELSE ServicePortByName(remote)
           IN  IF n = Fail THEN Fail ELSE ContainerPortByServicePort(n)

TypeOK ==
  /\ exps \in [1 .. NExp -> Exposure]
  /\ k \in 1 .. NExp + 1
  /\ pc \in {"build", "new", "export", "ok", "err"}
  /\ conv \in Seq(KindPortRec)
  /\ \A key \in DOMAIN writers : writers[key] \subseteq Names

(* Every exported port reaches its target (spec 4.8; lines 377-386): once *)
(* an exposure is exported, each of its tokens has a                        *)
(* <resource>_<inputPort> variable, and it holds the local port of a        *)
(* listening tunnel whose remote port is the container port the token names.*)
ExportReachesTarget ==
  \A e \in 1 .. k - 1 : \A j \in DOMAIN exps[e].toks :
    LET key == EnvKey(exps[e].res, RemotePart(exps[e].toks[j]))
    IN  /\ key \in DOMAIN env
        /\ \E t \in tunnels :
             t.local = env[key] /\ t.remote = RefTarget(exps[e].toks[j], exps[e].obj)

\* No two exposures write keys with the same <resource> prefix.
KeysApart ==
  \A e1, e2 \in 1 .. NExp : e1 # e2 => Sanitize(exps[e1].res) # Sanitize(exps[e2].res)

\* Every numeric local port a token asks for is free: no other process
\* holds it, it lies below the ephemeral range, and no other token of any
\* exposure asks for it.
LocalsFree ==
  \A e1, e2 \in 1 .. NExp :
    \A j1 \in DOMAIN exps[e1].toks, j2 \in DOMAIN exps[e2].toks :
      LET l == LocalPart(exps[e1].toks[j1])
      IN  l # NoLocal /\ IsNum(l) =>
            /\ l \notin Busy /\ l < EphemeralBase
            /\ <<e1, j1>> # <<e2, j2>> => l # LocalPart(exps[e2].toks[j2])

(* Exported ports reach their targets when the ports asked for are free     *)
(* (forward() and lines 362-386): if the exposures' sanitised names differ  *)
(* and no requested local port is held or asked for twice, every exported   *)
(* <resource>_<port> holds the local end of a tunnel to the container port  *)
(* its token names, whatever the order and the duplicates of the tokens.    *)
ExportReachesTargetIfFree == KeysApart /\ LocalsFree => ExportReachesTarget

(* Resolvable tokens are exposed (spec 4.8, "named ... ports ... resolved   *)
(* ... and rewritten to an explicit local:remote pair"): an exposure whose  *)
(* every token names a container port of its resource is not rejected.      *)
ResolvableExposed ==
  pc = "err" => \E j \in DOMAIN exps[k].toks :
                  RefTarget(exps[k].toks[j], exps[k].obj) = Fail

(* Env keys do not collide (spec 5, "writers must not collide on key       *)
(* names"): two exposures of different resources never set the same key.   *)
EnvKeysDistinct ==
  \A key \in DOMAIN writers : Cardinality(writers[key]) <= 1

=============================================================================
