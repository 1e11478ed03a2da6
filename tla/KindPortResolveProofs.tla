------------------------ MODULE KindPortResolveProofs ------------------------
(***************************************************************************)
(* Proofs about KindPortResolve: the type invariant, and that every       *)
(* exported <resource>_<port> variable names the local end of a tunnel to *)
(* the container port its token denotes, for exposures whose sanitised    *)
(* resource names are distinct and whose requested local ports are free.  *)
(***************************************************************************)
EXTENDS KindPortResolve, WellFoundedInduction, TLAPS

-----------------------------------------------------------------------------
(* Lemmas about buildKindPort and the lookups.                             *)

USE ResolveAssumption

\* A numeric token part is a number.
LEMMA NumPart ==
  ASSUME NEW x \in Parts, IsNum(x) PROVE x \in Nat
BY DEF Parts, IsNum

\* The parts of a token, and what NeedExpose makes of it.
LEMMA TokenParts ==
  ASSUME NEW tok \in Tokens
  PROVE  /\ RemotePart(tok) \in Parts
         /\ LocalPart(tok) \in Parts \cup {NoLocal}
         /\ NeedExpose(tok) \in Seq(Parts \cup {NoLocal})
         /\ NeedExpose(tok)[2] = RemotePart(tok)
         /\ NeedExpose(tok)[1] = LocalPart(tok)
<1>1. tok \in Seq(Nat \cup PortNames) /\ Len(tok) \in {1, 2}
  OBVIOUS
<1>2. DOMAIN tok = 1 .. Len(tok)
  BY <1>1
<1>3. \A i \in 1 .. Len(tok) : tok[i] \in Parts
  BY <1>2 DEF Parts
<1>4. CASE Len(tok) = 1
  <2>1. RemotePart(tok) = tok[1] /\ LocalPart(tok) = NoLocal
        /\ NeedExpose(tok) = <<NoLocal, tok[1]>>
    BY <1>4 DEF RemotePart, LocalPart, NeedExpose
  <2>2. tok[1] \in Parts
    BY <1>3, <1>4
  <2>3. QED
    BY <2>1, <2>2
<1>5. CASE Len(tok) = 2
  <2>1. RemotePart(tok) = tok[2] /\ LocalPart(tok) = tok[1] /\ NeedExpose(tok) = tok
    BY <1>5 DEF RemotePart, LocalPart, NeedExpose
  <2>2. tok[1] \in Parts /\ tok[2] \in Parts
    BY <1>3, <1>5
  <2>3. tok \in [1 .. Len(tok) -> Parts \cup {NoLocal}]
    BY <1>1, <1>2, <1>3
  <2>4. tok \in Seq(Parts \cup {NoLocal})
    BY <1>1, <2>3
  <2>5. QED
    BY <2>1, <2>2, <2>4
<1>6. QED
  BY <1>1, <1>4, <1>5

\* The lookups return a number or Fail.
LEMMA LookupNat ==
  /\ \A n : ContainerPortByName(n) # Fail => ContainerPortByName(n) \in Nat
  /\ \A n : ContainerPortByServicePort(n) # Fail => ContainerPortByServicePort(n) \in Nat
<1>1. \A n : ContainerPortByName(n) # Fail => ContainerPortByName(n) \in Nat
  BY DEF ContainerPortByName
<1>2. ASSUME NEW n, ContainerPortByServicePort(n) # Fail
      PROVE  ContainerPortByServicePort(n) \in Nat
  <2>1. \E p \in SvcPorts : p.port = n
    BY <1>2 DEF ContainerPortByServicePort
  <2> DEFINE sp == CHOOSE p \in SvcPorts : p.port = n
  <2>2. sp \in SvcPorts
    BY <2>1
  <2>3. ContainerPortByServicePort(n) =
          IF ~IsNum(sp.target) THEN ContainerPortByName(sp.target)
          ELSE IF sp.target = 0 THEN sp.port ELSE sp.target
    BY <2>1 DEF ContainerPortByServicePort
  <2>4. QED
    BY <1>1, <1>2, <2>2, <2>3 DEF IsNum
<1>3. QED
  BY <1>1, <1>2

\* What buildKindPort returns when it succeeds: its input port is the
\* token's remote part, its real port the container port the token denotes,
\* and a numeric remote part of waitExpose is that real port.
LEMMA BuildOk ==
  ASSUME NEW tok \in Tokens, NEW obj \in {"pod", "svc"},
         BuildKindPort(tok, obj) # Fail
  PROVE  LET b == BuildKindPort(tok, obj)
         IN  /\ b \in KindPortRec
             /\ b.inputPort = RemotePart(tok)
             /\ b.realPort = RefTarget(tok, obj)
             /\ IsNum(b.waitExpose[2]) => b.waitExpose[2] = b.realPort
             /\ b.waitExpose[1] = LocalPart(tok)
<1> DEFINE remote == RemotePart(tok)
           b == BuildKindPort(tok, obj)
<1>1. remote \in Parts /\ LocalPart(tok) \in Parts \cup {NoLocal}
      /\ NeedExpose(tok) \in Seq(Parts \cup {NoLocal})
      /\ NeedExpose(tok)[2] = remote
      /\ NeedExpose(tok)[1] = LocalPart(tok)
  BY TokenParts
<1>2. IsNum(remote) => remote \in Nat
  BY <1>1, NumPart
<1>3. NeedExpose(tok) \in Seq(Parts \cup Nat \cup {NoLocal})
  BY <1>1
<1>4. CASE obj = "pod" /\ IsNum(remote)
  <2>1. b = [inputPort |-> remote, realPort |-> remote, waitExpose |-> NeedExpose(tok)]
        /\ RefTarget(tok, obj) = remote
    BY <1>4 DEF BuildKindPort, RefTarget
  <2>2. QED
    BY <1>1, <1>2, <1>3, <1>4, <2>1 DEF KindPortRec
<1>5. CASE obj = "pod" /\ ~IsNum(remote)
  <2> DEFINE r == ContainerPortByName(remote)
  <2>1. /\ b = IF r = Fail THEN Fail
                ELSE [inputPort |-> remote, realPort |-> r, waitExpose |-> NeedExpose(tok)]
        /\ RefTarget(tok, obj) = r
    BY <1>5 DEF BuildKindPort, RefTarget
  <2>2. r # Fail
    BY <2>1
  <2>3. r \in Nat
    BY <2>2, LookupNat
  <2>4. QED
    BY <1>1, <1>3, <1>5, <2>1, <2>2, <2>3 DEF KindPortRec
<1>6. CASE obj = "svc"
  <2> DEFINE portnum == IF IsNum(remote) THEN remote ELSE ServicePortByName(remote)
             real == IF portnum = Fail THEN Fail ELSE ContainerPortByServicePort(portnum)
  <2>1. /\ b = IF real = Fail THEN Fail
                ELSE [inputPort |-> remote, realPort |-> real,
                      waitExpose |-> IF real # remote THEN <<LocalPart(tok), real>>
                                     ELSE NeedExpose(tok)]
        /\ RefTarget(tok, obj) = real
    BY <1>6 DEF BuildKindPort, RefTarget
  <2>2. real # Fail
    BY <2>1
  <2>3. real \in Nat
    BY <2>2, LookupNat
  <2>4. <<LocalPart(tok), real>> \in Seq(Parts \cup Nat \cup {NoLocal})
    BY <1>1, <2>3
  <2>5. CASE real # remote
    <3>1. b = [inputPort |-> remote, realPort |-> real, waitExpose |-> <<LocalPart(tok), real>>]
      BY <2>1, <2>2, <2>5
    <3>2. <<LocalPart(tok), real>>[2] = real /\ <<LocalPart(tok), real>>[1] = LocalPart(tok)
      OBVIOUS
    <3>3. /\ b.inputPort = remote /\ b.realPort = real /\ b.waitExpose[2] = real
          /\ b.waitExpose[1] = LocalPart(tok)
      BY <3>1, <3>2
    <3>4. b \in KindPortRec
      BY <1>1, <2>3, <2>4, <3>1 DEF KindPortRec
    <3>5. QED
      BY <2>1, <3>3, <3>4
  <2>6. CASE real = remote
    <3>1. b = [inputPort |-> remote, realPort |-> real, waitExpose |-> NeedExpose(tok)]
      BY <2>1, <2>2, <2>6
    <3>2. QED
      BY <1>1, <1>3, <2>1, <2>3, <2>6, <3>1 DEF KindPortRec
  <2>7. QED
    BY <2>5, <2>6
<1>7. QED
  BY <1>4, <1>5, <1>6

\* A nonempty set of naturals below n has a greatest element: the last
\* write of a key in the export loop is well defined.
LEMMA MaxExists ==
  ASSUME NEW n \in Nat, NEW S \in SUBSET (1 .. n), S # {}
  PROVE  \E p \in S : \A q \in S : q <= p
<1> DEFINE T == {n - p : p \in S}
<1>1. T \subseteq Nat
  OBVIOUS
<1>2. T # {}
  BY Zenon
<1>3. \E x \in T : \A y \in T : ~(<<y, x>> \in OpToRel(<, Nat))
  BY <1>1, <1>2, NatLessThanWellFounded, WFMin, Zenon
<1>4. PICK p \in S : \A q \in S : ~(<<n - q, n - p>> \in OpToRel(<, Nat))
  BY <1>3, Zenon
<1>5. \A q \in S : n - q \in Nat /\ n - p \in Nat
  OBVIOUS
<1>6. \A q \in S : ~(n - q < n - p)
  BY <1>4, <1>5, Zenon DEF OpToRel
<1>7. QED
  BY <1>6

-----------------------------------------------------------------------------
(* The inductive invariant.                                                *)

\* Exposure k is being processed while pc is in the loop.
KInLoop == pc \in {"build", "new", "export"} => k \in 1 .. NExp

\* conv holds buildKindPort's results for every token of exposure k.
ConvBuilt ==
  pc \in {"new", "export"} =>
    /\ conv = [j \in DOMAIN exps[k].toks |-> BuildKindPort(exps[k].toks[j], exps[k].obj)]
    /\ \A j \in DOMAIN conv : conv[j] # Fail

\* fwd is GetPorts() of a forwarder portforward.New accepted: one forward
\* per converted port, to its remote port; when the requested local ports
\* are free, every one of them is an open tunnel.
FwdBuilt ==
  pc = "export" =>
    /\ ParsePortsOk(conv)
    /\ DOMAIN fwd = DOMAIN conv
    /\ \A j \in DOMAIN conv : fwd[j].remote = conv[j].waitExpose[2]
    /\ LocalsFree => \A j \in DOMAIN conv : fwd[j] \in tunnels

\* The local port of token j of exposure e's forwarder.
TokLocal(e, j) == LocalPort(e, j, LocalPart(exps[e].toks[j]))

\* Every open tunnel is one of an exposure already forwarded, and listens on
\* the local port of one of its tokens.
TunnelsOwned ==
  \A t \in tunnels : \E e \in 1 .. NExp : \E j \in DOMAIN exps[e].toks :
    /\ e < k \/ (e = k /\ pc = "export")
    /\ t.local = TokLocal(e, j)

Exported == ExportReachesTargetIfFree


-----------------------------------------------------------------------------
(* Type correctness.                                                       *)

\* The fields of a declared exposure.
LEMMA ExposureParts ==
  ASSUME NEW x \in Exposure
  PROVE  /\ x.res \in Names /\ x.obj \in {"pod", "svc"}
         /\ \E n \in 1 .. MaxTokens : x.toks \in [1 .. n -> Tokens]
BY DEF Exposure, TokenSeqs

TypeInv == TypeOK /\ KInLoop

LEMMA TypeInit == Init => TypeInv
<1> SUFFICES ASSUME Init PROVE TypeInv
  OBVIOUS
<1>1. << >> \in Seq(KindPortRec)
  OBVIOUS
<1>2. QED
  BY <1>1 DEF Init, TypeInv, TypeOK, KInLoop

LEMMA TypeStep == TypeInv /\ [Next]_vars => TypeInv'
<1> SUFFICES ASSUME TypeInv, [Next]_vars PROVE TypeInv'
  OBVIOUS
<1> USE DEF TypeInv
<1>1. CASE BuildPorts
  <2>1. k \in 1 .. NExp /\ exps[k] \in Exposure
    BY <1>1 DEF BuildPorts, KInLoop, TypeOK
  <2>2. PICK n \in 1 .. MaxTokens : exps[k].toks \in [1 .. n -> Tokens]
    BY <2>1, ExposureParts
  <2>3. exps[k].obj \in {"pod", "svc"}
    BY <2>1, ExposureParts
  <2> DEFINE c == [j \in DOMAIN exps[k].toks |-> BuildKindPort(exps[k].toks[j], exps[k].obj)]
  <2>4. (\A j \in DOMAIN c : c[j] # Fail) => c \in Seq(KindPortRec)
    <3>1. ASSUME \A j \in DOMAIN c : c[j] # Fail
          PROVE  \A j \in 1 .. n : c[j] \in KindPortRec
      BY <2>2, <2>3, <3>1, BuildOk, Zenon
    <3>2. DOMAIN c = 1 .. n /\ n \in Nat
      BY <2>2
    <3>3. ASSUME \A j \in DOMAIN c : c[j] # Fail
          PROVE  c \in [1 .. n -> KindPortRec]
      BY <3>1, <3>2, <3>3, Zenon
    <3>4. QED
      <4>1. SUFFICES ASSUME \A j \in DOMAIN c : c[j] # Fail
                     PROVE  c \in Seq(KindPortRec)
        BY Zenon
      <4>2. c \in [1 .. n -> KindPortRec]
        BY <3>3, <4>1, Zenon
      <4>3. QED
        BY <3>2, <4>2
  <2>5. \/ pc' = "err" /\ conv' = conv
        \/ pc' = "new" /\ conv' = c /\ \A j \in DOMAIN c : c[j] # Fail
    BY <1>1 DEF BuildPorts
  <2>6. UNCHANGED <<exps, k, writers>>
    BY <1>1 DEF BuildPorts
  <2>7. QED
    BY <2>1, <2>4, <2>5, <2>6, Zenon DEF TypeOK, KInLoop
<1>2. CASE NewForwarder
  <2>1. pc' \in {"export", "err"} /\ UNCHANGED <<exps, k, conv, writers>>
    BY <1>2 DEF NewForwarder
  <2>2. QED
    BY <1>2, <2>1 DEF NewForwarder, TypeOK, KInLoop
<1>3. CASE ExportEnv
  <2>1. k \in 1 .. NExp /\ exps[k] \in Exposure
    BY <1>3 DEF ExportEnv, KInLoop, TypeOK
  <2>2. exps[k].res \in Names
    BY <2>1, ExposureParts
  <2>3. k' = k + 1 /\ pc' = (IF k < NExp THEN "build" ELSE "ok")
        /\ UNCHANGED <<exps, conv>>
    BY <1>3 DEF ExportEnv
  <2>4. \A key \in DOMAIN writers' : writers'[key] \subseteq Names
    BY <1>3, <2>2 DEF ExportEnv, TypeOK
  <2>5. QED
    BY <2>1, <2>3, <2>4 DEF TypeOK, KInLoop
<1>4. CASE UNCHANGED vars
  BY <1>4 DEF vars, TypeOK, KInLoop
<1>5. QED
  BY <1>1, <1>2, <1>3, <1>4 DEF Next

(* Type correctness of the exposure loop (buildKindPort and               *)
(* exposePerKindService): every converted port is a kindPort record with a *)
(* numeric real port, and every env key is written by declared resources.  *)
THEOREM TypeCorrect == Spec => []TypeOK
<1>1. Spec => []TypeInv
  BY TypeInit, TypeStep, PTL DEF Spec
<1>2. QED
  BY <1>1, PTL DEF TypeInv

-----------------------------------------------------------------------------
(* Exported keys reach their targets.                                      *)

IInv == TypeInv /\ ConvBuilt /\ FwdBuilt /\ TunnelsOwned /\ Exported

\* The target a token denotes depends on its remote part only.
LEMMA RefTargetRemote ==
  ASSUME NEW t1, NEW t2, NEW obj, RemotePart(t1) = RemotePart(t2)
  PROVE  RefTarget(t1, obj) = RefTarget(t2, obj)
BY DEF RefTarget

LEMMA IInvInit == Init => IInv
<1> SUFFICES ASSUME Init PROVE IInv
  OBVIOUS
<1>1. TypeInv
  BY TypeInit
<1>2. k - 1 = 0
  BY DEF Init
<1>3. QED
  BY <1>1, <1>2 DEF Init, IInv, ConvBuilt, FwdBuilt, TunnelsOwned, Exported,
                    ExportReachesTargetIfFree, ExportReachesTarget

\* A free requested local port differs from the local port of every other
\* token, whether that one is requested or picked by the kernel.
LEMMA LocalApart ==
  ASSUME LocalsFree, exps \in [1 .. NExp -> Exposure],
         NEW e1 \in 1 .. NExp, NEW j1 \in DOMAIN exps[e1].toks,
         NEW e2 \in 1 .. NExp, NEW j2 \in DOMAIN exps[e2].toks,
         <<e1, j1>> # <<e2, j2>>,
         LocalPart(exps[e1].toks[j1]) # NoLocal, IsNum(LocalPart(exps[e1].toks[j1]))
  PROVE  TokLocal(e2, j2) # LocalPart(exps[e1].toks[j1])
<1> DEFINE l == LocalPart(exps[e1].toks[j1])
           l2 == LocalPart(exps[e2].toks[j2])
<1>1. l < EphemeralBase /\ l # l2
  BY Zenon DEF LocalsFree
<1>2. PICK n1 \in 1 .. MaxTokens : exps[e1].toks \in [1 .. n1 -> Tokens]
  BY ExposureParts
<1>3. PICK n2 \in 1 .. MaxTokens : exps[e2].toks \in [1 .. n2 -> Tokens]
  BY ExposureParts
<1>4. l \in Nat
  <2>1. exps[e1].toks[j1] \in Tokens
    BY <1>2
  <2>2. l \in Parts
    BY <2>1, TokenParts
  <2>3. QED
    BY <2>2, NumPart
<1>5. CASE l2 = NoLocal
  <2>1. TokLocal(e2, j2) = EphemeralBase + (e2 - 1) * MaxTokens + (j2 - 1)
    BY <1>5 DEF TokLocal, LocalPort
  <2>2. j2 \in 1 .. n2
    BY <1>3
  <2>3. QED
    BY <1>1, <1>4, <2>1, <2>2 DEF EphemeralBase
<1>6. CASE l2 # NoLocal
  BY <1>1, <1>6 DEF TokLocal, LocalPort
<1>7. QED
  BY <1>5, <1>6

\* Before the forwarder of exposure k is built, the local port of each of
\* its converted ports is the token's.
LEMMA FwdLocal ==
  ASSUME IInv, pc = "new"
  PROVE  /\ DOMAIN conv = DOMAIN exps[k].toks
         /\ \A j \in DOMAIN conv : conv[j].waitExpose[1] = LocalPart(exps[k].toks[j])
         /\ \A j \in DOMAIN conv :
              LocalPort(k, j, conv[j].waitExpose[1]) = TokLocal(k, j)
<1>1. k \in 1 .. NExp /\ exps[k] \in Exposure
  BY DEF IInv, TypeInv, KInLoop, TypeOK
<1>2. PICK n \in 1 .. MaxTokens : exps[k].toks \in [1 .. n -> Tokens]
  BY <1>1, ExposureParts
<1>3. exps[k].obj \in {"pod", "svc"}
  BY <1>1, ExposureParts
<1>4. /\ conv = [j \in DOMAIN exps[k].toks |-> BuildKindPort(exps[k].toks[j], exps[k].obj)]
      /\ \A j \in DOMAIN conv : conv[j] # Fail
  BY DEF IInv, ConvBuilt
<1>5. ASSUME NEW j \in DOMAIN conv
      PROVE  conv[j].waitExpose[1] = LocalPart(exps[k].toks[j])
  <2>1. j \in 1 .. n /\ exps[k].toks[j] \in Tokens
    BY <1>2, <1>4
  <2>2. BuildKindPort(exps[k].toks[j], exps[k].obj) # Fail
    BY <1>4, Zenon
  <2>3. BuildKindPort(exps[k].toks[j], exps[k].obj).waitExpose[1] = LocalPart(exps[k].toks[j])
    BY <1>3, <2>1, <2>2, BuildOk
  <2>4. QED
    BY <1>4, <2>3
<1>6. QED
  BY <1>4, <1>5, Zenon DEF TokLocal

\* When the requested local ports are free, every port of the forwarder of
\* exposure k listens.
LEMMA AllListen ==
  ASSUME IInv, pc = "new", LocalsFree, ParsePortsOk(conv)
  PROVE  LET f == [j \in DOMAIN conv |->
                    [local |-> LocalPort(k, j, conv[j].waitExpose[1]),
                     remote |-> conv[j].waitExpose[2]]]
         IN  Listening(conv, f) = DOMAIN f
<1> DEFINE f == [j \in DOMAIN conv |->
                  [local |-> LocalPort(k, j, conv[j].waitExpose[1]),
                   remote |-> conv[j].waitExpose[2]]]
           toks == exps[k].toks
<1>1. k \in 1 .. NExp /\ exps \in [1 .. NExp -> Exposure]
  BY DEF IInv, TypeInv, KInLoop, TypeOK
<1>2. /\ DOMAIN conv = DOMAIN toks
      /\ \A j \in DOMAIN conv : conv[j].waitExpose[1] = LocalPart(toks[j])
      /\ \A j \in DOMAIN conv : f[j].local = TokLocal(k, j)
  BY FwdLocal
<1>3. SUFFICES ASSUME NEW j \in DOMAIN conv, conv[j].waitExpose[1] # NoLocal
               PROVE  /\ f[j].local \notin Held
                      /\ \A i \in 1 .. j - 1 : f[i].local # f[j].local
  BY Zenon DEF Listening
<1> DEFINE l == LocalPart(toks[j])
<1>4. conv[j].waitExpose[1] = l /\ j \in DOMAIN toks
  BY <1>2
<1>5. l # NoLocal /\ IsNum(l)
  <2>1. conv[j].waitExpose[1] = NoLocal \/ IsNum(conv[j].waitExpose[1])
    BY Zenon DEF ParsePortsOk
  <2>2. QED
    BY <1>3, <1>4, <2>1, Zenon
<1>6. f[j].local = l
  BY <1>4, <1>5 DEF LocalPort
<1>7. l \notin Busy
  BY <1>1, <1>2, <1>5, Zenon DEF LocalsFree
<1>8. ASSUME NEW t \in tunnels PROVE t.local # l
  <2>1. PICK e \in 1 .. NExp : \E j2 \in DOMAIN exps[e].toks :
                 /\ e < k \/ (e = k /\ pc = "export")
                 /\ t.local = TokLocal(e, j2)
    BY Zenon DEF IInv, TunnelsOwned
  <2>2. PICK j2 \in DOMAIN exps[e].toks : e < k /\ t.local = TokLocal(e, j2)
    BY <2>1
  <2>3. <<k, j>> # <<e, j2>>
    BY <2>2
  <2>4. TokLocal(e, j2) # l
    BY <1>1, <1>4, <1>5, <2>3, LocalApart, Zenon
  <2>5. QED
    BY <2>2, <2>4
<1>9. ASSUME NEW i \in 1 .. j - 1 PROVE f[i].local # l
  <2>1. i \in DOMAIN conv /\ <<k, j>> # <<k, i>>
    <3>1. PICK n \in 1 .. MaxTokens : toks \in [1 .. n -> Tokens]
      BY <1>1, ExposureParts, Zenon
    <3>2. QED
      BY <1>2, <3>1
  <2>2. TokLocal(k, i) # l
    BY <1>1, <1>2, <1>4, <1>5, <2>1, LocalApart
  <2>3. QED
    BY <1>2, <2>1, <2>2, Zenon
<1>10. QED
  BY <1>6, <1>7, <1>8, <1>9, Zenon DEF Held

\* Exporting exposure k: the keys of earlier exposures are left alone, and
\* every token of k gets the local end of a tunnel to its target.
LEMMA ExportStep ==
  ASSUME IInv, ExportEnv, KeysApart, LocalsFree
  PROVE  ExportReachesTarget'
<1> DEFINE res == exps[k].res
           obj == exps[k].obj
           toks == exps[k].toks
           hostKey == EnvKey(res, Host)
           portKeys == {EnvKey(res, conv[m].inputPort) : m \in {m \in DOMAIN conv : Matches(m) # {}}}
           ps(key) == {p \in DOMAIN fwd : \E m \in DOMAIN conv :
                         EnvKey(res, conv[m].inputPort) = key /\ p \in Matches(m)}
           lastLocal(key) == fwd[CHOOSE p \in ps(key) : \A q \in ps(key) : q <= p].local
           keys == portKeys \cup {hostKey}
<1>0. k' = k + 1 /\ pc = "export" /\ UNCHANGED <<exps, conv, fwd, tunnels>>
  BY DEF ExportEnv
<1>1. /\ env' = [x \in DOMAIN env \cup keys |->
                   IF x \in portKeys THEN lastLocal(x)
                   ELSE IF x = hostKey THEN "localhost" ELSE env[x]]
  BY DEF ExportEnv
<1>2. k \in 1 .. NExp /\ exps[k] \in Exposure
  BY <1>0 DEF IInv, TypeInv, KInLoop, TypeOK
<1>3. PICK n \in 1 .. MaxTokens : toks \in [1 .. n -> Tokens]
  BY <1>2, ExposureParts
<1>4. obj \in {"pod", "svc"}
  BY <1>2, ExposureParts
<1>5. /\ conv = [j \in DOMAIN toks |-> BuildKindPort(toks[j], obj)]
      /\ \A j \in DOMAIN conv : conv[j] # Fail
  BY <1>0 DEF IInv, ConvBuilt
<1>6. /\ ParsePortsOk(conv)
      /\ DOMAIN fwd = DOMAIN conv
      /\ \A j \in DOMAIN conv : fwd[j] \in tunnels /\ fwd[j].remote = conv[j].waitExpose[2]
  BY <1>0 DEF IInv, FwdBuilt
<1>7. DOMAIN conv = 1 .. n /\ DOMAIN fwd = 1 .. n
  BY <1>3, <1>5, <1>6
<1>8. ASSUME NEW j \in 1 .. n
      PROVE  /\ conv[j].inputPort = RemotePart(toks[j])
             /\ conv[j].realPort = RefTarget(toks[j], obj)
             /\ fwd[j].remote = conv[j].realPort
  <2>1. BuildKindPort(toks[j], obj) # Fail /\ conv[j] = BuildKindPort(toks[j], obj)
    BY <1>5, <1>7
  <2>2. toks[j] \in Tokens
    BY <1>3
  <2>3. IsNum(conv[j].waitExpose[2])
    BY <1>6, <1>7 DEF ParsePortsOk
  <2>4. /\ BuildKindPort(toks[j], obj).inputPort = RemotePart(toks[j])
        /\ BuildKindPort(toks[j], obj).realPort = RefTarget(toks[j], obj)
        /\ IsNum(BuildKindPort(toks[j], obj).waitExpose[2]) =>
             BuildKindPort(toks[j], obj).waitExpose[2] = BuildKindPort(toks[j], obj).realPort
    BY <1>4, <2>1, <2>2, BuildOk
  <2>5. fwd[j].remote = conv[j].waitExpose[2]
    BY <1>6, <1>7
  <2>6. QED
    BY <2>1, <2>3, <2>4, <2>5
\* Every key written has the prefix of resource k.
<1>9. \A x \in keys : x[1] = Sanitize(res)
  BY DEF EnvKey
\* Keys of earlier exposures.
<1>10. ASSUME NEW e \in 1 .. k - 1, NEW j \in DOMAIN exps[e].toks
       PROVE  LET key == EnvKey(exps[e].res, RemotePart(exps[e].toks[j]))
              IN  /\ key \in DOMAIN env'
                  /\ \E t \in tunnels' :
                       t.local = env'[key] /\ t.remote = RefTarget(exps[e].toks[j], exps[e].obj)
  <2> DEFINE key == EnvKey(exps[e].res, RemotePart(exps[e].toks[j]))
  <2>1. key \in DOMAIN env
        /\ \E t \in tunnels : t.local = env[key] /\ t.remote = RefTarget(exps[e].toks[j], exps[e].obj)
    BY <1>2, Zenon DEF IInv, Exported, ExportReachesTargetIfFree, ExportReachesTarget
  <2>2. Sanitize(exps[e].res) # Sanitize(res)
    BY <1>2 DEF KeysApart
  <2>3. key \notin keys
    BY <1>9, <2>2 DEF EnvKey
  <2>4. env'[key] = env[key] /\ key \in DOMAIN env'
    BY <1>1, <2>1, <2>3
  <2>5. QED
    BY <1>0, <2>1, <2>4
\* Keys of exposure k.
<1>11. ASSUME NEW j \in DOMAIN toks
       PROVE  LET key == EnvKey(res, RemotePart(toks[j]))
              IN  /\ key \in DOMAIN env'
                  /\ \E t \in tunnels' : t.local = env'[key] /\ t.remote = RefTarget(toks[j], obj)
  <2> DEFINE key == EnvKey(res, RemotePart(toks[j]))
  <2>1. j \in 1 .. n
    BY <1>3
  <2>2. j \in Matches(j)
    BY <1>7, <1>8, <2>1 DEF Matches
  <2>3. key = EnvKey(res, conv[j].inputPort)
    BY <1>8, <2>1
  <2>4. key \in portKeys /\ j \in ps(key)
    <3>1. j \in {m \in DOMAIN conv : Matches(m) # {}}
      BY <1>7, <2>1, <2>2
    <3>2. key \in portKeys
      BY <3>1, <2>3, Zenon
    <3>3. j \in ps(key)
      BY <1>7, <2>1, <2>2, <2>3, Zenon
    <3>4. QED
      BY <3>2, <3>3
  <2>5. env'[key] = lastLocal(key) /\ key \in DOMAIN env'
    BY <1>1, <2>4
  <2>6. \E p \in ps(key) : \A q \in ps(key) : q <= p
    <3>1. ps(key) \subseteq 1 .. n /\ ps(key) # {}
      BY <1>7, <2>4
    <3>2. n \in Nat
      OBVIOUS
    <3>3. QED
      BY <3>1, <3>2, MaxExists, Zenon
  <2> DEFINE last == CHOOSE p \in ps(key) : \A q \in ps(key) : q <= p
  <2>7. last \in ps(key)
    BY <2>6, Zenon
  <2>8. PICK m \in DOMAIN conv : EnvKey(res, conv[m].inputPort) = key /\ last \in Matches(m)
    BY <2>7, Zenon
  <2>9. m \in 1 .. n /\ last \in 1 .. n
    BY <1>7, <2>7
  <2>10. conv[m].inputPort = RemotePart(toks[j])
    BY <2>8 DEF EnvKey
  <2>11. RemotePart(toks[m]) = RemotePart(toks[j])
    BY <1>8, <2>9, <2>10
  <2>12. fwd[last].remote = RefTarget(toks[j], obj)
    <3>1. fwd[last].remote = conv[m].realPort
      BY <2>8 DEF Matches
    <3>2. conv[m].realPort = RefTarget(toks[m], obj)
      BY <1>8, <2>9
    <3>3. RefTarget(toks[m], obj) = RefTarget(toks[j], obj)
      BY <2>11, RefTargetRemote
    <3>4. QED
      BY <3>1, <3>2, <3>3, Zenon
  <2>13. fwd[last] \in tunnels'
    BY <1>0, <1>6, <1>7, <2>9
  <2>14. fwd[last].local = env'[key]
    BY <2>5
  <2>15. QED
    BY <2>5, <2>12, <2>13, <2>14, Zenon
<1>12. SUFFICES ASSUME NEW e \in 1 .. k, NEW j \in DOMAIN exps[e].toks
                PROVE  LET key == EnvKey(exps[e].res, RemotePart(exps[e].toks[j]))
                       IN  /\ key \in DOMAIN env'
                           /\ \E t \in tunnels' :
                                t.local = env'[key]
                                /\ t.remote = RefTarget(exps[e].toks[j], exps[e].obj)
  <2>1. 1 .. k' - 1 = 1 .. k /\ exps' = exps
    BY <1>0, <1>2
  <2>2. QED
    BY <2>1, Zenon DEF ExportReachesTarget
<1>13. CASE e < k
  BY <1>2, <1>10, <1>13
<1>14. CASE e = k
  BY <1>11, <1>14
<1>15. e < k \/ e = k
  BY <1>2
<1>16. QED
  BY <1>13, <1>14, <1>15

\* Building the forwarder of exposure k: its forwards are GetPorts()', and
\* the tunnels it opens are exposure k's.
LEMMA ForwardStep ==
  ASSUME IInv, NewForwarder
  PROVE  FwdBuilt' /\ TunnelsOwned'
<1> DEFINE f == [j \in DOMAIN conv |->
                  [local |-> LocalPort(k, j, conv[j].waitExpose[1]),
                   remote |-> conv[j].waitExpose[2]]]
           up == Listening(conv, f)
<1>0. pc = "new" /\ UNCHANGED <<exps, k, conv>>
  BY DEF NewForwarder
<1>2. LocalsFree' = LocalsFree
  BY <1>0 DEF LocalsFree
\* The tunnels already open are those of earlier exposures.
<1>3. ASSUME NEW t \in tunnels
      PROVE  \E e \in 1 .. NExp : \E j \in DOMAIN exps[e].toks :
               e < k /\ t.local = TokLocal(e, j)
  BY <1>0, Zenon DEF IInv, TunnelsOwned
<1>4. CASE ParsePortsOk(conv) /\ up # {}
  <2>1. pc' = "export" /\ fwd' = f /\ tunnels' = tunnels \cup {f[j] : j \in up}
    BY <1>4, Zenon DEF NewForwarder
  <2>2. /\ DOMAIN conv = DOMAIN exps[k].toks
        /\ \A j \in DOMAIN conv : f[j].local = TokLocal(k, j)
    BY <1>0, FwdLocal
  <2>3. LocalsFree => up = DOMAIN conv
    BY <1>0, <1>4, AllListen
  <2>4. FwdBuilt'
    BY <1>0, <1>2, <1>4, <2>1, <2>3, Zenon DEF FwdBuilt
  <2>5. ASSUME NEW t \in tunnels'
        PROVE  \E e \in 1 .. NExp : \E j \in DOMAIN exps[e].toks :
                 /\ e < k' \/ (e = k' /\ pc' = "export")
                 /\ t.local = TokLocal(e, j)
    <3>1. CASE t \in tunnels
      BY <1>0, <1>3, <3>1
    <3>2. CASE t \notin tunnels
      <4>1. PICK j \in up : t = f[j]
        BY <2>1, <3>2
      <4>2. k \in 1 .. NExp /\ j \in DOMAIN exps[k].toks
        BY <1>0, <2>2, <4>1, Zenon DEF IInv, TypeInv, KInLoop, Listening
      <4>3. QED
        BY <1>0, <2>1, <2>2, <4>1, <4>2, Zenon
    <3>3. QED
      BY <3>1, <3>2
  <2>6. TunnelsOwned'
    BY <1>0, <2>5 DEF TunnelsOwned, TokLocal
  <2>7. QED
    BY <2>4, <2>6
<1>5. CASE ~(ParsePortsOk(conv) /\ up # {})
  <2>1. pc' = "err" /\ UNCHANGED <<fwd, tunnels>>
    BY <1>5, Zenon DEF NewForwarder
  <2>2. TunnelsOwned'
    BY <1>0, <1>3, <2>1 DEF TunnelsOwned, TokLocal
  <2>3. QED
    BY <2>1, <2>2 DEF FwdBuilt
<1>6. QED
  BY <1>4, <1>5, Zenon

LEMMA IInvStep == IInv /\ [Next]_vars => IInv'
<1> SUFFICES ASSUME IInv, [Next]_vars PROVE IInv'
  OBVIOUS
<1>0. TypeInv'
  BY TypeStep, Zenon DEF IInv
<1>a. UNCHANGED exps
  BY DEF Next, vars, BuildPorts, NewForwarder, ExportEnv
<1>b. KeysApart' = KeysApart /\ LocalsFree' = LocalsFree
  BY <1>a DEF KeysApart, LocalsFree
\* An action that leaves k, env and the tunnels alone keeps every export.
<1>c. ASSUME UNCHANGED <<k, env>>, tunnels \subseteq tunnels'
      PROVE  Exported'
  BY <1>a, <1>b, <1>c, Zenon DEF IInv, Exported, ExportReachesTargetIfFree, ExportReachesTarget
<1>1. CASE BuildPorts
  <2>1. UNCHANGED <<k, env, tunnels>> /\ pc = "build" /\ pc' \in {"err", "new"}
    BY <1>1 DEF BuildPorts
  <2>2. ConvBuilt'
    BY <1>1, <1>a, Zenon DEF BuildPorts, ConvBuilt
  <2>3. TunnelsOwned'
    BY <1>a, <2>1 DEF IInv, TunnelsOwned, TokLocal
  <2>4. QED
    BY <1>0, <1>c, <2>1, <2>2, <2>3 DEF IInv, FwdBuilt
<1>2. CASE NewForwarder
  <2>0. /\ pc = "new" /\ UNCHANGED <<k, conv, env>>
        /\ \/ pc' = "export" /\ \E up : tunnels' = tunnels \cup up
           \/ pc' = "err" /\ tunnels' = tunnels
    BY <1>2, Zenon DEF NewForwarder
  <2>1. /\ pc = "new" /\ UNCHANGED <<k, conv, env>> /\ pc' \in {"export", "err"}
        /\ tunnels \subseteq tunnels'
    BY <2>0, Zenon
  <2>2. ConvBuilt'
    BY <1>a, <2>1 DEF IInv, ConvBuilt
  <2>3. FwdBuilt' /\ TunnelsOwned'
    BY <1>2, ForwardStep
  <2>4. QED
    BY <1>0, <1>c, <2>1, <2>2, <2>3 DEF IInv
<1>3. CASE ExportEnv
  <2>1. pc = "export" /\ pc' \in {"build", "ok"} /\ k' = k + 1 /\ UNCHANGED tunnels
    BY <1>3 DEF ExportEnv
  <2>2. Exported'
    BY <1>3, <1>b, ExportStep, Zenon DEF Exported, ExportReachesTargetIfFree
  <2>3. TunnelsOwned'
    <3>1. k \in Nat
      BY DEF IInv, TypeInv, TypeOK
    <3>2. QED
      BY <1>a, <2>1, <3>1 DEF IInv, TunnelsOwned, TokLocal
  <2>4. QED
    BY <1>0, <2>1, <2>2, <2>3 DEF IInv, ConvBuilt, FwdBuilt
<1>4. CASE UNCHANGED vars
  <2>1. ConvBuilt' /\ FwdBuilt'
    BY <1>4, <1>b DEF vars, IInv, ConvBuilt, FwdBuilt
  <2>2. TunnelsOwned'
    BY <1>4 DEF vars, IInv, TunnelsOwned, TokLocal
  <2>3. Exported'
    BY <1>4, <1>c DEF vars
  <2>4. QED
    BY <1>0, <2>1, <2>2, <2>3 DEF IInv
<1>5. QED
  BY <1>1, <1>2, <1>3, <1>4 DEF Next

(* Every exported port reaches its target (exposePerKindService, lines    *)
(* 345-386, with buildKindPort's rewriting of waitExpose and client-go's    *)
(* listening on each requested local port): when no two exposures share a  *)
(* sanitised resource name and no requested local port is held or asked for *)
(* twice, every token of every exposed resource has a <resource>_<port>     *)
(* variable holding the local end of an open tunnel to the container port   *)
(* the token names, whatever the order of ports and the duplicates among    *)
(* them.  The runs resolve_collide and resolve_busy show that neither       *)
(* hypothesis can be dropped.                                               *)
THEOREM ExportReachesTargetHolds == Spec => []ExportReachesTargetIfFree
<1>1. Spec => []IInv
  BY IInvInit, IInvStep, PTL DEF Spec
<1>2. QED
  BY <1>1, PTL DEF IInv, Exported

=============================================================================
