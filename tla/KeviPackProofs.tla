--------------------------- MODULE KeviPackProofs ---------------------------
(***************************************************************************)
(* Proofs about the Packer and its store, for every instance of the       *)
(* constants: the pack command's state is well typed, and, when package   *)
(* names are distinct, every document the pack command finished is found *)
(* intact in the store, whatever deploy and the controller do meanwhile. *)
(***************************************************************************)
EXTENDS KeviDeploy, TLAPS

-----------------------------------------------------------------------------
(* Lemmas about the operators on references. *)

\* The repository paths are the sequences of one and of two segments.
LEMMA RepoOne ==
    ASSUME NEW t \in Seg
    PROVE  <<t>> \in Repo
<1>1. <<t>> \in {<<s>> : s \in Seg}
  BY Zenon
<1> QED
  BY <1>1 DEF Repo

LEMMA RepoTwo ==
    ASSUME NEW s \in Seg, NEW t \in Seg
    PROVE  <<s, t>> \in Repo
<1>1. \E a, b \in Seg : <<s, t>> = <<a, b>>
  OBVIOUS
<1>2. <<s, t>> \in {<<a, b>> : a, b \in Seg}
  BY <1>1
<1> QED
  BY <1>2 DEF Repo

LEMMA RepoCases ==
    ASSUME NEW r \in Repo
    PROVE  \/ \E t \in Seg : r = <<t>>
           \/ \E s, t \in Seg : r = <<s, t>>
BY DEF Repo

\* A package name is a segment, and the reference of a package is a reference.
LEMMA PkgRefType ==
    ASSUME NEW n \in Seg
    PROVE  PkgRef(n) \in Ref
<1>1. KeviSeg \in Seg
  BY RefAssumption DEF KeviSeg, Seg
<1>2. <<KeviSeg, n>> \in Repo
  BY <1>1, RepoTwo
<1> QED
  BY <1>2, RefAssumption DEF PkgRef, Ref

\* "kevi-" + a segment that has room for the prefix is a segment.
LEMMA KeviDashType ==
    ASSUME NEW s \in Seg, s.dash < MaxDash
    PROVE  KeviDash(s) \in Seg
BY RefAssumption DEF KeviDash, Seg

\* Parsing a reference gives a reference that has a host.
LEMMA ParseRefType ==
    ASSUME NEW w \in Ref, NEW d \in Host
    PROVE  /\ ParseRef(w, d) \in Ref
           /\ ParseRef(w, d).host # NoHost
<1> DEFINE split == w.host = NoHost /\ Len(w.repo) = 2 /\ HostLike(w.repo[1])
           h     == IF w.host # NoHost THEN w.host
                    ELSE IF split THEN w.repo[1] ELSE d
           p     == IF split THEN Tail(w.repo) ELSE w.repo
<1>1. h \in Host
  BY DEF Ref, Repo, Host, Seg
<1>2. h # NoHost
  BY <1>1, RefAssumption DEF Host, Seg
<1>3. p \in Repo
  <2>1. CASE split
    <3>1. PICK s \in Seg, t \in Seg : w.repo = <<s, t>>
      BY <2>1, RepoCases DEF Ref
    <3>2. p = <<t>>
      BY <2>1, <3>1
    <3> QED
      BY <3>1, <3>2, RepoOne
  <2>4. CASE ~split
    BY <2>4 DEF Ref
  <2> QED
    BY <2>1, <2>4
<1>4. LibrarySeg \in Seg
  BY RefAssumption DEF LibrarySeg, Seg
<1>5. ParseRef(w, d) = [w EXCEPT !.host = h,
                          !.repo = IF h = DockerHub /\ Len(p) = 1
                                     THEN <<LibrarySeg, p[1]>> ELSE p]
  BY DEF ParseRef
<1> HIDE DEF p
<1>6. (IF h = DockerHub /\ Len(p) = 1 THEN <<LibrarySeg, p[1]>> ELSE p) \in Repo
  <2>1. CASE Len(p) = 1
    <3>1. PICK t \in Seg : p = <<t>>
      <4>1. \A s, u \in Seg : Len(<<s, u>>) # 1
        OBVIOUS
      <4> QED
        BY <1>3, <2>1, <4>1, RepoCases
    <3>2. p[1] = t
      BY <3>1
    <3> QED
      BY <1>3, <1>4, <3>1, <3>2, RepoTwo
  <2> QED
    BY <1>3, <2>1
<1> QED
  BY <1>1, <1>2, <1>5, <1>6 DEF Ref

\* Docker Hub is a host.
LEMMA DockerHubHost ==
    DockerHub \in Host
BY RefAssumption DEF Host, Seg, HostLike

-----------------------------------------------------------------------------
(* Lemmas about the documents, the store's index and what is added to it. *)

\* Document i of the --package files and its packages are well formed.
LEMMA DocFacts ==
    ASSUME NEW i \in 1..Len(Docs)
    PROVE  /\ Docs[i] \in KeviDoc
           /\ Docs[i].name \in Seg
           /\ Docs[i].name.dash < MaxDash
           /\ NPkgs(i) \in Nat
           /\ \A j \in 1..NPkgs(i) : Pkg(i, j) \in KeviPackage
<1>1. Docs[i] \in KeviDoc
  BY PackAssumption
<1>2. Docs[i].packages \in Seq(KeviPackage)
  BY <1>1 DEF KeviDoc
<1> QED
  BY <1>1, <1>2, PackAssumption DEF KeviDoc, NPkgs, Pkg

\* Adding g to the index f: the index keeps its type and grows by DOMAIN g.
LEMMA PutType ==
    ASSUME NEW f, NEW g, NEW S, NEW T,
           f \in [DOMAIN f -> T], g \in [DOMAIN g -> T],
           DOMAIN f \subseteq S, DOMAIN g \subseteq S
    PROVE  /\ DOMAIN Put(f, g) = DOMAIN f \cup DOMAIN g
           /\ Put(f, g) \in [DOMAIN Put(f, g) -> T]
           /\ DOMAIN Put(f, g) \subseteq S
BY DEF Put

\* find, and the pods of a package, return images of its objects.
LEMMA FindType ==
    ASSUME NEW pkg \in KeviPackage
    PROVE  Find(pkg.yaml) \subseteq Ref /\ PodImages(pkg) \subseteq Ref
<1>1. \A k \in DOMAIN pkg.yaml : pkg.yaml[k].images \subseteq Ref
  <2>1. pkg.yaml \in Seq(Object)
    BY DEF KeviPackage
  <2>2. \A k \in DOMAIN pkg.yaml : pkg.yaml[k] \in Object
    BY <2>1
  <2> QED
    BY <2>2 DEF Object
<1> QED
  BY <1>1 DEF Find, PodImages

\* An image reference of a package parses to a reference.
LEMMA ImageRefsType ==
    ASSUME NEW pkg \in KeviPackage
    PROVE  ImageRefs(pkg) \subseteq Ref
BY FindType, ParseRefType, DockerHubHost DEF ImageRefs

\* What Contents adds for a package ContentsOk accepts: artifacts under
\* references.
LEMMA ContentsType ==
    ASSUME NEW i \in 1..Len(Docs), NEW j \in 1..NPkgs(i), ContentsOk(Pkg(i, j))
    PROVE  /\ Contents(i, j) \in [DOMAIN Contents(i, j) -> Artifact]
           /\ DOMAIN Contents(i, j) \subseteq Ref
<1>1. Pkg(i, j) \in KeviPackage
  BY DocFacts
<1>2. Archive(i, j) \in Artifact
  <2>1. Identify(Pkg(i, j)) \in Kinds
    BY DEF ContentsOk, Kinds
  <2> QED
    BY <2>1 DEF Archive, Artifact
<1>3. PkgRef(Pkg(i, j).name) \in Ref
  BY <1>1, PkgRefType DEF KeviPackage
<1>4. \A r \in ImageRefs(Pkg(i, j)) : ImageArtifact(r) \in Artifact
  BY <1>1, ImageRefsType DEF ImageArtifact, Artifact, Kinds
<1>5. ImageRefs(Pkg(i, j)) \subseteq Ref
  BY <1>1, ImageRefsType
<1> DEFINE f == [r \in ImageRefs(Pkg(i, j)) |-> ImageArtifact(r)]
           g == [r \in {PkgRef(Pkg(i, j).name)} |-> Archive(i, j)]
<1>6. f \in [DOMAIN f -> Artifact] /\ DOMAIN f \subseteq Ref
  BY <1>4, <1>5
<1>7. g \in [DOMAIN g -> Artifact] /\ DOMAIN g \subseteq Ref
  BY <1>2, <1>3
<1>8. Contents(i, j) = Put(f, g)
  BY DEF Contents
<1> HIDE DEF f, g
<1>9. Put(f, g) \in [DOMAIN Put(f, g) -> Artifact] /\ DOMAIN Put(f, g) \subseteq Ref
  BY <1>6, <1>7, PutType, Zenon
<1> QED
  BY <1>8, <1>9

\* The package set of document i is added under a reference.
LEMMA SetRefType ==
    ASSUME NEW i \in 1..Len(Docs)
    PROVE  SetRef(Docs[i].name) \in Ref
BY DocFacts, KeviDashType, PkgRefType DEF SetRef

\* Relocating a reference gives a reference.
LEMMA RelocateType ==
    ASSUME NEW r \in Ref, NEW reg \in Host
    PROVE  Relocate(r, reg) \in Ref
<1> DEFINE or  == ParseRef(r, DockerHub)
           w   == [host |-> NoHost, repo |-> or.repo, dig |-> FALSE, id |-> Latest]
<1>1. or \in Ref
  BY ParseRefType, DockerHubHost
<1>2. w \in Ref
  BY <1>1, RefAssumption DEF Ref
<1>3. ParseRef(w, reg) \in Ref
  BY <1>2, ParseRefType
<1> HIDE DEF or, w
<1>4. Relocate(r, reg) = [ParseRef(w, reg) EXCEPT !.dig = or.dig, !.id = or.id]
  BY DEF Relocate, or, w
<1> QED
  BY <1>1, <1>3, <1>4 DEF Ref

\* The deploy target is a registry host.
LEMMA TargetHost ==
    Target \in Host
BY RefAssumption, DeployAssumption DEF Host, Seg, HostLike

-----------------------------------------------------------------------------
(***************************************************************************)
(* Type correctness.  TypeOK alone is not inductive: deploy applies the   *)
(* document an artifact of the store names, so the store must only name   *)
(* documents of the --package files.                                       *)
(***************************************************************************)
StoreDocs ==
    \A r \in DOMAIN store : store[r].kind = "image" \/ store[r].doc \in 1..Len(Docs)

IInv == TypeOK /\ StoreDocs

\* A step that leaves the pack command alone keeps its part of IInv.
LEMMA PackUnchanged ==
    ASSUME PackTypeOK, StoreDocs, UNCHANGED packVars
    PROVE  PackTypeOK' /\ StoreDocs'
BY DEF PackTypeOK, StoreDocs, packVars, NPkgs, Pkg

\* Packing a package keeps the pack command's part of IInv and only adds
\* to the index.
LEMMA PackPackageInv ==
    ASSUME PackTypeOK, StoreDocs, PackPackage
    PROVE  PackTypeOK' /\ StoreDocs' /\ DOMAIN store \subseteq DOMAIN store'
<1>1. pk \in 1..Len(Docs) /\ pp \in 1..NPkgs(pk)
  BY DEF PackTypeOK, PackPackage
<1>2. NPkgs(pk) \in Nat
  BY <1>1, DocFacts
<1>3. /\ Contents(pk, pp) \in [DOMAIN Contents(pk, pp) -> Artifact]
      /\ DOMAIN Contents(pk, pp) \subseteq Ref
  BY <1>1, ContentsType DEF PackPackage
<1>4. /\ DOMAIN store' = DOMAIN store \cup DOMAIN Contents(pk, pp)
      /\ store' \in [DOMAIN store' -> Artifact]
      /\ DOMAIN store' \subseteq Ref
  <2>1. store' = Put(store, Contents(pk, pp))
    BY DEF PackPackage
  <2> QED
    BY <1>3, <2>1, PutType, Zenon DEF PackTypeOK
<1>5. PackTypeOK'
  BY <1>1, <1>2, <1>4 DEF PackTypeOK, PackPackage
<1>6. StoreDocs'
  <2> SUFFICES ASSUME NEW r \in DOMAIN store'
               PROVE  store'[r].kind = "image" \/ store'[r].doc \in 1..Len(Docs)
    BY DEF StoreDocs
  <2>1. CASE r = PkgRef(Pkg(pk, pp).name)
    <3>1. store'[r] = Archive(pk, pp)
      BY <2>1 DEF PackPackage, Put, Contents
    <3> QED
      BY <1>1, <3>1 DEF Archive
  <2>2. CASE r # PkgRef(Pkg(pk, pp).name) /\ r \in ImageRefs(Pkg(pk, pp))
    <3>1. store'[r] = ImageArtifact(r)
      BY <2>2 DEF PackPackage, Put, Contents
    <3> QED
      BY <3>1 DEF ImageArtifact
  <2>3. CASE r # PkgRef(Pkg(pk, pp).name) /\ r \notin ImageRefs(Pkg(pk, pp))
    <3>1. r \in DOMAIN store /\ store'[r] = store[r]
      BY <2>3 DEF PackPackage, Put, Contents
    <3> QED
      BY <3>1 DEF StoreDocs
  <2> QED
    BY <2>1, <2>2, <2>3
<1> QED
  BY <1>4, <1>5, <1>6

\* Adding a package set keeps the pack command's part of IInv and only
\* adds to the index.
LEMMA PackSetInv ==
    ASSUME PackTypeOK, StoreDocs, PackSet
    PROVE  PackTypeOK' /\ StoreDocs' /\ DOMAIN store \subseteq DOMAIN store'
<1>1. pk \in 1..Len(Docs)
  BY DEF PackTypeOK, PackSet
<1>2. SetRef(Docs[pk].name) \in Ref /\ SetArtifact(pk) \in Artifact
  BY <1>1, SetRefType DEF SetArtifact, Artifact, Kinds
<1>3. /\ DOMAIN store' = DOMAIN store \cup {SetRef(Docs[pk].name)}
      /\ store' \in [DOMAIN store' -> Artifact]
      /\ DOMAIN store' \subseteq Ref
  BY <1>2 DEF PackSet, Put, PackTypeOK
<1>4. pk' \in 1..Len(Docs) + 1 /\ pp' = 1
  BY <1>1 DEF PackSet
<1>5. pk' <= Len(Docs) => NPkgs(pk') \in Nat
  BY <1>4, DocFacts
<1>6. PackTypeOK'
  BY <1>3, <1>4, <1>5 DEF PackTypeOK, PackSet
<1>7. StoreDocs'
  BY <1>1 DEF StoreDocs, PackSet, Put, SetArtifact
<1> QED
  BY <1>3, <1>6, <1>7

\* The initial state satisfies IInv.
LEMMA IInvInit == Init => IInv
BY DeployAssumption, PackAssumption, DocFacts DEF Init, PackInit, IInv, TypeOK, PackTypeOK, StoreDocs, Idle

\* Every step of the system keeps IInv.
LEMMA IInvStep == IInv /\ [Next]_vars => IInv'
<1> SUFFICES ASSUME IInv, [Next]_vars PROVE IInv'
  OBVIOUS
<1>1. PackTypeOK /\ StoreDocs /\ TypeOK
  BY DEF IInv, TypeOK
<1>2. CASE PackNext /\ UNCHANGED deployVars
  <2>1. CASE PackPackage
    <3>1. PackTypeOK' /\ StoreDocs' /\ DOMAIN store \subseteq DOMAIN store'
      BY <1>1, <2>1, PackPackageInv
    <3> QED
      BY <1>1, <1>2, <3>1 DEF IInv, TypeOK, deployVars
  <2>2. CASE PackSet
    <3>1. PackTypeOK' /\ StoreDocs' /\ DOMAIN store \subseteq DOMAIN store'
      BY <1>1, <2>2, PackSetInv
    <3> QED
      BY <1>1, <1>2, <3>1 DEF IInv, TypeOK, deployVars
  <2>3. CASE PackFail \/ PackSetFail
    BY <1>1, <1>2, <2>3 DEF PackFail, PackSetFail, IInv, TypeOK, PackTypeOK,
                          StoreDocs, deployVars
  <2> QED
    BY <1>2, <2>1, <2>2, <2>3 DEF PackNext
<1>3. CASE DeployStart
  <2>1. PackTypeOK' /\ StoreDocs'
    BY <1>3, <1>1, PackUnchanged DEF DeployStart, vars, packVars
  <2>2. TypeOK'
    BY <1>3, <1>1, <2>1 DEF DeployStart, TypeOK, IInv, packVars, Idle, NPkgs
  <2> QED
    BY <2>1, <2>2 DEF IInv
<1>16. CASE DeployStartFail
  <2>1. PackTypeOK' /\ StoreDocs'
    BY <1>16, <1>1, PackUnchanged DEF DeployStartFail, vars, packVars
  <2>2. TypeOK'
    BY <1>16, <1>1, <2>1 DEF DeployStartFail, TypeOK, IInv, packVars, Idle, NPkgs
  <2> QED
    BY <2>1, <2>2 DEF IInv
<1>4. CASE CopyOne
  <2>1. PackTypeOK' /\ StoreDocs'
    BY <1>4, <1>1, PackUnchanged DEF CopyOne, vars, packVars
  <2>2. TypeOK'
    <3>1. PICK r \in DOMAIN store \ walked :
               /\ remote' = Put(remote, [x \in {Relocate(r, Target)} |-> store[r]])
               /\ walked' = walked \cup {r}
      BY <1>4 DEF CopyOne
    <3>2. Relocate(r, Target) \in Ref /\ store[r] \in Artifact
      BY <1>1, <3>1, RelocateType, TargetHost DEF TypeOK, PackTypeOK
    <3>3. remote' \in [DOMAIN remote' -> Artifact] /\ DOMAIN remote' \subseteq Ref
      BY <1>1, <3>1, <3>2 DEF Put, TypeOK
    <3> QED
      BY <1>1, <1>4, <2>1, <3>1, <3>3 DEF CopyOne, TypeOK, packVars, Idle, NPkgs
  <2> QED
    BY <2>1, <2>2 DEF IInv
<1>5. CASE CopyFail
  <2>1. PackTypeOK' /\ StoreDocs'
    BY <1>5, <1>1, PackUnchanged DEF CopyFail, vars, packVars
  <2>2. TypeOK'
    BY <1>5, <1>1, <2>1 DEF CopyFail, TypeOK, IInv, packVars, Idle, NPkgs
  <2> QED
    BY <2>1, <2>2 DEF IInv
<1>6. CASE CopyDone
  <2>1. PackTypeOK' /\ StoreDocs'
    BY <1>6, <1>1, PackUnchanged DEF CopyDone, vars, packVars
  <2>2. TypeOK'
    BY <1>6, <1>1, <2>1 DEF CopyDone, TypeOK, IInv, packVars, Idle, NPkgs
  <2> QED
    BY <2>1, <2>2 DEF IInv
<1>7. CASE ScanSkip
  <2>1. PackTypeOK' /\ StoreDocs'
    BY <1>7, <1>1, PackUnchanged DEF ScanSkip, vars, packVars
  <2>2. TypeOK'
    BY <1>7, <1>1, <2>1 DEF ScanSkip, TypeOK, IInv, packVars, Idle, NPkgs
  <2> QED
    BY <2>1, <2>2 DEF IInv
<1>8. CASE ScanApply
  <2>1. PackTypeOK' /\ StoreDocs'
    BY <1>8, <1>1, PackUnchanged DEF ScanApply, vars, packVars
  <2>2. TypeOK'
    BY <1>8, <1>1, <2>1 DEF ScanApply, TypeOK, StoreDocs, packVars, Idle, NPkgs, Watching
  <2> QED
    BY <2>1, <2>2 DEF IInv
<1>9. CASE ScanFail
  <2>1. PackTypeOK' /\ StoreDocs'
    BY <1>9, <1>1, PackUnchanged DEF ScanFail, vars, packVars
  <2>2. TypeOK'
    BY <1>9, <1>1, <2>1 DEF ScanFail, TypeOK, IInv, packVars, Idle, NPkgs
  <2> QED
    BY <2>1, <2>2 DEF IInv
<1>10. CASE ScanDone
  <2>1. PackTypeOK' /\ StoreDocs'
    BY <1>10, <1>1, PackUnchanged DEF ScanDone, vars, packVars
  <2>2. TypeOK'
    BY <1>10, <1>1, <2>1 DEF ScanDone, TypeOK, IInv, packVars, Idle, NPkgs
  <2> QED
    BY <2>1, <2>2 DEF IInv
<1>11. CASE ReconcileStart
  <2>1. PackTypeOK' /\ StoreDocs'
    BY <1>11, <1>1, PackUnchanged DEF ReconcileStart, vars, packVars
  <2>2. TypeOK'
    BY <1>11, <1>1, <2>1, DocFacts DEF ReconcileStart, TypeOK, IInv, packVars, Idle, NPkgs, Watching
  <2> QED
    BY <2>1, <2>2 DEF IInv
<1>12. CASE ReconcileLoad
  <2>1. PackTypeOK' /\ StoreDocs'
    BY <1>12, <1>1, PackUnchanged DEF ReconcileLoad, vars, packVars
  <2>2. TypeOK'
    <3>1. rec.doc \in applied /\ rec.idx \in 1..NPkgs(rec.doc)
      BY <1>1, <1>12 DEF ReconcileLoad, TypeOK
    <3>2. NPkgs(rec.doc) \in Nat
      BY <1>1, <3>1, DocFacts DEF TypeOK
    <3>3. DOMAIN synced' \subseteq UNION {{i} \X (1..NPkgs(i)) : i \in applied}
      BY <1>1, <1>12, <3>1 DEF ReconcileLoad, Put, TypeOK
    <3>4. rec' \in [doc : 0..Len(Docs), idx : Nat]
          /\ rec'.doc \in applied /\ rec'.idx \in 1..NPkgs(rec'.doc) + 1
      BY <1>1, <1>12, <3>1, <3>2 DEF ReconcileLoad, TypeOK
    <3> QED
      BY <1>1, <1>12, <2>1, <3>3, <3>4 DEF ReconcileLoad, TypeOK, packVars
  <2> QED
    BY <2>1, <2>2 DEF IInv
<1>13. CASE ReconcileError
  <2>1. PackTypeOK' /\ StoreDocs'
    BY <1>13, <1>1, PackUnchanged DEF ReconcileError, vars, packVars
  <2>2. TypeOK'
    BY <1>13, <1>1, <2>1 DEF ReconcileError, TypeOK, IInv, packVars, Idle, NPkgs
  <2> QED
    BY <2>1, <2>2 DEF IInv
<1>14. CASE ReconcileDone
  <2>1. PackTypeOK' /\ StoreDocs'
    BY <1>14, <1>1, PackUnchanged DEF ReconcileDone, vars, packVars
  <2>2. TypeOK'
    BY <1>14, <1>1, <2>1 DEF ReconcileDone, TypeOK, IInv, packVars, Idle, NPkgs
  <2> QED
    BY <2>1, <2>2 DEF IInv
<1>15. CASE Terminated
  <2>1. PackTypeOK' /\ StoreDocs'
    BY <1>15, <1>1, PackUnchanged DEF Terminated, vars, packVars
  <2>2. TypeOK'
    BY <1>15, <1>1, <2>1 DEF Terminated, TypeOK, vars, packVars, deployVars
  <2> QED
    BY <2>1, <2>2 DEF IInv
<1>17. CASE ManagerStart
  <2>1. PackTypeOK' /\ StoreDocs'
    BY <1>17, <1>1, PackUnchanged DEF ManagerStart, vars, packVars
  <2>2. TypeOK'
    BY <1>17, <1>1, <2>1 DEF ManagerStart, TypeOK, packVars, Idle, NPkgs
  <2> QED
    BY <2>1, <2>2 DEF IInv
<1>18. CASE InitControllers
  <2>1. PackTypeOK' /\ StoreDocs'
    BY <1>18, <1>1, PackUnchanged DEF InitControllers, vars, packVars
  <2>2. TypeOK'
    BY <1>18, <1>1, <2>1 DEF InitControllers, TypeOK, packVars, Idle, NPkgs
  <2> QED
    BY <2>1, <2>2 DEF IInv
<1>19. CASE ManagerCrash
  <2>1. PackTypeOK' /\ StoreDocs'
    BY <1>19, <1>1, PackUnchanged DEF ManagerCrash, vars, packVars
  <2>2. TypeOK'
    BY <1>19, <1>1, <2>1, DeployAssumption DEF ManagerCrash, TypeOK, packVars, Idle, NPkgs
  <2> QED
    BY <2>1, <2>2 DEF IInv
<1>99. CASE UNCHANGED vars
  BY <1>1, <1>99, PackUnchanged DEF vars, packVars, deployVars, IInv, TypeOK
<1> QED
  BY <1>2, <1>3, <1>4, <1>5, <1>6, <1>7, <1>8, <1>9, <1>10, <1>11, <1>12, <1>13, <1>14, <1>15, <1>16, <1>17, <1>18, <1>19, <1>99
     DEF Next, DeployNext, ControllerNext, ManagerNext

\* IInv holds in every reachable state.
LEMMA IInvInvariant == Spec => []IInv
BY IInvInit, IInvStep, PTL DEF Spec

(***************************************************************************)
(* The state of both commands and of the controller is always well typed *)
(* (Oci.Pack, Oci.CopyAll, deploy's Walk, Reconcile), for every instance: *)
(* IInv is inductive.                                                     *)
(***************************************************************************)
THEOREM TypeCorrect == Spec => []TypeOK
BY IInvInvariant, PTL DEF IInv

\* Distinct package names give distinct references under kevi/.
LEMMA PkgRefInjective ==
    ASSUME NEW a, NEW b, PkgRef(a) = PkgRef(b)
    PROVE  a = b
<1>1. <<KeviSeg, a>> = <<KeviSeg, b>>
  BY DEF PkgRef
<1> QED
  BY <1>1

\* "kevi-" + s determines s.
LEMMA KeviDashInjective ==
    ASSUME NEW a \in Seg, NEW b \in Seg, KeviDash(a) = KeviDash(b)
    PROVE  a = b
BY DEF KeviDash, Seg

\* An image is never stored under kevi/<name>: its parsed reference has a
\* host, a package's reference has none.
LEMMA ImageNotPkgRef ==
    ASSUME NEW pkg \in KeviPackage, NEW r \in ImageRefs(pkg), NEW n
    PROVE  r # PkgRef(n)
<1>1. \E img \in Find(pkg.yaml) : r = ParseRef(img, DockerHub)
  BY DEF ImageRefs
<1>2. r.host # NoHost
  BY <1>1, FindType, ParseRefType, DockerHubHost
<1> QED
  BY <1>2 DEF PkgRef

\* Looking up an entry Put leaves alone.
LEMMA PutOld ==
    ASSUME NEW f, NEW g, NEW r \in DOMAIN f, r \notin DOMAIN g
    PROVE  r \in DOMAIN Put(f, g) /\ Put(f, g)[r] = f[r]
BY DEF Put

\* Looking up an entry Put adds.
LEMMA PutNew ==
    ASSUME NEW f, NEW g, NEW r \in DOMAIN g
    PROVE  r \in DOMAIN Put(f, g) /\ Put(f, g)[r] = g[r]
BY DEF Put

-----------------------------------------------------------------------------
(***************************************************************************)
(* Packed documents stay intact.  PackedKevisIntact is not inductive on   *)
(* its own: when Oci.Pack finishes a document its package set is added,   *)
(* and the archives of its packages must already be in the store.  PackInv *)
(* adds that the packages of the document being packed that Oci.pack has *)
(* returned from are in the store.                                        *)
(***************************************************************************)
CurrentPackagesIntact ==
    packPC = "packing" =>
        \A j \in 1..(pp - 1) :
            /\ PkgRef(Pkg(pk, j).name) \in DOMAIN store
            /\ store[PkgRef(Pkg(pk, j).name)] = Archive(pk, j)

PackInv == PackedKevisIntact /\ CurrentPackagesIntact

\* Packing a package replaces no archive or package set packed before.
LEMMA PackPackageIntact ==
    ASSUME DistinctPackageNames, PackTypeOK, PackInv, PackPackage
    PROVE  PackInv'
<1>1. pk \in 1..Len(Docs) /\ pp \in 1..NPkgs(pk) /\ packPC = "packing"
  BY DEF PackTypeOK, PackPackage
<1>2. Pkg(pk, pp) \in KeviPackage
  BY <1>1, DocFacts
<1> DEFINE C == Contents(pk, pp)
           new == PkgRef(Pkg(pk, pp).name)
<1>3. DOMAIN C = ImageRefs(Pkg(pk, pp)) \cup {new} /\ C[new] = Archive(pk, pp)
  BY DEF Contents, Put
<1>4. store' = Put(store, C) /\ pk' = pk /\ pp' = pp + 1 /\ packPC' = packPC
  BY DEF PackPackage
<1>5. ASSUME NEW i \in 1..Len(Docs), NEW j \in 1..NPkgs(i), i # pk \/ j # pp
      PROVE  PkgRef(Pkg(i, j).name) \notin DOMAIN C
  <2>1. Pkg(i, j).name # Pkg(pk, pp).name
    BY <1>1, <1>5 DEF DistinctPackageNames
  <2>2. PkgRef(Pkg(i, j).name) # new
    BY <2>1, PkgRefInjective
  <2>3. PkgRef(Pkg(i, j).name) \notin ImageRefs(Pkg(pk, pp))
    BY <1>2, ImageNotPkgRef
  <2> QED
    BY <1>3, <2>2, <2>3
<1>6. ASSUME NEW i \in 1..Len(Docs)
      PROVE  SetRef(Docs[i].name) \notin DOMAIN C
  <2>1. KeviDash(Docs[i].name) # Pkg(pk, pp).name
    BY <1>1 DEF DistinctPackageNames
  <2>2. SetRef(Docs[i].name) # new
    BY <2>1, PkgRefInjective DEF SetRef
  <2>3. SetRef(Docs[i].name) \notin ImageRefs(Pkg(pk, pp))
    BY <1>2, ImageNotPkgRef DEF SetRef
  <2> QED
    BY <1>3, <2>2, <2>3
<1> HIDE DEF C, new
<1>7. PackedKevisIntact'
  <2> SUFFICES ASSUME NEW i \in Packed'
               PROVE  /\ SetRef(Docs[i].name) \in DOMAIN store'
                      /\ store'[SetRef(Docs[i].name)] = SetArtifact(i)
                      /\ \A j \in 1..NPkgs(i) :
                            /\ PkgRef(Pkg(i, j).name) \in DOMAIN store'
                            /\ store'[PkgRef(Pkg(i, j).name)] = Archive(i, j)
    BY DEF PackedKevisIntact
  <2>1. i \in Packed /\ i \in 1..Len(Docs) /\ i # pk
    BY <1>4 DEF Packed
  <2>2. /\ SetRef(Docs[i].name) \in DOMAIN store
        /\ store[SetRef(Docs[i].name)] = SetArtifact(i)
        /\ \A j \in 1..NPkgs(i) :
              /\ PkgRef(Pkg(i, j).name) \in DOMAIN store
              /\ store[PkgRef(Pkg(i, j).name)] = Archive(i, j)
    BY <2>1 DEF PackInv, PackedKevisIntact
  <2>3. /\ SetRef(Docs[i].name) \in DOMAIN store'
        /\ store'[SetRef(Docs[i].name)] = SetArtifact(i)
    BY <1>4, <1>6, <2>1, <2>2, PutOld
  <2>4. ASSUME NEW j \in 1..NPkgs(i)
        PROVE  /\ PkgRef(Pkg(i, j).name) \in DOMAIN store'
               /\ store'[PkgRef(Pkg(i, j).name)] = Archive(i, j)
    BY <1>4, <1>5, <2>1, <2>2, PutOld
  <2> QED
    BY <2>3, <2>4
<1>8. CurrentPackagesIntact'
  <2> SUFFICES ASSUME NEW j \in 1..(pp' - 1)
               PROVE  /\ PkgRef(Pkg(pk', j).name) \in DOMAIN store'
                      /\ store'[PkgRef(Pkg(pk', j).name)] = Archive(pk', j)
    BY DEF CurrentPackagesIntact
  <2>1. CASE j = pp
    BY <1>3, <1>4, <2>1, PutNew DEF new
  <2>2. CASE j # pp
    <3>1. j \in 1..(pp - 1) /\ j \in 1..NPkgs(pk)
      BY <1>1, <1>4, <2>2, DocFacts
    <3>2. /\ PkgRef(Pkg(pk, j).name) \in DOMAIN store
          /\ store[PkgRef(Pkg(pk, j).name)] = Archive(pk, j)
      BY <1>1, <3>1 DEF PackInv, CurrentPackagesIntact
    <3> QED
      BY <1>1, <1>4, <1>5, <2>2, <3>1, <3>2, PutOld
  <2> QED
    BY <2>1, <2>2
<1> QED
  BY <1>7, <1>8 DEF PackInv

\* Adding a package set replaces no archive or package set packed before,
\* and completes the document being packed.
LEMMA PackSetIntact ==
    ASSUME DistinctPackageNames, PackTypeOK, PackInv, PackSet
    PROVE  PackInv'
<1>1. /\ pk \in 1..Len(Docs) /\ packPC = "packing"
      /\ NPkgs(pk) \in Nat /\ pp = NPkgs(pk) + 1
  BY DocFacts DEF PackTypeOK, PackSet
<1> DEFINE key == SetRef(Docs[pk].name)
           S   == [r \in {key} |-> SetArtifact(pk)]
<1>2. store' = Put(store, S) /\ pk' = pk + 1 /\ pp' = 1
  BY DEF PackSet
<1>3. DOMAIN S = {key} /\ S[key] = SetArtifact(pk)
  OBVIOUS
<1>4. ASSUME NEW i \in 1..Len(Docs), NEW j \in 1..NPkgs(i)
      PROVE  PkgRef(Pkg(i, j).name) \notin DOMAIN S
  <2>1. Pkg(i, j).name # KeviDash(Docs[pk].name)
    BY <1>1 DEF DistinctPackageNames
  <2> QED
    BY <1>3, <2>1, PkgRefInjective DEF SetRef
<1>5. ASSUME NEW i \in 1..Len(Docs), i # pk
      PROVE  SetRef(Docs[i].name) \notin DOMAIN S
  <2>1. Docs[i].name # Docs[pk].name
    BY <1>1, <1>5 DEF DistinctPackageNames
  <2>2. KeviDash(Docs[i].name) # KeviDash(Docs[pk].name)
    BY <1>1, <2>1, DocFacts, KeviDashInjective
  <2> QED
    BY <1>3, <2>2, PkgRefInjective DEF SetRef
<1> HIDE DEF key, S
<1>6. PackedKevisIntact'
  <2> SUFFICES ASSUME NEW i \in Packed'
               PROVE  /\ SetRef(Docs[i].name) \in DOMAIN store'
                      /\ store'[SetRef(Docs[i].name)] = SetArtifact(i)
                      /\ \A j \in 1..NPkgs(i) :
                            /\ PkgRef(Pkg(i, j).name) \in DOMAIN store'
                            /\ store'[PkgRef(Pkg(i, j).name)] = Archive(i, j)
    BY DEF PackedKevisIntact
  <2>1. i \in 1..Len(Docs) /\ i <= pk
    BY <1>1, <1>2 DEF Packed
  <2>2. ASSUME NEW j \in 1..NPkgs(i)
        PROVE  /\ PkgRef(Pkg(i, j).name) \in DOMAIN store
               /\ store[PkgRef(Pkg(i, j).name)] = Archive(i, j)
    <3>1. CASE i = pk
      BY <1>1, <3>1 DEF PackInv, CurrentPackagesIntact
    <3>2. CASE i # pk
      <4>1. i \in Packed
        BY <1>1, <2>1, <3>2 DEF Packed
      <4> QED
        BY <4>1 DEF PackInv, PackedKevisIntact
    <3> QED
      BY <3>1, <3>2
  <2>3. ASSUME NEW j \in 1..NPkgs(i)
        PROVE  /\ PkgRef(Pkg(i, j).name) \in DOMAIN store'
               /\ store'[PkgRef(Pkg(i, j).name)] = Archive(i, j)
    BY <1>2, <1>4, <2>1, <2>2, PutOld
  <2>4. CASE i = pk
    BY <1>2, <1>3, <2>3, <2>4, PutNew DEF key
  <2>5. CASE i # pk
    <3>1. i \in Packed
      BY <1>1, <2>1, <2>5 DEF Packed
    <3>2. /\ SetRef(Docs[i].name) \in DOMAIN store
          /\ store[SetRef(Docs[i].name)] = SetArtifact(i)
      BY <3>1 DEF PackInv, PackedKevisIntact
    <3> QED
      BY <1>2, <1>5, <2>1, <2>3, <2>5, <3>2, PutOld
  <2> QED
    BY <2>4, <2>5
<1>7. CurrentPackagesIntact'
  BY <1>2 DEF CurrentPackagesIntact
<1> QED
  BY <1>6, <1>7 DEF PackInv

\* deploy, the manager and the controller never write the local store.
LEMMA OthersLeavePack ==
    ASSUME DeployNext \/ ControllerNext \/ ManagerNext \/ Terminated
    PROVE  UNCHANGED packVars
BY DEF DeployNext, ControllerNext, ManagerNext, ManagerStart, InitControllers, ManagerCrash, DeployStart, DeployStartFail, CopyOne, CopyFail, CopyDone, ScanSkip, ScanApply, ScanFail, ScanDone, ReconcileStart, ReconcileLoad, ReconcileError, ReconcileDone, Terminated, vars, packVars

\* The initial state satisfies PackInv: nothing is packed yet.
LEMMA PackInvInit == Init => PackInv
BY DEF Init, PackInit, PackInv, PackedKevisIntact, Packed, CurrentPackagesIntact

\* Every step keeps PackInv, when package names are distinct.
LEMMA PackInvStep ==
    ASSUME DistinctPackageNames
    PROVE  IInv /\ PackInv /\ [Next]_vars => PackInv'
<1> SUFFICES ASSUME IInv, PackInv, [Next]_vars PROVE PackInv'
  OBVIOUS
<1>1. PackTypeOK
  BY DEF IInv, TypeOK
<1>2. CASE PackPackage
  BY <1>1, <1>2, PackPackageIntact
<1>3. CASE PackSet
  BY <1>1, <1>3, PackSetIntact
<1>4. CASE PackFail \/ PackSetFail
  BY <1>4 DEF PackFail, PackSetFail, PackInv, PackedKevisIntact, Packed,
              CurrentPackagesIntact
<1>5. CASE UNCHANGED packVars
  BY <1>5 DEF packVars, PackInv, PackedKevisIntact, Packed, CurrentPackagesIntact
<1> QED
  BY <1>2, <1>3, <1>4, <1>5, OthersLeavePack DEF Next, PackNext, vars

(***************************************************************************)
(* When no two packages share a name and no package is named like a       *)
(* package set, every document "kevi pack" finished stays intact in the  *)
(* store: Oci.pack and Oci.Pack never overwrite an archive or a package  *)
(* set added before (the store is keyed by kevi/<name> and               *)
(* kevi/kevi-<name>, images by references that carry a registry host).   *)
(***************************************************************************)
THEOREM PackedIntact ==
    ASSUME DistinctPackageNames
    PROVE  Spec => []PackedKevisIntact
<1>1. Spec => []IInv
  BY IInvInvariant
<1>2. Init => PackInv
  BY PackInvInit
<1>3. IInv /\ PackInv /\ [Next]_vars => PackInv'
  BY PackInvStep
<1>4. PackInv => PackedKevisIntact
  BY DEF PackInv
<1> QED
  BY <1>1, <1>2, <1>3, <1>4, PTL DEF Spec
=============================================================================
