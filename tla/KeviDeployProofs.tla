--------------------------- MODULE KeviDeployProofs --------------------------
(***************************************************************************)
(* The controller deploys what was packed, for every instance of the      *)
(* constants whose package names are distinct: what Reconcile syncs for  *)
(* package j of a Kevi i is the archive "kevi pack" built from that       *)
(* package (DeployedIsPacked).                                            *)
(***************************************************************************)
EXTENDS KeviPackProofs

-----------------------------------------------------------------------------
(* Lemmas about Relocate, Locate and ParseRef. *)

\* A host is never NoHost, and "kevi" and "library" are no hosts.
LEMMA HostFacts ==
    ASSUME NEW h \in Host
    PROVE  /\ h # NoHost
           /\ ~HostLike(KeviSeg)
           /\ KeviSeg # LibrarySeg
BY RefAssumption DEF Host, Seg, HostLike, KeviSeg, LibrarySeg

\* Two references with the same parts are the same reference.
LEMMA RefExt ==
    ASSUME NEW f \in Ref, NEW g \in Ref,
           f.host = g.host, f.repo = g.repo, f.dig = g.dig, f.id = g.id
    PROVE  f = g
BY DEF Ref

(***************************************************************************)
(* pack.Relocate of the archive reference kevi/<n> to a registry h is the *)
(* reference registry.Locate fetches package n from: h/kevi/<n>:latest.  *)
(***************************************************************************)
LEMMA RelocatePkgRef ==
    ASSUME NEW n \in Seg, NEW h \in Host
    PROVE  /\ Relocate(PkgRef(n), h) = Locate(n, h)
           /\ Locate(n, h).host = h
           /\ Locate(n, h).repo = <<KeviSeg, n>>
<1> DEFINE o == ParseRef(PkgRef(n), DockerHub)
           v == [host |-> NoHost, repo |-> o.repo, dig |-> FALSE, id |-> Latest]
           w == [host |-> h, repo |-> <<KeviSeg, n>>, dig |-> FALSE, id |-> Latest]
<1>1. h # NoHost /\ DockerHub # NoHost /\ ~HostLike(KeviSeg)
  BY HostFacts, DockerHubHost
<1>2. <<KeviSeg, n>> \in Repo
  BY RepoTwo, RefAssumption DEF KeviSeg, Seg
<1>3. PkgRef(n) \in Ref /\ w \in Ref
  BY <1>2, PkgRefType, RefAssumption DEF Ref
<1>4. o.repo = <<KeviSeg, n>> /\ o.dig = FALSE /\ o.id = Latest
  BY <1>1 DEF ParseRef, PkgRef
<1>5. v \in Ref
  BY <1>2, <1>4, RefAssumption DEF Ref
<1>6. ParseRef(v, h) \in Ref /\ ParseRef(v, h).host = h /\ ParseRef(v, h).repo = <<KeviSeg, n>>
  <2>1. ParseRef(v, h) \in Ref
    BY <1>5, ParseRefType
  <2>2. v.host = NoHost /\ v.repo = <<KeviSeg, n>> /\ ~HostLike(v.repo[1])
    BY <1>1, <1>4
  <2>3. ParseRef(v, h).host = h /\ ParseRef(v, h).repo = <<KeviSeg, n>>
    <3> HIDE DEF v
    <3> QED
      BY <1>1, <2>2 DEF ParseRef
  <2> QED
    BY <2>1, <2>3
<1>7. /\ Relocate(PkgRef(n), h).host = h
      /\ Relocate(PkgRef(n), h).repo = <<KeviSeg, n>>
      /\ Relocate(PkgRef(n), h).dig = FALSE
      /\ Relocate(PkgRef(n), h).id = Latest
  <2> HIDE DEF ParseRef
  <2>1. Relocate(PkgRef(n), h) = [ParseRef(v, h) EXCEPT !.dig = o.dig, !.id = o.id]
    BY DEF Relocate
  <2> HIDE DEF o, v
  <2> QED
    BY <1>4, <1>6, <2>1
<1>8. /\ Locate(n, h).host = h
      /\ Locate(n, h).repo = <<KeviSeg, n>>
      /\ Locate(n, h).dig = FALSE
      /\ Locate(n, h).id = Latest
  BY <1>1, <1>3 DEF Locate, ParseRef
<1>9. Relocate(PkgRef(n), h) \in Ref /\ Locate(n, h) \in Ref
  BY <1>3, RelocateType, ParseRefType DEF Locate
<1> QED
  BY <1>7, <1>8, <1>9, RefExt

\* A repository path has one or two segments.
LEMMA RepoLen ==
    ASSUME NEW r \in Repo
    PROVE  Len(r) \in {1, 2}
BY RepoCases

(***************************************************************************)
(* name.ParseReference with Docker Hub as the default registry: a name on *)
(* Docker Hub always has two path segments ("library/" is added to one). *)
(***************************************************************************)
LEMMA ParseRefHubRepo ==
    ASSUME NEW w \in Ref
    PROVE  ParseRef(w, DockerHub).host = DockerHub => Len(ParseRef(w, DockerHub).repo) = 2
<1> DEFINE split == w.host = NoHost /\ Len(w.repo) = 2 /\ HostLike(w.repo[1])
           h     == IF w.host # NoHost THEN w.host
                    ELSE IF split THEN w.repo[1] ELSE DockerHub
           p     == IF split THEN Tail(w.repo) ELSE w.repo
<1>1. Len(p) \in {1, 2}
  <2>1. CASE split
    <3>1. PICK s \in Seg, t \in Seg : w.repo = <<s, t>>
      BY <2>1, RepoCases DEF Ref
    <3> QED
      BY <2>1, <3>1
  <2>2. CASE ~split
    BY <2>2, RepoLen DEF Ref
  <2> QED
    BY <2>1, <2>2
<1>2. /\ ParseRef(w, DockerHub).host = h
      /\ ParseRef(w, DockerHub).repo = IF h = DockerHub /\ Len(p) = 1
                                         THEN <<LibrarySeg, p[1]>> ELSE p
  BY DEF ParseRef, Ref
<1> HIDE DEF p, h
<1> QED
  BY <1>1, <1>2

\* Parsing a name that ParseRef already produced again changes no path.
LEMMA ParseRefIdem ==
    ASSUME NEW w \in Ref, NEW d \in Host
    PROVE  ParseRef(ParseRef(w, DockerHub), d).repo = ParseRef(w, DockerHub).repo
<1> DEFINE k == ParseRef(w, DockerHub)
<1>1. k \in Ref /\ k.host # NoHost
  BY ParseRefType, DockerHubHost
<1>2. k.host = DockerHub => Len(k.repo) = 2
  BY ParseRefHubRepo
<1> HIDE DEF k
<1>3. k \in [host : Host \cup {NoHost}, repo : Repo, dig : BOOLEAN, id : Ids]
  BY <1>1 DEF Ref
<1>4. ParseRef(k, d).repo = IF k.host = DockerHub /\ Len(k.repo) = 1
                              THEN <<LibrarySeg, k.repo[1]>> ELSE k.repo
  BY <1>1, <1>3 DEF ParseRef
<1> QED
  BY <1>2, <1>4 DEF k

(***************************************************************************)
(* pack.Relocate keeps the repository path apart from a split of a dotted *)
(* first segment: a reference it relocates into kevi/<n> had the path     *)
(* kevi/<n> already.                                                      *)
(***************************************************************************)
LEMMA RelocateKeviRepo ==
    ASSUME NEW w \in Ref, NEW h \in Host, NEW n,
           Relocate(w, h).repo = <<KeviSeg, n>>
    PROVE  ParseRef(w, DockerHub).repo = <<KeviSeg, n>>
<1> DEFINE p == ParseRef(w, DockerHub).repo
           v == [host |-> NoHost, repo |-> p, dig |-> FALSE, id |-> Latest]
           split == Len(p) = 2 /\ HostLike(p[1])
           h2 == IF split THEN p[1] ELSE h
           p2 == IF split THEN Tail(p) ELSE p
<1> SUFFICES p = <<KeviSeg, n>>
  OBVIOUS
<1>1. p \in Repo
  BY ParseRefType, DockerHubHost DEF Ref
<1>2. v \in Ref /\ ParseRef(v, h) \in Ref
  <2>1. v \in Ref
    BY <1>1, RefAssumption DEF Ref
  <2> QED
    BY <2>1, ParseRefType
<1>3. Relocate(w, h).repo = ParseRef(v, h).repo
  <2> HIDE DEF ParseRef
  <2>1. Relocate(w, h) = [ParseRef(v, h) EXCEPT !.dig = ParseRef(w, DockerHub).dig,
                                                !.id = ParseRef(w, DockerHub).id]
    BY DEF Relocate
  <2> HIDE DEF v
  <2> QED
    BY <1>2, <2>1
<1>4. ParseRef(v, h).repo = IF h2 = DockerHub /\ Len(p2) = 1
                              THEN <<LibrarySeg, p2[1]>> ELSE p2
  <2>1. v \in [host : Host \cup {NoHost}, repo : Repo, dig : BOOLEAN, id : Ids]
        /\ v.host = NoHost /\ v.repo = p
    BY <1>2 DEF Ref
  <2> HIDE DEF v, p
  <2> QED
    BY <2>1 DEF ParseRef
<1>5. KeviSeg # LibrarySeg
  BY HostFacts
<1> HIDE DEF p, v, h2
<1>6. CASE split
  <2> HIDE DEF ParseRef
  <2>1. PICK s \in Seg, t \in Seg : p = <<s, t>>
    BY <1>1, <1>6, RepoCases
  <2>2. p2 = <<t>>
    BY <1>6, <2>1
  <2>3. ParseRef(v, h).repo = <<KeviSeg, n>>
    BY <1>3
  <2>4. <<LibrarySeg, t>> # <<KeviSeg, n>> /\ <<t>> # <<KeviSeg, n>>
    BY <1>5
  <2> HIDE DEF p2, split
  <2>5. ParseRef(v, h).repo \in {<<LibrarySeg, t>>, <<t>>}
    <3>1. Len(<<t>>) = 1 /\ <<t>>[1] = t
      OBVIOUS
    <3> QED
      BY <1>4, <2>2, <3>1
  <2> QED
    BY <2>3, <2>4, <2>5
<1>7. CASE ~split
  <2> HIDE DEF ParseRef
  <2> QED
    BY <1>3, <1>4, <1>5, <1>7
<1> QED
  BY <1>6, <1>7

\* The reference of a package archive parses to the path kevi/<n>.
LEMMA ParseRefPkgRef ==
    ASSUME NEW n \in Seg
    PROVE  ParseRef(PkgRef(n), DockerHub).repo = <<KeviSeg, n>>
BY HostFacts, DockerHubHost DEF ParseRef, PkgRef

-----------------------------------------------------------------------------
(***************************************************************************)
(* Oci.CopyAll never copies one archive or package set of the store onto  *)
(* the archive of another package in the target registry: both live      *)
(* under kevi/, and Relocate keeps the path.                              *)
(***************************************************************************)
LEMMA NoCollision ==
    ASSUME NEW i \in 1..Len(Docs), NEW j \in 1..NPkgs(i),
           NEW r \in ArchiveRefs \cup SetKeys,
           r # PkgRef(Pkg(i, j).name)
    PROVE  Relocate(r, Target) # Relocate(PkgRef(Pkg(i, j).name), Target)
<1> DEFINE n == Pkg(i, j).name
<1>1. n \in Seg
  BY DocFacts DEF KeviPackage
<1>2. PICK m \in Seg : r = PkgRef(m)
  <2>1. CASE r \in ArchiveRefs
    BY <2>1, DocFacts DEF ArchiveRefs, KeviPackage
  <2>2. CASE r \in SetKeys
    BY <2>2, DocFacts, KeviDashType DEF SetKeys, SetRef
  <2> QED
    BY <2>1, <2>2
<1>3. /\ Relocate(r, Target).repo = <<KeviSeg, m>>
      /\ Relocate(PkgRef(n), Target).repo = <<KeviSeg, n>>
  BY <1>1, <1>2, TargetHost, RelocatePkgRef
<1>4. m # n
  BY <1>2
<1> QED
  BY <1>3, <1>4

(***************************************************************************)
(* Only an image can land on the archive of package n, and only one whose *)
(* path is kevi/<n> (the run kevi_namespace): Relocate keeps the path of  *)
(* an image parsed on Docker Hub.                                         *)
(***************************************************************************)
LEMMA ImageOnArchive ==
    ASSUME NEW i \in 1..Len(Docs), NEW j \in 1..NPkgs(i), NEW r \in ImageKeys,
           Relocate(r, Target) = Relocate(PkgRef(Pkg(i, j).name), Target)
    PROVE  r.repo = <<KeviSeg, Pkg(i, j).name>>
<1> DEFINE n == Pkg(i, j).name
<1>1. Relocate(r, Target).repo = <<KeviSeg, n>>
  BY DocFacts, TargetHost, RelocatePkgRef DEF KeviPackage
<1>2. PICK i2 \in 1..Len(Docs) : \E j2 \in 1..NPkgs(i2) : r \in ImageRefs(Pkg(i2, j2))
  BY DEF ImageKeys
<1>3. PICK j2 \in 1..NPkgs(i2) : r \in ImageRefs(Pkg(i2, j2))
  BY <1>2
<1>4. PICK img \in Find(Pkg(i2, j2).yaml) : r = ParseRef(img, DockerHub)
  BY <1>3 DEF ImageRefs
<1>5. img \in Ref /\ r \in Ref
  BY <1>3, <1>4, DocFacts, ImageRefsType, FindType
<1>6. ParseRef(r, DockerHub).repo = <<KeviSeg, n>>
  BY <1>1, <1>5, TargetHost, RelocateKeviRepo
<1>7. ParseRef(r, DockerHub).repo = r.repo
  BY <1>4, <1>5, DockerHubHost, ParseRefIdem
<1> QED
  BY <1>6, <1>7

-----------------------------------------------------------------------------
(***************************************************************************)
(* DeployedIsPacked is not inductive.  Reconcile reads the archive of a   *)
(* package from the target registry, so the registry must hold, under the *)
(* relocated reference of every archive of the store, that archive, or an *)
(* image CopyAll relocated onto it, which Load refuses for its media      *)
(* type; and deploy applies only package sets of the store, so those must *)
(* be of packed documents, whose archives PackedKevisIntact keeps there.  *)
(***************************************************************************)

\* Every package set of the store is of a document Oci.Pack finished.
SetsPacked == \A r \in DOMAIN store : store[r].kind = "set" => store[r].doc \in Packed

\* Every reference of the store is an archive, a package set, or holds an image.
StoreKinds == \A r \in DOMAIN store : r \in ArchiveRefs \cup SetKeys \/ store[r].kind = "image"

\* The target registry holds the store's artifact at r, relocated, or an image.
RemoteHolds(r) ==
    /\ Relocate(r, Target) \in DOMAIN remote
    /\ \/ remote[Relocate(r, Target)] = store[r]
       \/ remote[Relocate(r, Target)].kind = "image"

\* CopyAll has copied the package archives among W.
Copied(W) == \A r \in W \cap ArchiveRefs : RemoteHolds(r)

DInv ==
    /\ dPC # "wait" => packPC \in {"done", "failed"}
    /\ dPC = "wait" => walked = {}
    /\ dPC = "copy" => Copied(walked)
    /\ dPC \in {"scan", "done"} \/ applied # {} => Copied(DOMAIN store)
    /\ applied # {} => dPC \in {"scan", "done", "failed"}
    /\ applied \subseteq Packed
    /\ SetsPacked
    /\ StoreKinds
    /\ DeployedIsPacked


\* The initial state satisfies DInv: nothing is packed, copied or synced.
LEMMA DInvInit == Init => DInv
BY DEF Init, PackInit, DInv, Copied, SetsPacked, StoreKinds, DeployedIsPacked

\* Steps of the controller and the manager, which leave the store, the
\* registry, deploy and what was synced alone, keep DInv.
LEMMA DInvUnchanged ==
    ASSUME DInv, UNCHANGED <<packVars, remote, dPC, walked, applied, synced>>
    PROVE  DInv'
BY DEF DInv, packVars, Packed, Copied, RemoteHolds, SetsPacked, StoreKinds,
       DeployedIsPacked

\* While deploy waits, nothing is copied or applied yet.
LEMMA WaitFacts ==
    ASSUME DInv, dPC = "wait"
    PROVE  walked = {} /\ applied = {}
BY DEF DInv

(***************************************************************************)
(* Oci.pack and Oci.Pack only run before deploy starts, and write only    *)
(* archives, images and package sets of documents they then finish.       *)
(***************************************************************************)
LEMMA DInvPack ==
    ASSUME IInv, DInv, PackNext, UNCHANGED deployVars
    PROVE  DInv'
<1>1. packPC = "packing" /\ dPC = "wait"
  BY DEF PackNext, PackPackage, PackFail, PackSet, PackSetFail, DInv
<1>2. walked = {} /\ applied = {} /\ UNCHANGED <<dPC, walked, applied, synced>>
  BY <1>1, WaitFacts DEF deployVars
<1>3. pk \in 1..Len(Docs) /\ Packed \subseteq Packed'
  BY <1>1 DEF IInv, TypeOK, PackTypeOK, PackNext, PackPackage, PackFail, PackSet,
              PackSetFail, Packed
<1>4. SetsPacked' /\ StoreKinds'
  <2>1. CASE PackPackage
    <3>1. pp \in 1..NPkgs(pk) /\ Pkg(pk, pp) \in KeviPackage
      BY <1>3, <2>1, DocFacts DEF IInv, TypeOK, PackTypeOK, PackPackage
    <3>2. store' = Put(store, Contents(pk, pp)) /\ pk' = pk
      BY <2>1 DEF PackPackage
    <3>3. DOMAIN Contents(pk, pp) = ImageRefs(Pkg(pk, pp)) \cup {PkgRef(Pkg(pk, pp).name)}
      BY DEF Contents, Put
    <3>4. PkgRef(Pkg(pk, pp).name) \in ArchiveRefs
      BY <1>3, <3>1 DEF ArchiveRefs
    <3>5. \A r \in DOMAIN Contents(pk, pp) :
             /\ Contents(pk, pp)[r].kind # "set"
             /\ r # PkgRef(Pkg(pk, pp).name) => Contents(pk, pp)[r].kind = "image"
      BY DEF Contents, Put, Archive, ImageArtifact, Identify
    <3>6. StoreKinds'
      BY <3>2, <3>3, <3>4, <3>5 DEF DInv, StoreKinds, Put
    <3>7. SetsPacked'
      BY <3>2, <3>5 DEF DInv, SetsPacked, Put, Packed
    <3> QED
      BY <3>6, <3>7
  <2>2. CASE PackSet
    <3>1. store' = Put(store, [r \in {SetRef(Docs[pk].name)} |-> SetArtifact(pk)])
          /\ pk' = pk + 1
      BY <2>2 DEF PackSet
    <3>2. SetRef(Docs[pk].name) \in SetKeys
      BY <1>3 DEF SetKeys
    <3>3. pk \in Packed'
      BY <1>3, <3>1 DEF Packed
    <3>4. StoreKinds'
      BY <3>1, <3>2 DEF DInv, StoreKinds, Put
    <3>5. SetsPacked'
      BY <1>3, <3>1, <3>3 DEF DInv, SetsPacked, Put, SetArtifact
    <3> QED
      BY <3>4, <3>5
  <2>3. CASE PackFail \/ PackSetFail
    BY <2>3 DEF PackFail, PackSetFail, DInv, SetsPacked, StoreKinds, Packed
  <2> QED
    BY <2>1, <2>2, <2>3 DEF PackNext
<1>5. applied' = {}
  BY <1>2
<1>6. DeployedIsPacked'
  BY <1>2 DEF DInv, DeployedIsPacked
<1>7. UNCHANGED remote
  BY DEF deployVars
<1> QED
  BY <1>1, <1>2, <1>4, <1>5, <1>6, <1>7 DEF DInv


\* A step that leaves the store, the registry and what was synced alone
\* keeps the parts of DInv that speak only of them.
LEMMA StoreFrozen ==
    ASSUME DInv, UNCHANGED <<packVars, remote, synced>>
    PROVE  /\ SetsPacked' /\ StoreKinds' /\ DeployedIsPacked'
           /\ Packed' = Packed /\ packPC' = packPC
           /\ Copied(DOMAIN store) => Copied(DOMAIN store)'
BY DEF DInv, packVars, Packed, SetsPacked, StoreKinds, DeployedIsPacked, Copied,
       RemoteHolds

(***************************************************************************)
(* One visit of CopyAll's Walk copies the artifact of r to its relocated  *)
(* reference; what it overwrites of an archive copied before is at most  *)
(* an image onto it (NoCollision).                                        *)
(***************************************************************************)
LEMMA DInvCopyOne ==
    ASSUME IInv, DInv, CopyOne
    PROVE  DInv'
<1>1. dPC = "copy" /\ applied = {}
  BY DEF CopyOne, DInv
<1>2. PICK r \in DOMAIN store \ walked :
           /\ remote' = Put(remote, [x \in {Relocate(r, Target)} |-> store[r]])
           /\ walked' = walked \cup {r}
  BY DEF CopyOne
<1>3. UNCHANGED <<packVars, dPC, applied, synced>>
  BY DEF CopyOne
<1>4. r \in ArchiveRefs \cup SetKeys \/ store[r].kind = "image"
  BY <1>2 DEF DInv, StoreKinds
<1>5. Copied(walked)'
  <2> SUFFICES ASSUME NEW q \in walked' \cap ArchiveRefs
               PROVE  RemoteHolds(q)'
    BY DEF Copied
  <2>1. CASE q = r
    BY <1>2, <1>3, <2>1, PutNew DEF RemoteHolds, packVars
  <2>2. CASE q # r
    <3>1. q \in walked /\ RemoteHolds(q)
      BY <1>1, <1>2, <2>2 DEF DInv, Copied
    <3>2. PICK i \in 1..Len(Docs) : \E j \in 1..NPkgs(i) : q = PkgRef(Pkg(i, j).name)
      BY DEF ArchiveRefs
    <3>3. PICK j \in 1..NPkgs(i) : q = PkgRef(Pkg(i, j).name)
      BY <3>2
    <3>4. CASE Relocate(r, Target) # Relocate(q, Target)
      BY <1>2, <1>3, <3>1, <3>4, PutOld DEF RemoteHolds, packVars
    <3>5. CASE Relocate(r, Target) = Relocate(q, Target)
      <4>1. store[r].kind = "image"
        BY <1>4, <2>2, <3>3, <3>5, NoCollision
      <4> QED
        BY <1>2, <3>1, <3>5, <4>1, PutNew DEF RemoteHolds
    <3> QED
      BY <3>4, <3>5
  <2> QED
    BY <2>1, <2>2
<1>6. SetsPacked' /\ StoreKinds' /\ DeployedIsPacked' /\ packPC' = packPC
  BY <1>3 DEF DInv, packVars, Packed, SetsPacked, StoreKinds, DeployedIsPacked
<1> QED
  BY <1>1, <1>3, <1>5, <1>6 DEF DInv

\* The other steps of deploy keep DInv: CopyDone finds every artifact
\* copied, and ScanApply applies only package sets of packed documents.
LEMMA DInvDeploy ==
    ASSUME IInv, DInv,
           \/ DeployStart \/ DeployStartFail \/ CopyFail \/ CopyDone
           \/ ScanSkip \/ ScanApply \/ ScanFail \/ ScanDone
    PROVE  DInv'
<1>1. UNCHANGED <<packVars, remote, synced>>
  BY DEF DeployStart, DeployStartFail, CopyFail, CopyDone, ScanSkip, ScanApply,
         ScanFail, ScanDone
<1>2. /\ SetsPacked' /\ StoreKinds' /\ DeployedIsPacked'
      /\ Packed' = Packed /\ packPC' = packPC
      /\ Copied(DOMAIN store) => Copied(DOMAIN store)'
  BY <1>1, StoreFrozen
<1>3. CASE DeployStart \/ DeployStartFail
  <2>1. walked = {} /\ applied = {} /\ UNCHANGED <<walked, applied>>
    BY <1>3, WaitFacts DEF DeployStart, DeployStartFail
  <2>2. packPC \in {"done", "failed"} /\ dPC' \in {"copy", "failed"}
    BY <1>3 DEF DeployStart, DeployStartFail
  <2>3. Copied(walked)'
    BY <2>1 DEF Copied
  <2> QED
    BY <1>2, <2>1, <2>2, <2>3 DEF DInv
<1>4. CASE CopyFail \/ CopyDone
  <2>1. dPC = "copy" /\ applied = {} /\ UNCHANGED applied
    BY <1>4 DEF CopyFail, CopyDone, DInv
  <2>2. CASE CopyFail
    <3>1. dPC' = "failed"
      BY <2>2 DEF CopyFail
    <3> QED
      BY <1>2, <2>1, <3>1 DEF DInv
  <2>3. CASE CopyDone
    <3>1. dPC' = "scan" /\ walked = DOMAIN store
      BY <2>3 DEF CopyDone
    <3>2. Copied(DOMAIN store)
      BY <2>1, <3>1 DEF DInv
    <3> QED
      BY <1>2, <2>1, <3>1, <3>2 DEF DInv
  <2> QED
    BY <1>4, <2>2, <2>3
<1>5. CASE ScanSkip \/ ScanFail \/ ScanDone
  <2>1. dPC = "scan" /\ Copied(DOMAIN store) /\ UNCHANGED applied
        /\ dPC' \in {"scan", "done", "failed"}
    BY <1>5 DEF ScanSkip, ScanFail, ScanDone, DInv
  <2> QED
    BY <1>2, <2>1 DEF DInv
<1>6. CASE ScanApply
  <2>1. PICK r \in DOMAIN store \ walked :
             /\ store[r].kind = "set"
             /\ applied' = applied \cup {store[r].doc}
    BY <1>6 DEF ScanApply
  <2>2. dPC = "scan" /\ Copied(DOMAIN store) /\ dPC' = "scan"
    BY <1>6 DEF ScanApply, DInv
  <2>3. store[r].doc \in Packed
    BY <2>1 DEF DInv, SetsPacked
  <2> QED
    BY <1>2, <2>1, <2>2, <2>3 DEF DInv
<1> QED
  BY <1>3, <1>4, <1>5, <1>6

(***************************************************************************)
(* Reconcile syncs package k of Kevi d from Locate(name, target): d was   *)
(* applied, so it is packed and its archive is in the store under         *)
(* kevi/<name> (PackedKevisIntact), and the whole store was copied, so     *)
(* the registry holds that archive under Relocate(kevi/<name>, target),   *)
(* which is Locate(name, target) (RelocatePkgRef).                        *)
(***************************************************************************)
LEMMA DInvReconcileLoad ==
    ASSUME IInv, PackedKevisIntact, DInv, ReconcileLoad
    PROVE  DInv'
<1> DEFINE d == rec.doc
           k == rec.idx
           n == Pkg(d, k).name
<1>1. synced' = Put(synced, [x \in {<<d, k>>} |-> Deployed(Pkg(d, k))])
      /\ UNCHANGED <<packVars, remote, dPC, walked, applied>>
  BY DEF ReconcileLoad
<1>2. d \in applied /\ d \in 1..Len(Docs) /\ k \in 1..NPkgs(d)
  <2>1. rec # Idle /\ k <= NPkgs(d)
    BY DEF ReconcileLoad
  <2>2. d \in applied /\ k \in 1..NPkgs(d) + 1
    BY <2>1 DEF IInv, TypeOK
  <2>3. applied \subseteq 1..Len(Docs)
    BY DEF IInv, TypeOK
  <2>4. NPkgs(d) \in Nat
    BY <2>2, <2>3, DocFacts
  <2>5. k \in 1..NPkgs(d)
    BY <2>1, <2>2, <2>4
  <2> QED
    BY <2>2, <2>3, <2>5
<1>3. n \in Seg
  BY <1>2, DocFacts DEF KeviPackage
<1>4. /\ PkgRef(n) \in DOMAIN store
      /\ store[PkgRef(n)] = Archive(d, k)
  <2>1. d \in Packed
    BY <1>2 DEF DInv
  <2> QED
    BY <1>2, <2>1 DEF PackedKevisIntact
<1>5. RemoteHolds(PkgRef(n))
  <2>1. Copied(DOMAIN store)
    BY <1>2 DEF DInv
  <2>2. PkgRef(n) \in ArchiveRefs
    BY <1>2 DEF ArchiveRefs
  <2> QED
    BY <1>4, <2>1, <2>2 DEF Copied
<1>6. Deployed(Pkg(d, k)) = Archive(d, k)
  <2>1. Relocate(PkgRef(n), Target) = Locate(n, Target)
    BY <1>3, TargetHost, RelocatePkgRef
  <2>2. remote[Locate(n, Target)].kind # "image"
    <3>1. /\ Identify(Pkg(d, k)) \in {"manifest", "chart"}
          /\ LayerType(remote[Locate(n, Target)].kind) = ContentMediaType(Pkg(d, k))
      BY DEF ReconcileLoad, LoadOk, FetchOk
    <3> QED
      BY <3>1 DEF LayerType, ContentMediaType
  <2> QED
    BY <1>4, <1>5, <2>1, <2>2 DEF RemoteHolds, Deployed
<1>7. DeployedIsPacked'
  <2> SUFFICES ASSUME NEW x \in DOMAIN synced'
               PROVE  synced'[x] = Archive(x[1], x[2])
    BY DEF DeployedIsPacked
  <2>1. CASE x = <<d, k>>
    BY <1>1, <1>6, <2>1, PutNew
  <2>2. CASE x # <<d, k>>
    BY <1>1, <2>2, PutOld DEF DInv, DeployedIsPacked, Put
  <2> QED
    BY <2>1, <2>2
<1>8. /\ SetsPacked' /\ StoreKinds' /\ Packed' = Packed /\ packPC' = packPC
      /\ Copied(DOMAIN store) => Copied(DOMAIN store)'
      /\ Copied(walked) => Copied(walked)'
  BY <1>1 DEF DInv, packVars, Packed, SetsPacked, StoreKinds, Copied, RemoteHolds
<1> QED
  BY <1>1, <1>7, <1>8 DEF DInv

\* Every step of the system keeps DInv.
LEMMA DInvStep == IInv /\ PackInv /\ DInv /\ [Next]_vars => DInv'
<1> SUFFICES ASSUME IInv, PackInv, DInv, [Next]_vars PROVE DInv'
  OBVIOUS
<1>1. CASE PackNext /\ UNCHANGED deployVars
  BY <1>1, DInvPack
<1>2. CASE CopyOne
  BY <1>2, DInvCopyOne
<1>3. CASE \/ DeployStart \/ DeployStartFail \/ CopyFail \/ CopyDone
           \/ ScanSkip \/ ScanApply \/ ScanFail \/ ScanDone
  BY <1>3, DInvDeploy
<1>4. CASE ReconcileLoad
  BY <1>4, DInvReconcileLoad DEF PackInv
<1>5. CASE \/ ReconcileStart \/ ReconcileError \/ ReconcileDone
           \/ ManagerStart \/ InitControllers \/ ManagerCrash
           \/ Terminated \/ UNCHANGED vars
  <2>1. UNCHANGED <<packVars, remote, dPC, walked, applied, synced>>
    BY <1>5 DEF ReconcileStart, ReconcileError, ReconcileDone, ManagerStart,
                InitControllers, ManagerCrash, Terminated, vars, deployVars
  <2> QED
    BY <2>1, DInvUnchanged
<1> QED
  BY <1>1, <1>2, <1>3, <1>4, <1>5 DEF Next, DeployNext, ControllerNext, ManagerNext

(***************************************************************************)
(* What the controller syncs for package j of a Kevi i is the archive     *)
(* "kevi pack" built from package j of document i, however pack, deploy's *)
(* CopyAll and apply, the manager's crashes and Reconcile's retries       *)
(* interleave, when package names are distinct (the run                   *)
(* shared_package_name shows the assumption is needed).  An image CopyAll *)
(* relocates onto an archive (kevi_namespace) is refused by Load's media  *)
(* type check, so it stalls the Kevi but is never synced.                *)
(***************************************************************************)
THEOREM DeployedCorrect ==
    ASSUME DistinctPackageNames
    PROVE  Spec => []DeployedIsPacked
<1>1. Init => IInv /\ PackInv /\ DInv
  BY IInvInit, PackInvInit, DInvInit
<1>2. IInv /\ PackInv /\ DInv /\ [Next]_vars => (IInv /\ PackInv /\ DInv)'
  BY IInvStep, PackInvStep, DInvStep
<1>3. DInv => DeployedIsPacked
  BY DEF DInv
<1> QED
  BY <1>1, <1>2, <1>3, PTL DEF Spec

=============================================================================
