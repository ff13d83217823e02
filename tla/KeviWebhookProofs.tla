------------------------- MODULE KeviWebhookProofs --------------------------
(***************************************************************************)
(* The admission webhook finds every image again, for every instance of   *)
(* the constants in which pack.Relocate maps no two references of the     *)
(* store to one, no image path starts with a segment that looks like a   *)
(* registry, and find discovers every image the pods of a package run:   *)
(* once deploy is done, the image the webhook writes into a pod of an     *)
(* applied Kevi is on the target registry and holds that very image       *)
(* (WebhookImageIntact).                                                  *)
(***************************************************************************)
EXTENDS KeviDeployProofs

(* Lemmas about the webhook's rewrite of an image. *)

\* Parsing keeps the digest flag and the tag or digest of a reference.
LEMMA ParseRefKeeps ==
    ASSUME NEW w \in Ref, NEW d \in Host
    PROVE  ParseRef(w, d).dig = w.dig /\ ParseRef(w, d).id = w.id
BY DEF ParseRef, Ref

\* pack.Relocate of a reference depends only on what ParseRef makes of it.
LEMMA RelocateCongr ==
    ASSUME NEW a \in Ref, NEW b \in Ref, NEW h \in Host,
           ParseRef(a, DockerHub).repo = ParseRef(b, DockerHub).repo,
           ParseRef(a, DockerHub).dig = ParseRef(b, DockerHub).dig,
           ParseRef(a, DockerHub).id = ParseRef(b, DockerHub).id
    PROVE  Relocate(a, h) = Relocate(b, h)
<1> DEFINE oa == ParseRef(a, DockerHub)
           ob == ParseRef(b, DockerHub)
           v  == [host |-> NoHost, repo |-> oa.repo, dig |-> FALSE, id |-> Latest]
<1>1. v = [host |-> NoHost, repo |-> ob.repo, dig |-> FALSE, id |-> Latest]
  OBVIOUS
<1>2. /\ Relocate(a, h) = [ParseRef(v, h) EXCEPT !.dig = oa.dig, !.id = oa.id]
      /\ Relocate(b, h) = [ParseRef(v, h) EXCEPT !.dig = ob.dig, !.id = ob.id]
  BY <1>1 DEF Relocate
<1>3. oa.dig = ob.dig /\ oa.id = ob.id
  OBVIOUS
<1>4. ParseRef(v, h) \in Ref
  BY ParseRefType, DockerHubHost, RefAssumption DEF Ref
<1>5. Relocate(a, h) \in Ref /\ Relocate(b, h) \in Ref
  BY RelocateType
<1> HIDE DEF oa, ob, v, ParseRef
<1>6. /\ Relocate(a, h).host = Relocate(b, h).host
      /\ Relocate(a, h).repo = Relocate(b, h).repo
      /\ Relocate(a, h).dig = Relocate(b, h).dig
      /\ Relocate(a, h).id = Relocate(b, h).id
  BY <1>2, <1>3, <1>4 DEF Ref
<1> QED
  BY <1>5, <1>6, RefExt

\* A reference that names a registry other than Docker Hub parses to itself.
LEMMA ParseRefHosted ==
    ASSUME NEW w \in Ref, NEW d \in Host, w.host # NoHost, w.host # DockerHub
    PROVE  ParseRef(w, d) = w
<1>1. ParseRef(w, d) \in Ref
  BY ParseRefType
<1>2. /\ ParseRef(w, d).host = w.host /\ ParseRef(w, d).repo = w.repo
      /\ ParseRef(w, d).dig = w.dig /\ ParseRef(w, d).id = w.id
  BY DEF ParseRef, Ref
<1> QED
  BY <1>1, <1>2, RefExt

(***************************************************************************)
(* The webhook's image for img (podRelocatorHandler: Relocate, then       *)
(* ParseReference with the target as default) is Relocate of the image's *)
(* store reference, on the target registry, when the image path's first  *)
(* segment does not look like a registry.                                 *)
(***************************************************************************)
LEMMA WebhookOfImage ==
    ASSUME NEW img \in Ref,
           ~(/\ Len(ParseRef(img, DockerHub).repo) = 2
             /\ HostLike(ParseRef(img, DockerHub).repo[1]))
    PROVE  /\ WebhookRelocate(img) = Relocate(ParseRef(img, DockerHub), Target)
           /\ WebhookRelocate(img).host = Target
<1> DEFINE r == ParseRef(img, DockerHub)
           x == Relocate(r, Target)
<1>1. r \in Ref /\ Target \in Host /\ DockerHub \in Host /\ Target # DockerHub
  BY ParseRefType, DockerHubHost, TargetHost, DeployAssumption
<1>2. ParseRef(r, DockerHub).repo = r.repo
      /\ ParseRef(r, DockerHub).dig = r.dig /\ ParseRef(r, DockerHub).id = r.id
  BY <1>1, ParseRefIdem, ParseRefKeeps
<1>3. Relocate(img, Target) = x
  BY <1>1, <1>2, RelocateCongr
<1>4. x.host = Target
  <2> DEFINE v == [host |-> NoHost, repo |-> r.repo, dig |-> FALSE, id |-> Latest]
  <2>1. x = [ParseRef(v, Target) EXCEPT !.dig = ParseRef(r, DockerHub).dig,
                                        !.id = ParseRef(r, DockerHub).id]
    <3> HIDE DEF ParseRef
    <3> QED
      BY <1>2 DEF Relocate
  <2>2. /\ v \in [host : Host \cup {NoHost}, repo : Repo, dig : BOOLEAN, id : Ids]
        /\ v.host = NoHost /\ v.repo = r.repo
    BY <1>1, RefAssumption DEF Ref
  <2>3. ParseRef(v, Target).host = Target
    <3> HIDE DEF v
    <3> QED
      BY <2>2 DEF ParseRef
  <2>4. ParseRef(v, Target) \in Ref
    BY <2>2, <1>1, ParseRefType DEF Ref
  <2> HIDE DEF ParseRef, v
  <2> QED
    BY <2>1, <2>3, <2>4 DEF Ref
<1>5. x \in Ref
  BY <1>1, RelocateType
<1>6. ParseRef(x, Target) = x
  <2>1. x.host # NoHost /\ x.host # DockerHub
    BY <1>1, <1>4, HostFacts
  <2> HIDE DEF x
  <2> QED
    BY <1>1, <1>5, <2>1, ParseRefHosted
<1> QED
  BY <1>3, <1>4, <1>6 DEF WebhookRelocate


-----------------------------------------------------------------------------
(***************************************************************************)
(* WebhookImageIntact is not inductive.  Once deploy is done the registry *)
(* must hold, under the relocated reference of every image of the store,  *)
(* that image, so CopyAll must have copied each one without overwriting   *)
(* an earlier one; the store must hold every image of a packed package    *)
(* under its own reference; and deploy applies only packed documents.    *)
(***************************************************************************)

\* Every reference of the store is one the pack command writes.
StoreKeys == DOMAIN store \subseteq ArchiveRefs \cup SetKeys \cup ImageKeys

\* The store holds under an image's reference that image (Contents).
ImageEntries == \A r \in DOMAIN store \cap ImageKeys : store[r] = ImageArtifact(r)

\* The images of every package Oci.pack has returned from are in the store.
ImagesStored ==
    \A i \in 1..Len(Docs) : \A j \in 1..NPkgs(i) :
        i \in Packed \/ (packPC = "packing" /\ i = pk /\ j < pp) =>
            ImageRefs(Pkg(i, j)) \subseteq DOMAIN store

\* The target registry holds the store's artifact at r, relocated.
RemoteHas(r) ==
    /\ Relocate(r, Target) \in DOMAIN remote
    /\ remote[Relocate(r, Target)] = store[r]

\* CopyAll has copied the images among W, and none was overwritten.
ImagesCopied(W) == \A r \in W \cap ImageKeys : RemoteHas(r)

WInv ==
    /\ dPC # "wait" => packPC \in {"done", "failed"}
    /\ dPC = "wait" => walked = {}
    /\ applied \subseteq Packed
    /\ SetsPacked
    /\ StoreKeys
    /\ ImageEntries
    /\ ImagesStored
    /\ dPC = "copy" => ImagesCopied(walked)
    /\ dPC \in {"scan", "done"} => ImagesCopied(DOMAIN store)


\* An image's reference carries a registry, an archive's or a set's does not.
LEMMA ImageKeyNotPkgRef ==
    ASSUME NEW r \in ImageKeys, NEW n
    PROVE  r # PkgRef(n)
<1>1. PICK i \in 1..Len(Docs) : \E j \in 1..NPkgs(i) : r \in ImageRefs(Pkg(i, j))
  BY DEF ImageKeys
<1>2. PICK j \in 1..NPkgs(i) : r \in ImageRefs(Pkg(i, j))
  BY <1>1
<1> QED
  BY <1>2, DocFacts, ImageNotPkgRef

\* The initial state satisfies WInv: the store is empty, nothing is copied.
LEMMA WInvInit == Init => WInv
BY DEF Init, PackInit, WInv, Packed, SetsPacked, StoreKeys, ImageEntries,
       ImagesStored, ImagesCopied

\* Steps that leave the store, the registry and deploy alone keep WInv.
LEMMA WInvUnchanged ==
    ASSUME WInv, UNCHANGED <<packVars, remote, dPC, walked, applied>>
    PROVE  WInv'
BY DEF WInv, packVars, Packed, SetsPacked, StoreKeys, ImageEntries, ImagesStored,
       ImagesCopied, RemoteHas

(***************************************************************************)
(* Oci.pack adds the images of a package under their own references, and  *)
(* Oci.Pack adds a package set under a reference no image has; both only  *)
(* run before deploy starts.                                               *)
(***************************************************************************)
LEMMA WInvPack ==
    ASSUME IInv, WInv, PackNext, UNCHANGED deployVars
    PROVE  WInv'
<1>1. packPC = "packing" /\ dPC = "wait" /\ pk \in 1..Len(Docs)
  BY DEF PackNext, PackPackage, PackFail, PackSet, PackSetFail, WInv, IInv, TypeOK,
         PackTypeOK
<1>2. UNCHANGED <<remote, dPC, walked, applied>>
  BY DEF deployVars
<1>3. Packed \subseteq Packed'
  BY <1>1 DEF PackNext, PackPackage, PackFail, PackSet, PackSetFail, Packed
<1>4. SetsPacked' /\ StoreKeys' /\ ImageEntries' /\ ImagesStored'
  <2>1. CASE PackPackage
    <3>1. pp \in 1..NPkgs(pk) /\ Pkg(pk, pp) \in KeviPackage
      BY <1>1, <2>1, DocFacts DEF IInv, TypeOK, PackTypeOK, PackPackage
    <3>2. store' = Put(store, Contents(pk, pp)) /\ UNCHANGED <<pk, packPC>> /\ pp' = pp + 1
      BY <2>1 DEF PackPackage
    <3>3. DOMAIN Contents(pk, pp) = ImageRefs(Pkg(pk, pp)) \cup {PkgRef(Pkg(pk, pp).name)}
      BY DEF Contents, Put
    <3>4. ImageRefs(Pkg(pk, pp)) \subseteq ImageKeys /\ PkgRef(Pkg(pk, pp).name) \in ArchiveRefs
      BY <1>1, <3>1 DEF ImageKeys, ArchiveRefs
    <3>5. \A r \in DOMAIN Contents(pk, pp) : Contents(pk, pp)[r].kind # "set"
      BY DEF Contents, Put, Archive, ImageArtifact, Identify
    <3>6. \A r \in DOMAIN Contents(pk, pp) \cap ImageKeys :
             Contents(pk, pp)[r] = ImageArtifact(r)
      <4> SUFFICES ASSUME NEW r \in DOMAIN Contents(pk, pp) \cap ImageKeys
                   PROVE  Contents(pk, pp)[r] = ImageArtifact(r)
        OBVIOUS
      <4>1. r # PkgRef(Pkg(pk, pp).name)
        BY ImageKeyNotPkgRef
      <4> QED
        BY <3>3, <4>1 DEF Contents, Put
    <3>7. SetsPacked'
      BY <3>2, <3>5 DEF WInv, SetsPacked, Put, Packed
    <3>8. StoreKeys'
      BY <3>2, <3>3, <3>4 DEF WInv, StoreKeys, Put
    <3>9. ImageEntries'
      BY <3>2, <3>6 DEF WInv, ImageEntries, Put
    <3>10. ImagesStored'
      <4> SUFFICES ASSUME NEW i \in 1..Len(Docs), NEW j \in 1..NPkgs(i),
                          i \in Packed' \/ (packPC' = "packing" /\ i = pk' /\ j < pp')
                   PROVE  ImageRefs(Pkg(i, j)) \subseteq DOMAIN store'
        BY DEF ImagesStored
      <4>1. DOMAIN store \cup DOMAIN Contents(pk, pp) \subseteq DOMAIN store'
        BY <3>2 DEF Put
      <4>2. CASE i = pk /\ j = pp
        BY <3>3, <4>1, <4>2
      <4>3. CASE ~(i = pk /\ j = pp)
        <5>1. i \in Packed \/ (packPC = "packing" /\ i = pk /\ j < pp)
          BY <3>1, <3>2, <4>3 DEF Packed
        <5> QED
          BY <4>1, <5>1 DEF WInv, ImagesStored
      <4> QED
        BY <4>2, <4>3
    <3> QED
      BY <3>7, <3>8, <3>9, <3>10
  <2>2. CASE PackSet
    <3> DEFINE key == SetRef(Docs[pk].name)
    <3>1. store' = Put(store, [r \in {key} |-> SetArtifact(pk)])
          /\ pk' = pk + 1 /\ pp' = 1 /\ pp = NPkgs(pk) + 1
      <4>1. NPkgs(pk) \in Nat /\ pp \in 1..NPkgs(pk) + 1
        BY <1>1, DocFacts DEF IInv, TypeOK, PackTypeOK
      <4> QED
        BY <2>2, <4>1 DEF PackSet
    <3>2. key \in SetKeys /\ key \notin ImageKeys
      BY <1>1, ImageKeyNotPkgRef DEF SetKeys, SetRef
    <3>3. pk \in Packed'
      BY <1>1, <3>1 DEF Packed
    <3>4. SetsPacked'
      BY <1>1, <1>3, <3>1, <3>3 DEF WInv, SetsPacked, Put, SetArtifact
    <3>5. StoreKeys'
      BY <3>1, <3>2 DEF WInv, StoreKeys, Put
    <3>6. ImageEntries'
      BY <3>1, <3>2 DEF WInv, ImageEntries, Put
    <3>7. ImagesStored'
      <4> SUFFICES ASSUME NEW i \in 1..Len(Docs), NEW j \in 1..NPkgs(i),
                          i \in Packed' \/ (packPC' = "packing" /\ i = pk' /\ j < pp')
                   PROVE  ImageRefs(Pkg(i, j)) \subseteq DOMAIN store'
        BY DEF ImagesStored
      <4>1. NPkgs(pk) \in Nat
        BY <1>1, DocFacts
      <4>2. i \in Packed \/ (packPC = "packing" /\ i = pk /\ j < pp)
        BY <1>1, <3>1, <4>1 DEF Packed
      <4> QED
        BY <3>1, <4>2 DEF WInv, ImagesStored, Put
    <3> QED
      BY <3>4, <3>5, <3>6, <3>7
  <2>3. CASE PackFail \/ PackSetFail
    <3>1. UNCHANGED <<store, pk, pp>> /\ packPC' = "failed"
      BY <2>3 DEF PackFail, PackSetFail
    <3> QED
      BY <3>1 DEF WInv, SetsPacked, StoreKeys, ImageEntries, ImagesStored, Packed
  <2> QED
    BY <2>1, <2>2, <2>3 DEF PackNext
<1>5. (applied \subseteq Packed)'
  BY <1>2, <1>3 DEF WInv
<1> QED
  BY <1>1, <1>2, <1>4, <1>5 DEF WInv


(***************************************************************************)
(* One visit of CopyAll's Walk copies the artifact of r to its relocated  *)
(* reference, which is no image's copied before when Relocate is          *)
(* injective on the store.                                                 *)
(***************************************************************************)
LEMMA WInvCopyOne ==
    ASSUME RelocateInjective, WInv, CopyOne
    PROVE  WInv'
<1>1. dPC = "copy"
  BY DEF CopyOne
<1>2. PICK r \in DOMAIN store \ walked :
           /\ remote' = Put(remote, [x \in {Relocate(r, Target)} |-> store[r]])
           /\ walked' = walked \cup {r}
  BY DEF CopyOne
<1>3. UNCHANGED <<packVars, dPC, applied>>
  BY DEF CopyOne
<1>4. r \in ArchiveRefs \cup SetKeys \cup ImageKeys
  BY <1>2 DEF WInv, StoreKeys
<1>5. ImagesCopied(walked)'
  <2> SUFFICES ASSUME NEW q \in walked' \cap ImageKeys
               PROVE  RemoteHas(q)'
    BY DEF ImagesCopied
  <2>1. CASE q = r
    BY <1>2, <1>3, <2>1, PutNew DEF RemoteHas, packVars
  <2>2. CASE q # r
    <3>1. q \in walked /\ RemoteHas(q)
      BY <1>1, <1>2, <2>2 DEF WInv, ImagesCopied
    <3>2. Relocate(r, Target) # Relocate(q, Target)
      BY <1>4, <2>2 DEF RelocateInjective
    <3> QED
      BY <1>2, <1>3, <3>1, <3>2, PutOld DEF RemoteHas, packVars
  <2> QED
    BY <2>1, <2>2
<1>6. /\ SetsPacked' /\ StoreKeys' /\ ImageEntries' /\ ImagesStored'
      /\ Packed' = Packed /\ packPC' = packPC
  BY <1>3 DEF WInv, packVars, Packed, SetsPacked, StoreKeys, ImageEntries, ImagesStored
<1> QED
  BY <1>1, <1>3, <1>5, <1>6 DEF WInv

\* The other steps of deploy keep WInv: CopyDone finds every image copied,
\* and ScanApply applies only package sets of packed documents.
LEMMA WInvDeploy ==
    ASSUME WInv,
           \/ DeployStart \/ DeployStartFail \/ CopyFail \/ CopyDone
           \/ ScanSkip \/ ScanApply \/ ScanFail \/ ScanDone
    PROVE  WInv'
<1>1. UNCHANGED <<packVars, remote>>
  BY DEF DeployStart, DeployStartFail, CopyFail, CopyDone, ScanSkip, ScanApply,
         ScanFail, ScanDone
<1>2. /\ SetsPacked' /\ StoreKeys' /\ ImageEntries' /\ ImagesStored'
      /\ Packed' = Packed /\ packPC' = packPC
      /\ ImagesCopied(DOMAIN store) => ImagesCopied(DOMAIN store)'
  BY <1>1 DEF WInv, packVars, Packed, SetsPacked, StoreKeys, ImageEntries,
              ImagesStored, ImagesCopied, RemoteHas
<1>3. CASE DeployStart \/ DeployStartFail
  <2>1. walked = {} /\ UNCHANGED <<walked, applied>>
    BY <1>3 DEF DeployStart, DeployStartFail, WInv
  <2>2. packPC \in {"done", "failed"} /\ dPC' \in {"copy", "failed"}
    BY <1>3 DEF DeployStart, DeployStartFail
  <2>3. ImagesCopied(walked)'
    BY <2>1 DEF ImagesCopied
  <2> QED
    BY <1>2, <2>1, <2>2, <2>3 DEF WInv
<1>4. CASE CopyFail
  BY <1>2, <1>4 DEF CopyFail, WInv
<1>5. CASE CopyDone
  <2>1. dPC = "copy" /\ dPC' = "scan" /\ walked = DOMAIN store /\ UNCHANGED applied
    BY <1>5 DEF CopyDone
  <2> QED
    BY <1>2, <2>1 DEF WInv
<1>6. CASE ScanSkip \/ ScanFail \/ ScanDone
  <2>1. dPC = "scan" /\ UNCHANGED applied /\ dPC' \in {"scan", "done", "failed"}
    BY <1>6 DEF ScanSkip, ScanFail, ScanDone
  <2> QED
    BY <1>2, <2>1 DEF WInv
<1>7. CASE ScanApply
  <2>1. PICK r \in DOMAIN store \ walked :
             /\ store[r].kind = "set"
             /\ applied' = applied \cup {store[r].doc}
    BY <1>7 DEF ScanApply
  <2>2. dPC = "scan" /\ dPC' = "scan"
    BY <1>7 DEF ScanApply
  <2>3. store[r].doc \in Packed
    BY <2>1 DEF WInv, SetsPacked
  <2> QED
    BY <1>2, <2>1, <2>2, <2>3 DEF WInv
<1> QED
  BY <1>3, <1>4, <1>5, <1>6, <1>7

\* Every step of the system keeps WInv, when Relocate is injective on the store.
LEMMA WInvStep ==
    ASSUME RelocateInjective
    PROVE  IInv /\ WInv /\ [Next]_vars => WInv'
<1> SUFFICES ASSUME IInv, WInv, [Next]_vars PROVE WInv'
  OBVIOUS
<1>1. CASE PackNext /\ UNCHANGED deployVars
  BY <1>1, WInvPack
<1>2. CASE CopyOne
  BY <1>2, WInvCopyOne
<1>3. CASE \/ DeployStart \/ DeployStartFail \/ CopyFail \/ CopyDone
           \/ ScanSkip \/ ScanApply \/ ScanFail \/ ScanDone
  BY <1>3, WInvDeploy
<1>4. CASE ControllerNext \/ ManagerNext \/ Terminated \/ UNCHANGED vars
  <2>1. UNCHANGED <<packVars, remote, dPC, walked, applied>>
    BY <1>4 DEF ControllerNext, ReconcileStart, ReconcileLoad, ReconcileError,
                ReconcileDone, ManagerNext, ManagerStart, InitControllers,
                ManagerCrash, Terminated, vars, deployVars
  <2> QED
    BY <2>1, WInvUnchanged
<1> QED
  BY <1>1, <1>2, <1>3, <1>4 DEF Next, DeployNext

\* WInv and the absence of dotted image paths give WebhookImageIntact.
LEMMA WInvWebhook ==
    ASSUME NoDottedImagePath, ImagesDiscovered, IInv, WInv
    PROVE  WebhookImageIntact
<1> SUFFICES ASSUME dPC = "done", NEW i \in applied, NEW j \in 1..NPkgs(i),
                    NEW img \in PodImages(Pkg(i, j))
             PROVE  /\ WebhookRelocate(img).host = Target
                    /\ WebhookRelocate(img) \in DOMAIN remote
                    /\ remote[WebhookRelocate(img)] = ImageArtifact(ParseRef(img, DockerHub))
  BY DEF WebhookImageIntact
<1> DEFINE r == ParseRef(img, DockerHub)
<1>1. i \in Packed /\ i \in 1..Len(Docs) /\ Pkg(i, j) \in KeviPackage
  <2>1. i \in Packed
    BY DEF WInv
  <2>2. i \in 1..Len(Docs)
    BY <2>1 DEF Packed
  <2> QED
    BY <2>1, <2>2, DocFacts
<1>2. r \in ImageRefs(Pkg(i, j)) /\ r \in ImageKeys /\ img \in Ref
  <2>1. img \in Find(Pkg(i, j).yaml)
    BY <1>1 DEF ImagesDiscovered
  <2>2. img \in Ref
    BY <1>1, <2>1, FindType
  <2>3. r \in ImageRefs(Pkg(i, j))
    BY <2>1 DEF ImageRefs
  <2> QED
    BY <1>1, <2>2, <2>3 DEF ImageKeys
<1>3. r \in DOMAIN store /\ store[r] = ImageArtifact(r)
  BY <1>1, <1>2 DEF WInv, ImagesStored, ImageEntries
<1>4. RemoteHas(r)
  BY <1>2, <1>3 DEF WInv, ImagesCopied
<1>5. ~(Len(r.repo) = 2 /\ HostLike(r.repo[1]))
  BY <1>2 DEF NoDottedImagePath
<1>6. WebhookRelocate(img) = Relocate(r, Target) /\ WebhookRelocate(img).host = Target
  BY <1>2, <1>5, WebhookOfImage
<1> QED
  BY <1>3, <1>4, <1>6 DEF RemoteHas

(***************************************************************************)
(* Once "kevi deploy" is done, every image a pod of an applied Kevi runs *)
(* is rewritten by the webhook to the target registry, is there, and is  *)
(* the image the package referenced, however pack, CopyAll's order,      *)
(* deploy's apply, the manager and the controller interleave; when       *)
(* pack.Relocate maps no two references of the store to one (the runs     *)
(* image_collision and kevi_namespace break this), no image path starts  *)
(* with a segment that looks like a registry (dotted_org), and find      *)
(* discovers every image a pod of a package runs (cronjob_image).        *)
(***************************************************************************)
THEOREM WebhookCorrect ==
    ASSUME RelocateInjective, NoDottedImagePath, ImagesDiscovered
    PROVE  Spec => []WebhookImageIntact
<1>1. Init => IInv /\ WInv
  BY IInvInit, WInvInit
<1>2. IInv /\ WInv /\ [Next]_vars => (IInv /\ WInv)'
  BY IInvStep, WInvStep
<1>3. IInv /\ WInv => WebhookImageIntact
  BY WInvWebhook
<1> QED
  BY <1>1, <1>2, <1>3, PTL DEF Spec

=============================================================================
