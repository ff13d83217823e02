------------------------------ MODULE KeviPack ------------------------------
(***************************************************************************)
(* The Packer and the local store: the "kevi pack" command packing a list *)
(* of Kevi documents, one after the other, into an OCI store on disk.     *)
(*                                                                          *)
(* store is the store's reference index: a function from the references   *)
(* artifacts were added under to the artifact now indexed there.  An      *)
(* artifact is abstracted to what the properties tell apart: its kind and *)
(* where it came from (package j of document i, the package set of        *)
(* document i, or the image it was pulled from).                          *)
(***************************************************************************)
EXTENDS KeviRef

CONSTANTS
    Docs,    \* the Kevi documents of the --package files, in order
    Faults,  \* TRUE: renders, pulls and store writes may fail
    NoRef    \* the img field of an artifact that is not an image

(***************************************************************************)
(* An object of the YAML a package renders (Generate), as far as find and *)
(* the pods it creates tell it apart: a Pod, an object with a pod         *)
(* template at .spec.template (Deployment, DaemonSet, StatefulSet, Job),  *)
(* a CronJob (its template under .spec.jobTemplate), or an object that    *)
(* creates no pods; with the images of its containers and init           *)
(* containers.  Generate's output is well-formed YAML, so find's skipping *)
(* of unreadable sub-documents never happens and is left out.            *)
(***************************************************************************)
Shapes == {"pod", "template", "cronjob", "other"}
Object == [shape : Shapes, images : SUBSET Ref]

\* A KeviSpecPackage and a Kevi document, reduced to what the code branches
\* on; yaml is what Generate renders from the package.
KeviPackage == [name : Seg, manifest : ManifestPaths, chart : ChartPaths,
                repoUrl : BOOLEAN, yaml : Seq(Object)]
KeviDoc == [name : Seg, packages : Seq(KeviPackage)]

ASSUME PackAssumption ==
    /\ Faults \in BOOLEAN
    /\ NoRef \notin Ref
    /\ Docs \in Seq(KeviDoc)
    \* "kevi-" + the document name is still a segment of the instance
    /\ \A i \in 1..Len(Docs) : Docs[i].name.dash < MaxDash

VARIABLES
    store,   \* reference -> artifact: the store's index
    pk,      \* the document Oci.Pack is packing
    pp,      \* the package of Docs[pk] Oci.pack is packing
    packPC   \* "packing", "done" or "failed": where the pack command is

packVars == <<store, pk, pp, packPC>>

Pkg(i, j) == Docs[i].packages[j]
NPkgs(i) == Len(Docs[i].packages)

Artifact == [kind : Kinds, doc : Nat, pkg : Nat, img : Ref \cup {NoRef}]

\* The archive layer Contents builds for package j of document i.
Archive(i, j) == [kind |-> Identify(Pkg(i, j)), doc |-> i, pkg |-> j, img |-> NoRef]
\* The package-set artifact Oci.Pack writes for document i.
SetArtifact(i) == [kind |-> "set", doc |-> i, pkg |-> 0, img |-> NoRef]
\* The image artifact image.NewImage(refn.Name()) pulls.
ImageArtifact(r) == [kind |-> "image", doc |-> 0, pkg |-> 0, img |-> r]

\* f with the entries of g added, g winning: the index after adding g.
Put(f, g) == [r \in DOMAIN f \cup DOMAIN g |-> IF r \in DOMAIN g THEN g[r] ELSE f[r]]

\* defaultKnownImagePaths: .spec.[init]containers[*].image of a Pod and
\* .spec.template.spec.[init]containers[*].image of a pod template.
KnownImageShapes == {"pod", "template"}

\* find(data, defaultKnownImagePaths...): the images at the known paths of
\* every object of the rendered stream; on any other object the paths are
\* missing keys and yield nothing.
Find(yaml) ==
    UNION {yaml[k].images : k \in {k \in DOMAIN yaml : yaml[k].shape \in KnownImageShapes}}

\* The images the pods created from a package run: every object but those
\* that create no pods.
PodImages(pkg) ==
    UNION {pkg.yaml[k].images : k \in {k \in DOMAIN pkg.yaml : pkg.yaml[k].shape # "other"}}

\* refn.Name() for every image find() returns from the rendered package.
ImageRefs(pkg) == {ParseRef(img, DockerHub) : img \in Find(pkg.yaml)}

\* Mutant of Contents: the image loop left out, only the archive is added.
ContentsNoImages(i, j) == [r \in {PkgRef(Pkg(i, j).name)} |-> Archive(i, j)]

(***************************************************************************)
(* Manifest.Contents / Chart.Contents: one image artifact per discovered  *)
(* image, then the archive under the package's reference.                 *)
(***************************************************************************)
Contents(i, j) ==
    Put([r \in ImageRefs(Pkg(i, j)) |-> ImageArtifact(r)],
        [r \in {PkgRef(Pkg(i, j).name)} |-> Archive(i, j)])

\* NewManifest/NewChart and Contents can succeed for this package: its type
\* is known and, for a chart, Chart.tgz accepts its path.
ContentsOk(pkg) ==
    \/ Identify(pkg) = "manifest"
    \/ Identify(pkg) = "chart" /\ ChartTgzOk(pkg)

PackInit ==
    /\ store = <<>>
    /\ pk = 1
    /\ pp = 1
    /\ packPC = IF Len(Docs) = 0 THEN "done" ELSE "packing"

(***************************************************************************)
(* Oci.pack(pkg) for package pp of document pk: dispatch on Identify,     *)
(* build the package and its contents, AddOCICollection.  The collection  *)
(* is added as one step: AddOCICollection is all-or-nothing.             *)
(***************************************************************************)
PackPackage ==
    /\ packPC = "packing"
    /\ pp <= NPkgs(pk)
    /\ ContentsOk(Pkg(pk, pp))
    /\ store' = Put(store, Contents(pk, pp))
    /\ pp' = pp + 1
    /\ UNCHANGED <<pk, packPC>>

(***************************************************************************)
(* Oci.pack returns an error: an unknown package type, a chart path       *)
(* Chart.tgz refuses, or (with Faults) a render, pull or write failure.  *)
(* Oci.Pack returns it and the command exits; what earlier packages and   *)
(* documents added stays in the store.                                    *)
(***************************************************************************)
PackFail ==
    /\ packPC = "packing"
    /\ pp <= NPkgs(pk)
    /\ ~ContentsOk(Pkg(pk, pp)) \/ Faults
    /\ packPC' = "failed"
    /\ UNCHANGED <<store, pk, pp>>

\* Mutant of PackSet: the last document is missed by one.
PackSetPastEnd ==
    /\ packPC = "packing"
    /\ pp > NPkgs(pk)
    /\ store' = Put(store, [r \in {SetRef(Docs[pk].name)} |-> SetArtifact(pk)])
    /\ pk' = pk + 1
    /\ pp' = 1
    /\ packPC' = IF pk = Len(Docs) + 1 THEN "done" ELSE "packing"

(***************************************************************************)
(* Oci.Pack after its loop: marshal the document and AddOCI it under      *)
(* kevi/kevi-<name>; the command goes on with the next document.          *)
(***************************************************************************)
PackSet ==
    /\ packPC = "packing"
    /\ pp > NPkgs(pk)
    /\ store' = Put(store, [r \in {SetRef(Docs[pk].name)} |-> SetArtifact(pk)])
    /\ pk' = pk + 1
    /\ pp' = 1
    /\ packPC' = IF pk = Len(Docs) THEN "done" ELSE "packing"

\* AddOCI of the package set fails (only with Faults).
PackSetFail ==
    /\ packPC = "packing"
    /\ pp > NPkgs(pk)
    /\ Faults
    /\ packPC' = "failed"
    /\ UNCHANGED <<store, pk, pp>>

PackNext == PackPackage \/ PackFail \/ PackSet \/ PackSetFail

PackSpec == PackInit /\ [][PackNext]_packVars

-----------------------------------------------------------------------------
PackTypeOK ==
    /\ store \in [DOMAIN store -> Artifact]
    /\ DOMAIN store \subseteq Ref
    /\ pk \in 1..Len(Docs) + 1
    /\ pk > Len(Docs) \/ pp \in 1..NPkgs(pk) + 1
    /\ packPC \in {"packing", "done", "failed"}
    /\ packPC = "packing" => pk <= Len(Docs)

\* The documents Oci.Pack has returned from successfully.
Packed == {i \in 1..Len(Docs) : i < pk}

(***************************************************************************)
(* The references the store can hold: the archives of the packages        *)
(* (Manifest.Reference, Chart.Reference), the package sets (Oci.Pack) and *)
(* the images the packages name (Contents).                               *)
(***************************************************************************)
ArchiveRefs == UNION {{PkgRef(Pkg(i, j).name) : j \in 1..NPkgs(i)} : i \in 1..Len(Docs)}
SetKeys == {SetRef(Docs[i].name) : i \in 1..Len(Docs)}
ImageKeys == UNION {UNION {ImageRefs(Pkg(i, j)) : j \in 1..NPkgs(i)} : i \in 1..Len(Docs)}

(***************************************************************************)
(* What the code silently relies on for a store to hold every packed     *)
(* package: package names are distinct across all documents, and no      *)
(* package is named "kevi-<document name>".  Neither is checked by pack. *)
(***************************************************************************)
DistinctPackageNames ==
    /\ \A i1, i2 \in 1..Len(Docs) : \A j1 \in 1..NPkgs(i1), j2 \in 1..NPkgs(i2) :
          Pkg(i1, j1).name = Pkg(i2, j2).name => i1 = i2 /\ j1 = j2
    /\ \A i1, i2 \in 1..Len(Docs) : \A j \in 1..NPkgs(i2) :
          Pkg(i2, j).name # KeviDash(Docs[i1].name)
    /\ \A i1, i2 \in 1..Len(Docs) : Docs[i1].name = Docs[i2].name => i1 = i2

(***************************************************************************)
(* Every document "kevi pack" reported as packaged can be found again in  *)
(* the store: its package-set artifact under kevi/kevi-<name>, and each   *)
(* of its packages' archives under kevi/<package>, none of them replaced *)
(* by a later package, image or package set (Oci.Pack, Oci.pack).        *)
(***************************************************************************)
PackedKevisIntact ==
    \A i \in Packed :
        /\ SetRef(Docs[i].name) \in DOMAIN store
        /\ store[SetRef(Docs[i].name)] = SetArtifact(i)
        /\ \A j \in 1..NPkgs(i) :
              /\ PkgRef(Pkg(i, j).name) \in DOMAIN store
              /\ store[PkgRef(Pkg(i, j).name)] = Archive(i, j)

(***************************************************************************)
(* The spec (4.4, 4.1): packaging is all-or-nothing per invocation of     *)
(* Pack, so when Oci.Pack fails on a document none of that document's    *)
(* packages is left in the store.                                         *)
(***************************************************************************)
PackAllOrNothing ==
    packPC = "failed" =>
        \A j \in 1..NPkgs(pk) : PkgRef(Pkg(pk, j).name) \notin DOMAIN store

=============================================================================
