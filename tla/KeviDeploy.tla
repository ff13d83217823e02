----------------------------- MODULE KeviDeploy -----------------------------
(***************************************************************************)
(* The packed store taken to a cluster: "kevi deploy" relocates every     *)
(* artifact of the store to the target registry (Oci.CopyAll) and then    *)
(* applies every package set it finds in the store as a Kevi object; the *)
(* controller reconciles each Kevi by fetching its packages back from the *)
(* registry (pack.Load, registry.Fetch) and syncing them; the admission  *)
(* webhook rewrites pod images to the same registry (pack.Relocate).     *)
(***************************************************************************)
EXTENDS KeviPack

CONSTANTS
    Target,      \* the registry of "kevi deploy <registry>" and of "manager --registry"
    InitRemote,  \* what the registries hold before deploy: earlier releases
    MaxCrashes   \* bound on the manager's restarts in one behaviour

ASSUME DeployAssumption ==
    /\ Target \in Hosts \ {DockerHub}
    /\ DOMAIN InitRemote \subseteq Ref
    /\ InitRemote \in [DOMAIN InitRemote -> Artifact]
    /\ MaxCrashes \in Nat

VARIABLES
    remote,   \* reference -> artifact: what the registries hold
    dPC,      \* "wait", "copy", "scan", "done" or "failed": the deploy command
    walked,   \* the store references the current Walk has visited
    applied,  \* the documents applied to the cluster as Kevi objects
    queue,    \* the Kevi objects waiting in the controller's work queue
    rec,      \* [doc, idx]: the Kevi and package Reconcile is at; doc = 0 when idle
    synced,   \* <<doc, package>> -> the artifact the controller synced for it
    mgr,      \* "none", "starting", "waiting" or "ready": the manager process
    crashes   \* how often the manager has exited and been restarted

deployVars == <<remote, dPC, walked, applied, queue, rec, synced, mgr, crashes>>
vars == <<packVars, deployVars>>

Idle == [doc |-> 0, idx |-> 0]

Init ==
    /\ PackInit
    /\ remote = InitRemote
    /\ dPC = "wait"
    /\ walked = {}
    /\ applied = {}
    /\ queue = {}
    /\ rec = Idle
    /\ synced = <<>>
    /\ mgr = "none"
    /\ crashes = 0

(***************************************************************************)
(* deploy's setup succeeds: pingRegistry, runInstall (which pushes the    *)
(* controller image and applies the manager's Deployment, so the manager *)
(* process starts in the cluster), Unarchive and NewOci.                  *)
(***************************************************************************)
DeployStart ==
    /\ dPC = "wait"
    /\ packPC \in {"done", "failed"}
    /\ dPC' = "copy"
    /\ mgr' = "starting"
    /\ UNCHANGED <<packVars, remote, walked, applied, queue, rec, synced, crashes>>

(***************************************************************************)
(* pingRegistry, runInstall, Unarchive or NewOci fails (only with Faults): *)
(* the deploy command returns before it relocates anything.  runInstall   *)
(* may or may not have applied the manager's objects by then.            *)
(***************************************************************************)
DeployStartFail ==
    /\ dPC = "wait"
    /\ packPC \in {"done", "failed"}
    /\ Faults
    /\ dPC' = "failed"
    /\ mgr' \in {"none", "starting"}
    /\ UNCHANGED <<packVars, remote, walked, applied, queue, rec, synced, crashes>>

(***************************************************************************)
(* One visit of Oci.CopyAll's Walk: relocate the reference to the target  *)
(* registry and oras.Copy the artifact there.                             *)
(***************************************************************************)
CopyOne ==
    /\ dPC = "copy"
    /\ \E r \in DOMAIN store \ walked :
          /\ remote' = Put(remote, [x \in {Relocate(r, Target)} |-> store[r]])
          /\ walked' = walked \cup {r}
    /\ UNCHANGED <<packVars, dPC, applied, queue, rec, synced, mgr, crashes>>

\* Mutant of CopyFail: the copy error is dropped and the Walk goes on.
CopyFailIgnored ==
    /\ dPC = "copy"
    /\ Faults
    /\ \E r \in DOMAIN store \ walked : walked' = walked \cup {r}
    /\ UNCHANGED <<packVars, remote, dPC, applied, queue, rec, synced, mgr, crashes>>

\* oras.Copy fails: the visitor's error aborts the Walk and the command.
CopyFail ==
    /\ dPC = "copy"
    /\ Faults
    /\ walked # DOMAIN store
    /\ dPC' = "failed"
    /\ UNCHANGED <<packVars, remote, walked, applied, queue, rec, synced, mgr, crashes>>

\* The Walk is over: deploy goes on to search the store for Kevi objects.
CopyDone ==
    /\ dPC = "copy"
    /\ walked = DOMAIN store
    /\ dPC' = "scan"
    /\ walked' = {}
    /\ UNCHANGED <<packVars, remote, applied, queue, rec, synced, mgr, crashes>>

\* A visit of the second Walk to a reference without "/kevi-": skipped.
ScanSkip ==
    /\ dPC = "scan"
    /\ \E r \in DOMAIN store \ walked :
          /\ ~IsKeviConfigRef(r)
          /\ walked' = walked \cup {r}
    /\ UNCHANGED <<packVars, remote, dPC, applied, queue, rec, synced, mgr, crashes>>

\* The controller is registered with the manager and watches Kevi objects.
Watching == mgr = "ready"

(***************************************************************************)
(* A reference with "/kevi-" that holds a package set: fetchKevi decodes  *)
(* it and rmgr.Apply creates the Kevi object; a controller that watches  *)
(* Kevis queues a reconcile for it, a later one lists it when it starts.  *)
(***************************************************************************)
ScanApply ==
    /\ dPC = "scan"
    /\ \E r \in DOMAIN store \ walked :
          /\ IsKeviConfigRef(r)
          /\ store[r].kind = "set"
          /\ applied' = applied \cup {store[r].doc}
          /\ queue' = IF Watching THEN queue \cup {store[r].doc} ELSE queue
          /\ walked' = walked \cup {r}
    /\ UNCHANGED <<packVars, remote, dPC, rec, synced, mgr, crashes>>

(***************************************************************************)
(* A reference with "/kevi-" whose layers are no Kevi document: fetchKevi *)
(* returns "unable to parse kevi object", which aborts the Walk; with     *)
(* Faults, rmgr.Apply may fail as well.                                   *)
(***************************************************************************)
ScanFail ==
    /\ dPC = "scan"
    /\ \E r \in DOMAIN store \ walked :
          /\ IsKeviConfigRef(r)
          /\ store[r].kind # "set" \/ Faults
    /\ dPC' = "failed"
    /\ UNCHANGED <<packVars, remote, walked, applied, queue, rec, synced, mgr, crashes>>

ScanDone ==
    /\ dPC = "scan"
    /\ walked = DOMAIN store
    /\ dPC' = "done"
    /\ UNCHANGED <<packVars, remote, walked, applied, queue, rec, synced, mgr, crashes>>

-----------------------------------------------------------------------------
(***************************************************************************)
(* registry.Fetch(pkg) succeeds: contentMediaType knows the package type  *)
(* and oras.Copy finds Locate(pkg) in the registry.                       *)
(***************************************************************************)
FetchOk(pkg) ==
    /\ Identify(pkg) \in {"manifest", "chart"}
    /\ Locate(pkg.name, Target) \in DOMAIN remote

(***************************************************************************)
(* pack.Load(pkg) succeeds: Fetch copied only the layers of               *)
(* contentMediaType(pkg), and Load wants exactly one of them.            *)
(***************************************************************************)
LoadOk(pkg) ==
    /\ FetchOk(pkg)
    /\ LayerType(remote[Locate(pkg.name, Target)].kind) = ContentMediaType(pkg)

\* Reconcile picks a Kevi from the work queue.
ReconcileStart ==
    /\ Watching
    /\ rec = Idle
    /\ \E k \in queue :
          /\ rec' = [doc |-> k, idx |-> 1]
          /\ queue' = queue \ {k}
    /\ UNCHANGED <<packVars, remote, dPC, walked, applied, synced, mgr, crashes>>

(***************************************************************************)
(* KeviReconciler.sync: the objects Generate rendered from what Load       *)
(* fetched, applied and pruned by the gitops engine; they are abstracted  *)
(* to the artifact they were rendered from.                              *)
(***************************************************************************)
Deployed(pkg) == remote[Locate(pkg.name, Target)]

\* One iteration of Reconcile's loop: Load, Generate and sync the package.
ReconcileLoad ==
    /\ rec # Idle
    /\ rec.idx <= NPkgs(rec.doc)
    /\ LoadOk(Pkg(rec.doc, rec.idx))
    /\ synced' = Put(synced, [x \in {<<rec.doc, rec.idx>>} |-> Deployed(Pkg(rec.doc, rec.idx))])
    /\ rec' = [rec EXCEPT !.idx = @ + 1]
    /\ UNCHANGED <<packVars, remote, dPC, walked, applied, queue, mgr, crashes>>

\* Mutant of ReconcileError: the failed package is skipped and the loop
\* goes on with the next one ("continue" for "return").
ReconcileErrorSkip ==
    /\ rec # Idle
    /\ rec.idx <= NPkgs(rec.doc)
    /\ ~LoadOk(Pkg(rec.doc, rec.idx)) \/ Faults
    /\ rec' = [rec EXCEPT !.idx = @ + 1]
    /\ UNCHANGED <<packVars, remote, dPC, walked, applied, queue, synced, mgr, crashes>>

(***************************************************************************)
(* Load, Generate or sync fails: Reconcile returns the error and the      *)
(* controller requeues the Kevi; the packages synced before stay synced. *)
(***************************************************************************)
ReconcileError ==
    /\ rec # Idle
    /\ rec.idx <= NPkgs(rec.doc)
    /\ ~LoadOk(Pkg(rec.doc, rec.idx)) \/ Faults
    /\ queue' = queue \cup {rec.doc}
    /\ rec' = Idle
    /\ UNCHANGED <<packVars, remote, dPC, walked, applied, synced, mgr, crashes>>

ReconcileDone ==
    /\ rec # Idle
    /\ rec.idx > NPkgs(rec.doc)
    /\ rec' = Idle
    /\ UNCHANGED <<packVars, remote, dPC, walked, applied, queue, synced, mgr, crashes>>

-----------------------------------------------------------------------------
(***************************************************************************)
(* The manager process ("kevi manager --registry <target>"): it builds    *)
(* the cluster cache, the gitops engine, the registry fetcher and the     *)
(* controller manager, starts the cert rotator and the manager, and       *)
(* leaves initControllers waiting for the webhook certificates.           *)
(***************************************************************************)
ManagerStart ==
    /\ mgr = "starting"
    /\ mgr' = "waiting"
    /\ UNCHANGED <<packVars, remote, dPC, walked, applied, queue, rec, synced, crashes>>

\* Mutant of InitControllers: the controller starts without listing Kevis.
InitControllersNoList ==
    /\ mgr = "waiting"
    /\ mgr' = "ready"
    /\ UNCHANGED <<packVars, remote, dPC, walked, applied, queue, rec, synced, crashes>>

(***************************************************************************)
(* initControllers, once the certificates exist: SetupWithManager starts  *)
(* the Kevi controller, whose informer lists every Kevi in the cluster    *)
(* and queues it, and the pod relocator webhook is registered.           *)
(***************************************************************************)
InitControllers ==
    /\ mgr = "waiting"
    /\ mgr' = "ready"
    /\ queue' = applied
    /\ UNCHANGED <<packVars, remote, dPC, walked, applied, rec, synced, crashes>>

(***************************************************************************)
(* The manager exits (os.Exit(1) on a setup error, or the process dies)   *)
(* and Kubernetes restarts it: the work queue and the Reconcile in         *)
(* progress are lost; what was synced stays in the cluster.  With Faults *)
(* only, at most MaxCrashes times.                                        *)
(***************************************************************************)
ManagerCrash ==
    /\ mgr \in {"starting", "waiting", "ready"}
    /\ Faults
    /\ crashes < MaxCrashes
    /\ mgr' = "starting"
    /\ crashes' = crashes + 1
    /\ rec' = Idle
    /\ queue' = {}
    /\ UNCHANGED <<packVars, remote, dPC, walked, applied, synced>>

\* Both commands have exited and the controller has nothing left to do.
Terminated ==
    /\ packPC \in {"done", "failed"}
    /\ dPC \in {"done", "failed"}
    /\ mgr \in {"none", "ready"}
    /\ rec = Idle
    /\ queue = {}
    /\ UNCHANGED vars

DeployNext ==
    \/ DeployStart \/ DeployStartFail \/ CopyOne \/ CopyFail \/ CopyDone
    \/ ScanSkip \/ ScanApply \/ ScanFail \/ ScanDone

ControllerNext == ReconcileStart \/ ReconcileLoad \/ ReconcileError \/ ReconcileDone

ManagerNext == ManagerStart \/ InitControllers \/ ManagerCrash

Next ==
    \/ PackNext /\ UNCHANGED deployVars
    \/ DeployNext
    \/ ControllerNext
    \/ ManagerNext
    \/ Terminated

(***************************************************************************)
(* The commands run to completion, and controller-runtime keeps retrying *)
(* a failed Reconcile: a fault is transient, so the Load of a package    *)
(* that could succeed infinitely often eventually does.  The manager    *)
(* pod is restarted by the kubelet and its cert rotator writes the       *)
(* webhook certificates it waits for, so a manager that starts does      *)
(* eventually run its controllers.                                       *)
(***************************************************************************)
Fairness ==
    /\ WF_vars(PackNext /\ UNCHANGED deployVars)
    /\ WF_vars(DeployNext)
    /\ WF_vars(ManagerStart)
    /\ WF_vars(InitControllers)
    /\ WF_vars(ReconcileStart)
    /\ WF_vars(ReconcileDone)
    /\ \A i \in 1..Len(Docs) : \A j \in 1..NPkgs(i) :
          SF_vars(ReconcileLoad /\ rec = [doc |-> i, idx |-> j])

Spec == Init /\ [][Next]_vars /\ Fairness

-----------------------------------------------------------------------------
TypeOK ==
    /\ PackTypeOK
    /\ remote \in [DOMAIN remote -> Artifact]
    /\ DOMAIN remote \subseteq Ref
    /\ dPC \in {"wait", "copy", "scan", "done", "failed"}
    /\ walked \subseteq DOMAIN store
    /\ applied \subseteq 1..Len(Docs)
    /\ queue \subseteq applied
    /\ rec \in [doc : 0..Len(Docs), idx : Nat]
    /\ mgr \in {"none", "starting", "waiting", "ready"}
    /\ crashes \in 0..MaxCrashes
    /\ dPC = "wait" => mgr = "none"
    /\ rec # Idle => mgr = "ready"
    /\ \/ rec = Idle
       \/ rec.doc \in applied /\ rec.idx \in 1..NPkgs(rec.doc) + 1
    /\ DOMAIN synced \subseteq UNION {{i} \X (1..NPkgs(i)) : i \in applied}

(***************************************************************************)
(* What the controller deployed for a package of a Kevi is the archive    *)
(* the pack command built from that very package: Locate, Relocate, the  *)
(* media types of Contents and contentMediaType, and the order of Pack   *)
(* and CopyAll agree end to end.                                         *)
(***************************************************************************)
DeployedIsPacked ==
    \A x \in DOMAIN synced : synced[x] = Archive(x[1], x[2])

(***************************************************************************)
(* Every Kevi deploy applied is eventually synced in full: the controller *)
(* loads every one of its packages (Reconcile with requeue on error).    *)
(***************************************************************************)
AppliedKevisSynced ==
    \A i \in 1..Len(Docs) :
        i \in applied ~> \A j \in 1..NPkgs(i) : <<i, j>> \in DOMAIN synced

(***************************************************************************)
(* Reconcile deploys a Kevi's packages in the order of its package set:   *)
(* a package is synced for the first time only when every package before *)
(* it is synced, through Reconcile's returns on error, the requeues and  *)
(* the manager's crashes and restarts.                                    *)
(***************************************************************************)
SyncedInOrder ==
    [][\A x \in DOMAIN synced' \ DOMAIN synced :
          \A j \in 1..(x[2] - 1) : <<x[1], j>> \in DOMAIN synced]_vars

(***************************************************************************)
(* A controller that watches never forgets a Kevi: every applied Kevi is  *)
(* fully synced, queued, or being reconciled, however deploy's apply and *)
(* the manager's start, crash and restart interleave (SetupWithManager's *)
(* initial list, Reconcile's requeue on error).                          *)
(***************************************************************************)
NoKeviForgotten ==
    Watching =>
        \A i \in applied :
            \/ \A j \in 1..NPkgs(i) : <<i, j>> \in DOMAIN synced
            \/ i \in queue
            \/ rec.doc = i

(***************************************************************************)
(* What the webhook silently relies on for every image to be found again  *)
(* in the target registry: pack.Relocate maps no two references of the    *)
(* store to the same reference, and no image path has a first segment   *)
(* that looks like a registry, which Relocate's re-parse would take for  *)
(* the host; and find discovers every image a pod of a package runs, so  *)
(* that pack copies it.  None is checked by deploy or the webhook.         *)
(***************************************************************************)
RelocateInjective ==
    \A r \in ImageKeys : \A q \in ArchiveRefs \cup SetKeys \cup ImageKeys :
        Relocate(q, Target) = Relocate(r, Target) => q = r

NoDottedImagePath ==
    \A r \in ImageKeys : ~(Len(r.repo) = 2 /\ HostLike(r.repo[1]))

ImagesDiscovered ==
    \A i \in 1..Len(Docs) : \A j \in 1..NPkgs(i) : PodImages(Pkg(i, j)) \subseteq Find(Pkg(i, j).yaml)

\* The image the admission webhook puts in a pod for img:
\* pack.Relocate to the registry, then name.ParseReference(..).Name().
WebhookRelocate(img) == ParseRef(Relocate(img, Target), Target)

(***************************************************************************)
(* Once deploy has finished, every image a pod of an applied Kevi runs   *)
(* is rewritten by the webhook to the target registry, is there, and is   *)
(* the image the package referenced (find, Oci.CopyAll, the webhook's     *)
(* podRelocatorHandler, which rewrites the images of every pod).          *)
(***************************************************************************)
WebhookImageIntact ==
    dPC = "done" =>
        \A i \in applied : \A j \in 1..NPkgs(i) : \A img \in PodImages(Pkg(i, j)) :
            /\ WebhookRelocate(img).host = Target
            /\ WebhookRelocate(img) \in DOMAIN remote
            /\ remote[WebhookRelocate(img)] = ImageArtifact(ParseRef(img, DockerHub))

(***************************************************************************)
(* The spec (4.3): a chart whose path already denotes a compressed chart  *)
(* archive is read verbatim.  So without I/O faults "kevi pack" fails     *)
(* only on a package of unknown type (Oci.pack, Chart.tgz).               *)
(***************************************************************************)
PackFailsOnlyOnBadSource ==
    packPC = "failed" =>
        \/ Faults
        \/ \E i \in 1..Len(Docs) : \E j \in 1..NPkgs(i) : Identify(Pkg(i, j)) = "unknown"

(***************************************************************************)
(* Without I/O faults, "kevi deploy" of a store the pack command wrote    *)
(* succeeds: relocating it and applying its package sets fail only when  *)
(* a registry or the cluster does (deploy's Walk over "/kevi-" names).   *)
(***************************************************************************)
DeployFailsOnlyOnFaults == dPC = "failed" => Faults
=============================================================================
