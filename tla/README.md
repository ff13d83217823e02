# TLA+ models of kevi

kevi packages Kubernetes applications into an OCI content store, moves the store into an air-gapped registry, and deploys it there. The project models four things:

- the flow from `kevi pack` through `kevi deploy` to the Kevi controller;
- the admission webhook that rewrites pod images;
- the pure reference and identity logic they share;
- the failures the code handles.

TLC model-checks the models on small instances. TLAPS proves, for every value of the constants, type correctness, all four safety invariants of the main run (`PackedKevisIntact`, `DeployedIsPacked`, `WebhookImageIntact`, `NoKeviForgotten`) from the assumptions each needs, and the action property `SyncedInOrder`. Only the liveness property is left to TLC alone.

## The system and how the parts interact

| Part | Source | What it does |
|---|---|---|
| Descriptor | `src/api/v1alpha1/kevi_types.go` | A `Kevi` is a name and a list of `KeviSpecPackage`. `Identify` turns a package into a manifest, a chart or unknown. |
| Packer | `src/pkg/pack/pack.go` (`Oci.Pack`, `Oci.pack`), `src/cli/pack.go` | For each document and each package, it builds the package's `Contents` and adds them with `AddOCICollection`. The contents are every image `find()` discovers, pulled, plus a one-layer archive under `kevi/<package>`. At the end it adds the document itself under `kevi/kevi-<name>`. |
| Package types | `src/pkg/pack/manifest.go`, `chart.go`, `utils.go` | `Reference`, `Contents`, `Chart.tgz` with its extension dispatch, and the image discovery in `find`. |
| Relocator | `pack.Relocate`, `Oci.CopyAll`, `src/cli/copy.go` | Walks the store and copies every reference to `Relocate(ref, registry)`. |
| Deploy | `src/cli/deploy.go` | Ping, install the controller, then `CopyAll`. A second Walk follows: every reference containing `/kevi-` is decoded (`fetchKevi`) and applied as a Kevi object. |
| Fetcher and Load | `src/pkg/fetcher/registry.go`, `src/pkg/pack/package.go` | `Locate` and `Fetch` copy only the layers of `contentMediaType(pkg)`. `Load` requires exactly one such layer. |
| Controller | `src/controllers/kevi_controller.go` | `Reconcile` does Load, Generate and sync for every package in turn. On error it returns and controller-runtime requeues the Kevi. |
| Manager | `src/cli/manager.go` | The pod deploy installs. It builds the gitops engine and the fetcher, starts the cert rotator, and `initControllers` waits for the certificates before `SetupWithManager` starts the controller (whose informer lists every existing Kevi) and registers the webhook. Any setup error is `os.Exit(1)`; Kubernetes restarts the pod. |
| Webhook | `src/pkg/webhook/mutate.go` | Rewrites each container image of a pod to `Relocate(image, registry)`. |

The parts interact only through data:

- The packer writes the store.
- The relocator copies the store into the registry.
- Deploy reads the store back and creates Kevi objects.
- The controller fetches package archives from the registry.
- The webhook must name images that the relocator put in the registry.

So the correctness questions are about reference arithmetic. Do names computed by different code paths agree, and can one overwrite another? They are also about what a failure halfway through leaves behind.

## Modules

- **KeviRef**: pure operators.
  - A reference is a record `[host, repo, dig, id]`. `repo` holds one or two path segments.
  - A segment is `[dash, base]`: the string `kevi-` repeated `dash` times, then a base name. A dotted base is one that go-containerregistry reads as a registry.
  - `ParseRef` models `name.ParseReference(..).Name()`, including the split of a dotted first segment and Docker Hub's `library/`.
  - The module also holds `Relocate`, `PkgRef` and `SetRef` (the references `Reference()` and `Oci.Pack` write), `Locate`, deploy's `/kevi-` test (`IsKeviConfigRef`), `Identify`, `Chart.tgz`'s extension test, and the media-type tables.
- **KeviPack**: the `kevi pack` command.
  - Variables: the store index `store` (reference to artifact), the loop counters `pk` (document) and `pp` (package), and `packPC`.
  - There is one action per outcome of each loop iteration: `PackPackage`, `PackFail`, `PackSet` and `PackSetFail`.
  - `Put` models `AddOCI`/`AddOCICollection` on the index. ocil is not in the repository, so `Put` is modelled from the spec: entries are added all at once, and a new entry replaces an old one with the same reference.
  - `PackInit` starts from an empty store. `NewOci` may open a store an earlier pack wrote. No property depends on that difference, because every property is about what this run's inputs put in the store.
  - Image discovery: a package carries the objects `Generate` renders (`Object`: a shape, Pod, pod template, CronJob or other, and the images of its containers). `Find` translates `find` over `defaultKnownImagePaths` (`KnownImageShapes`): it returns the images of Pods and pod templates only. `PodImages` is every image a pod of the package will run. `ImageRefs` is the `ParseReference` loop of `Contents`.
- **KeviDeploy**: the rest of the system, composed with KeviPack.
  - Deploy state: `remote` (what the registries hold, starting from `InitRemote`, an earlier release) and `dPC`. Actions: `DeployStart` and `DeployStartFail`; the copy Walk `CopyOne`, `CopyFail` and `CopyDone`; and the scan Walk `ScanSkip`, `ScanApply`, `ScanFail` and `ScanDone`. The Walk visits references in any order because the store gives no order.
  - Controller state: `applied`, `queue`, `rec` (the Kevi and the package `Reconcile` is at) and `synced`. Actions: `ReconcileStart`, `ReconcileLoad`, `ReconcileError` (with requeue) and `ReconcileDone`. `Deployed` is what `KeviReconciler.sync` applies.
  - Manager state: `mgr` (`none`, `starting`, `waiting`, `ready`) and `crashes`. `DeployStart` starts the manager (runInstall applies its Deployment). Actions: `ManagerStart` (setup until `initControllers` waits for certificates), `InitControllers` (the controller watches; `queue' = applied` is the informer's initial list) and `ManagerCrash` (the pod exits and restarts: the queue and the Reconcile in progress are lost). `ScanApply` queues the Kevi only if the controller is already `Watching`.
  - The webhook is the operator `WebhookRelocate`. The webhook's default registry does not matter, because relocated references always carry a host.
  - `Init` starts with no Kevi applied: the model covers one deploy into a cluster with no earlier Kevis.
  - Failures are enabled by the constant `Faults`: a render or pull, a store write, a registry copy, an install, an apply or a sync may fail.
- **KeviPackProofs**, **KeviControllerProofs**, **KeviDeployProofs**, **KeviWebhookProofs**: the TLAPS theorems (see below).
- **MC_KeviDeploy**: the main instance.
- **MC_KeviFindings**: the instances that exhibit the findings.

Data is abstracted to what the properties distinguish. An artifact is `[kind, doc, pkg, img]`: its kind (manifest, chart, set or image) and its origin. Rendering, tar and gzip, YAML and JSONPath parsing, and the gitops sync are reduced to their outcome. Success produces the archive of that package. Failure happens when the code's conditions hold, or nondeterministically under `Faults`. A package carries its rendered objects, reduced to their shape and images.

## Runs

| Run | Expect | Shows |
|---|---|---|
| `kevi_deploy` (`MC_KeviDeploy.cfg`) | pass | See below. |
| `image_collision` | violation of `WebhookImageIntact` | `docker.io/library/nginx` and `quay.io/library/nginx` relocate to one target reference, because `Relocate` drops the source registry. Whichever image is copied last wins. |
| `dotted_org` | violation of `WebhookImageIntact` | The path `my.org/app` of `quay.io/my.org/app` is re-parsed by `Relocate` as registry `my.org`, so the image leaves the target registry. |
| `chart_tar_gz` | violation of `PackFailsOnlyOnBadSource` | `filepath.Ext("x.tar.gz")` is `.gz`, so a chart archive named `.tar.gz` is refused as "expected chart directory". |
| `kevi_image_path` | violation of `DeployFailsOnlyOnFaults` | An image whose path has a `kevi-` segment is taken for a package set by deploy's `/kevi-` test, and deploy aborts. |
| `shared_package_name` | violation of `DeployedIsPacked` | Two Kevis with a package of the same name share `kevi/<name>`. The controller deploys the other Kevi's archive. |
| `kevi_namespace` | violation of `AppliedKevisSynced` | The image `kevi/app` (Docker Hub's `kevi` organisation) and the archive of package `app` both relocate to `<target>/kevi/app:latest`, because the archive's reference has no host and Relocate keeps the path. If the image is copied last, Load never finds the archive layer and the Kevi is never synced. |
| `cronjob_image` | violation of `WebhookImageIntact` | A CronJob's image, under `spec.jobTemplate`, is not at a path `find` knows. It is never stored or copied, yet the webhook rewrites the CronJob's pods to the target registry, which does not hold it. |
| `pack_partial` | violation of `PackAllOrNothing` | When `Oci.Pack` fails on a later package, the earlier packages of that document stay in the store. Spec 4.4 says packaging is all-or-nothing. |

`kevi_deploy` checks these properties:

- `TypeOK`.
- `PackedKevisIntact`: every document pack finished keeps its package set and all of its archives in the store.
- `DeployedIsPacked`: what the controller synced for package j of Kevi i is the archive packed from that package. This checks that `Locate`, `Relocate`, `PkgRef`, the media types of `Contents` and `contentMediaType`, and the order of pack and `CopyAll` agree.
- `WebhookImageIntact`: once deploy is done, every image a pod of an applied Kevi runs is rewritten to the target and is there as the same image.
- `NoKeviForgotten`: while the controller watches, every applied Kevi is fully synced, queued or being reconciled. Violating it takes deploy applying a Kevi before the manager is ready, or a crash that loses the queue, followed by a start that does not list.
- The liveness property `AppliedKevisSynced`: every applied Kevi is eventually synced in full.
- The action property `SyncedInOrder`: a package is synced for the first time only when every package before it in its Kevi is synced. Reconcile's loop returns on the first error, and the next Reconcile starts again from the first package.

A mutant run of each property confirms that a plausible bug in the mapped code breaks it:

- `PackSetPastEnd`: an off-by-one in the document loop.
- `SetRefNoPrefix`: the `kevi-` prefix left out.
- `CopyFailIgnored`: a copy error swallowed.
- `ContentsNoImages`: the image loop left out.
- `ContentMediaTypeConfig`: the wrong chart media type.
- `InitControllersNoList`: the controller starts without listing existing Kevis.
- `ReconcileErrorSkip`: a failed package skipped and the loop continued (`continue` for `return`).

### Bounds

The main instance has two documents and three packages:

- **Manifest, chart archive, chart from a repository:** all three package kinds are present.
- **Package named after its document:** `demo` sits next to `kevi-demo`.
- **Image references:** written short, with an explicit host, by tag and by digest, and shared between packages.
- **Stale registry:** the registry starts holding a stale `kevi/demo` and a foreign image under the relocated name of `quay.io/app/web`. Deploy must therefore overwrite both.
- **Faults:** `Faults = TRUE`, so every failure path is explored.
- **Prefix depth:** `MaxDash = 1` is enough, because the code adds `kevi-` once.
- **Crashes:** `MaxCrashes = 1`: one restart is enough to lose a queue the model then has to rebuild. The findings instances use `MaxCrashes = 0`.

The run reaches 10485 distinct states in about 35 seconds. The interleavings that matter are:

- pack failing after some packages;
- the copy Walk in every order and failing at any point;
- reconciles failing and being requeued;
- deploy applying Kevis before, while and after the manager starts, and the manager crashing at any point.

Every one of these is within the bound.

### Fairness

`WF` holds on the pack command, the deploy command, `ReconcileStart` and `ReconcileDone`. Each is a single process that runs to completion once started. `WF` also holds on `ManagerStart` and `InitControllers`: the kubelet restarts the pod, and the cert rotator writes the certificates `initControllers` waits for. `ManagerCrash` has no fairness and is bounded by `MaxCrashes`.

For each package, `SF` holds on its successful `ReconcileLoad`. controller-runtime requeues a failed `Reconcile` with backoff and without limit, and the model treats a fault as transient. A Load that is possible infinitely often therefore eventually succeeds.

Only `AppliedKevisSynced` uses fairness. It holds in the main instance because:

- every applied Kevi's packages were copied;
- the stale `kevi/demo` is always overwritten before the scan applies anything.

## Proofs

### KeviPackProofs

`THEOREM TypeCorrect == Spec => []TypeOK` holds for all constants satisfying `RefAssumption`, `PackAssumption` and `DeployAssumption`.

- `TypeOK` is not inductive on its own: `ReconcileLoad` records `remote[...]` and `ScanApply` records `store[r].doc`.
- The inductive invariant is `IInv == TypeOK /\ StoreDocs`. `StoreDocs` says that every non-image store entry names a document of the input.
- `TypeOK` also relates the manager to the controller: no Reconcile runs unless the manager is `ready`, and the manager is not running before deploy starts.
- The step proof has one case per action.
- It rests on lemmas about the operators:
  - `ParseRefType`, `RelocateType`, `PkgRefType` and `SetRefType`: the results are references.
  - `PutType` and `ContentsType`: `Put` of typed functions is typed.
  - `DocFacts`.

`THEOREM PackedIntact == ASSUME DistinctPackageNames PROVE Spec => []PackedKevisIntact`.

- The inductive invariant adds `CurrentPackagesIntact`: the archives of the document being packed are already in the store.
- The argument uses three facts. First, `PkgRef` and `KeviDash` are injective. Second, image references always have a host (`ImageNotPkgRef`), so an image never lands on `kevi/<name>` in the store. Third, under `DistinctPackageNames` no other package or set shares a reference.
- `Put` keeps old entries that the new part does not name (`PutOld`).
- Deploy, manager and controller steps leave `store` unchanged (`OthersLeavePack`).

The assumption is necessary. Without it the property is false, as the `shared_package_name` run shows. The main instance satisfies it (`ASSUME MCWellFormed`, which also states the three assumptions of `WebhookCorrect` below).

### KeviControllerProofs

`THEOREM KeviNeverForgotten == Spec => []NoKeviForgotten`, for every instance. `NoKeviForgotten` is not inductive. When `ReconcileDone` drops a Kevi, its packages must already be synced, so `FInv` adds `RecPrefixSynced`: the packages before the one Reconcile is at are in `synced`. TLC checked the strengthening on the main instance before it was proved. The step proof has one case per action. The interesting cases are:

- `ScanApply` when the controller watches;
- `ReconcileStart`, `ReconcileError` and `ReconcileDone`;
- `InitControllers`, whose list restores everything a crash lost.

`THEOREM KeviSyncedInOrder == Spec => SyncedInOrder`, for every instance, is an action property. It follows from the same `FInv`. Only `ReconcileLoad` changes `synced` (`OnlyLoadSyncs`), and the package it syncs is the one `Reconcile` is at, whose predecessors `RecPrefixSynced` says are synced (`InOrderLoad`).

### KeviDeployProofs

`THEOREM DeployedCorrect == ASSUME DistinctPackageNames PROVE Spec => []DeployedIsPacked`. It needs only the assumption of `PackedIntact`. The `shared_package_name` run shows that `DeployedIsPacked` is false without it.

- **Store side:** `DInv` holds the following facts:
  - a package set is in the store only for a packed document (`SetsPacked`);
  - every store entry is a package archive, a package set or an image (`StoreKinds`);
  - `applied` holds only packed documents.
- **Registry side:** `Copied(W)` says every entry in `W` is at its relocated reference (`RemoteHolds`). It holds either as the store's own artifact or, for a package archive, as an image that some image key relocated onto it.
  - `DInv` keeps `Copied(walked)` during the copy Walk and `Copied(DOMAIN store)` from the scan on.
  - Nothing is applied before the copy is complete.
- **Why the image case is harmless:** an image that lands on `<target>/kevi/<name>` replaces the archive. `ReconcileLoad`'s `LoadOk` refuses it, because an image is not of the archive's media type (the `kevi_namespace` run). So what is synced is always the archive.
- **Operator lemmas:**
  - `NoCollision`: no other archive or package set relocates onto an archive. It needs `KeviBase # LibraryBase`, which is part of `RefAssumption`.
  - `ImageOnArchive`: only an image whose path is `kevi/<name>` does.
  - `RelocatePkgRef`: an archive relocates to `Locate`.
  - `ParseRefIdem` and `RelocateKeviRepo`: these describe `ParseRef`'s handling of the dotted split and `library/`.

### KeviWebhookProofs

`THEOREM WebhookCorrect == ASSUME RelocateInjective, NoDottedImagePath, ImagesDiscovered PROVE Spec => []WebhookImageIntact`. The assumptions are properties of the input documents, stated in KeviDeploy:

- `RelocateInjective`: no image key and another store key relocate to one target reference. It fails on the `image_collision` and `kevi_namespace` instances.
- `NoDottedImagePath`: no parsed image path is `<dotted>/<name>`. It fails on the `dotted_org` instance.
- `ImagesDiscovered`: `find` returns every image a pod of the package runs. It fails on the `cronjob_image` instance.

TLC finds `WebhookImageIntact` violated on exactly those instances, so each assumption is needed. Package names need not be distinct: the proof never uses `PackInv`.

The inductive invariant `WInv` has three kinds of conjunct:
- **Store:** `StoreKeys` (the store holds only archives, sets and image keys), `ImageEntries` (an image key holds its own image) and `ImagesStored` (the images of every packed package are stored).
- **Registry:** `ImagesCopied` says each walked image key holds its image at its relocated reference. It is kept by `CopyOne`, because injectivity means no later copy lands on it.
- **Webhook:** `WebhookOfImage` says the webhook's `ParseRef(Relocate(img, target), target)` is `Relocate` of the parsed image, with the target as host, unless the parsed path is `<dotted>/<name>`.

`Relocate`'s results are records built with `EXCEPT`. The SMT backend cannot compare such records directly, so these lemmas compare them field by field (`RefExt`, `RelocateCongr`).

### Only model-checked

TLC alone checks the following:

- Liveness (`AppliedKevisSynced`). TLAPS cannot reason about fairness or `ENABLED` here.
- The findings. Each is a violation that TLC exhibits on a concrete instance.

Every safety invariant and the action property of `kevi_deploy` have theorems.

## Not modelled

- `src/pkg/install`: building the controller image and its objects is I/O. Only its failure (`DeployStartFail`) is modelled.
- `src/main.go`: its `cl()`/`add*` commands are unreachable, because `main` calls `cli.Cli()`.
- CLI wiring and `version`. The manager's health checks, metrics and leader election. Its certificate handling is reduced to the wait in `initControllers`.
- The prune predicate of `KeviReconciler.sync` (`Mark == "donk"`): no code sets that mark, so prune never deletes anything. The model keeps no cluster objects beyond what was synced.
- Blobs, digests and deduplication inside ocil, and the contents of the gitops sync.

## Next steps

- A second deploy of a newer release over an older one, with the controller reconciling concurrently: stale reads of `remote`.
- Packing into a store an earlier pack wrote (`NewOci` on an existing layout).
