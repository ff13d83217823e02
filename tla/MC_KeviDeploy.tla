--------------------------- MODULE MC_KeviDeploy ---------------------------
(***************************************************************************)
(* A small instance of KeviDeploy: two Kevi documents packed, deployed to *)
(* registry reg.local and reconciled.  The first document has a package  *)
(* named like the document itself ("demo", next to its set "kevi-demo"),  *)
(* a chart archive and a chart from a repository; the images are written *)
(* short, with a host, by tag and by digest, and one image is shared.    *)
(* The registry starts with content of an earlier release.               *)
(***************************************************************************)
EXTENDS KeviDeploy, TLC

S(b) == [dash |-> 0, base |-> b]
Img(h, repo, d, id) == [host |-> h, repo |-> repo, dig |-> d, id |-> id]

MCHosts == {S("index.docker.io"), S("quay.io"), S("reg.local")}
MCDotted == {"index.docker.io", "quay.io", "reg.local"}
Hub == S("index.docker.io")
Reg == S("reg.local")
MCBases == {"kevi", "library", "demo", "ops", "web", "app", "nginx"} \cup MCDotted
MCIds == {"latest", "1.25", "sha256:aa"}

Nginx == Img(NoHost, <<S("nginx")>>, FALSE, "1.25")
NginxFull == Img(S("index.docker.io"), <<S("library"), S("nginx")>>, FALSE, "1.25")
Web == Img(S("quay.io"), <<S("app"), S("web")>>, TRUE, "sha256:aa")

Obj(sh, imgs) == [shape |-> sh, images |-> imgs]
Package(n, m, c, u, yaml) ==
    [name |-> S(n), manifest |-> m, chart |-> c, repoUrl |-> u, yaml |-> yaml]

\* "demo" renders a Deployment, a Pod, a ConfigMap and a CronJob that runs
\* the Deployment's image; "web" a StatefulSet; "app" a Deployment and a
\* Service.
MCDocs ==
    <<[name |-> S("demo"),
       packages |-> <<Package("demo", "dir", "", FALSE,
                              <<Obj("template", {Nginx}), Obj("pod", {Web}),
                                Obj("other", {}), Obj("cronjob", {Nginx})>>),
                      Package("web", "", "tgz", FALSE, <<Obj("template", {Web})>>)>>],
      [name |-> S("ops"),
       packages |-> <<Package("app", "", "", TRUE,
                              <<Obj("template", {NginxFull}), Obj("other", {})>>)>>]>>

\* reg.local already holds an older "demo" and, under the relocated name of
\* the quay.io web image, an image of another origin.
MCInitRemote ==
    (Locate(S("demo"), Reg) :> [kind |-> "manifest", doc |-> 0, pkg |-> 0, img |-> NoRef])
    @@ (Relocate(Web, Reg) :> ImageArtifact(Img(S("index.docker.io"), <<S("app"), S("web")>>, TRUE, "sha256:aa")))

ASSUME MCWellFormed ==
    DistinctPackageNames /\ RelocateInjective /\ NoDottedImagePath /\ ImagesDiscovered
=============================================================================
