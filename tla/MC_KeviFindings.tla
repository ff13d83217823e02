-------------------------- MODULE MC_KeviFindings --------------------------
(***************************************************************************)
(* Instances of KeviDeploy, without I/O faults, whose documents are legal *)
(* Kevi objects that the code mishandles.  Each cfg checks one property   *)
(* and TLC finds it violated.                                              *)
(***************************************************************************)
EXTENDS KeviDeploy, TLC

S(b) == [dash |-> 0, base |-> b]
Img(h, repo, d, id) == [host |-> h, repo |-> repo, dig |-> d, id |-> id]
\* A package whose YAML renders one Deployment running the images imgs.
Package(n, m, c, u, imgs) ==
    [name |-> S(n), manifest |-> m, chart |-> c, repoUrl |-> u,
     yaml |-> <<[shape |-> "template", images |-> imgs]>>]

FHosts == {S("index.docker.io"), S("quay.io"), S("reg.local")}
FDotted == {"index.docker.io", "quay.io", "reg.local", "my.org"}
Hub == S("index.docker.io")
Reg == S("reg.local")
FBases == {"kevi", "library", "demo", "ops", "app", "nginx", "tools"} \cup FDotted
FIds == {"latest", "1.25"}

\* The target registry starts empty.
NoRemote == <<>>

\* The same image name from two registries: docker.io and a quay.io mirror.
CollisionDocs ==
    <<[name |-> S("demo"),
       packages |-> <<Package("app", "dir", "", FALSE,
                        {Img(S("index.docker.io"), <<S("library"), S("nginx")>>, FALSE, "1.25"),
                         Img(S("quay.io"), <<S("library"), S("nginx")>>, FALSE, "1.25")})>>]>>

\* An image whose organisation has a dot in its name: quay.io/my.org/app.
DottedDocs ==
    <<[name |-> S("demo"),
       packages |-> <<Package("app", "dir", "", FALSE,
                        {Img(S("quay.io"), <<S("my.org"), S("app")>>, FALSE, "1.25")})>>]>>

\* A chart given as a .tar.gz archive.
TarGzDocs ==
    <<[name |-> S("demo"),
       packages |-> <<Package("app", "", "targz", FALSE, {})>>]>>

\* An image in a repository whose path has a segment "kevi-tools".
KeviImageDocs ==
    <<[name |-> S("demo"),
       packages |-> <<Package("app", "dir", "", FALSE,
                        {Img(S("quay.io"), <<[dash |-> 1, base |-> "tools"], S("app")>>, FALSE, "1.25")})>>]>>

\* Two Kevi documents that each have a package named "app".
SharedNameDocs ==
    <<[name |-> S("demo"), packages |-> <<Package("app", "dir", "", FALSE, {})>>],
      [name |-> S("ops"), packages |-> <<Package("app", "dir", "", FALSE, {})>>]>>

\* A document whose second package has neither a manifest nor a chart.
PartialDocs ==
    <<[name |-> S("demo"),
       packages |-> <<Package("app", "dir", "", FALSE, {}),
                      Package("ops", "", "", FALSE, {})>>]>>

\* A package "app" whose YAML runs the Docker Hub image kevi/app, published
\* under the same "kevi" organisation the archives are stored under.
KeviNamespaceDocs ==
    <<[name |-> S("demo"),
       packages |-> <<Package("app", "dir", "", FALSE,
                        {Img(NoHost, <<S("kevi"), S("app")>>, FALSE, "latest")})>>]>>

\* A package that renders a Deployment and a CronJob with its own image.
CronJobDocs ==
    <<[name |-> S("demo"),
       packages |-> <<[name |-> S("app"), manifest |-> "dir", chart |-> "", repoUrl |-> FALSE,
                       yaml |-> <<[shape |-> "template",
                                   images |-> {Img(S("quay.io"), <<S("app"), S("nginx")>>, FALSE, "1.25")}],
                                  [shape |-> "cronjob",
                                   images |-> {Img(S("quay.io"), <<S("ops"), S("tools")>>, FALSE, "1.25")}]>>]>>]>>
=============================================================================
