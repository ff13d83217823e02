------------------------------- MODULE KeviRef -------------------------------
(***************************************************************************)
(* References, package identities and media types of kevi, as pure         *)
(* operators.                                                               *)
(*                                                                          *)
(* A reference is abstracted to its parsed parts rather than its string:   *)
(*   host  the registry host, or NoHost when the written string has none   *)
(*   repo  the repository path, a sequence of 1 or 2 path segments         *)
(*   dig   TRUE for a digest-qualified reference, FALSE for a tag          *)
(*   id    the tag or digest                                                *)
(* A path segment is a record [dash, base]: the string "kevi-" repeated    *)
(* dash times, then a base name that does not itself start with "kevi-".  *)
(* A base in DottedBases contains a '.' or a ':', which is what makes the  *)
(* parser of go-containerregistry read a leading segment as a registry     *)
(* host; a host is therefore a segment of that kind.                       *)
(***************************************************************************)
EXTENDS Naturals, Sequences

CONSTANTS
    Bases,        \* base names of path segments
    DottedBases,  \* the bases that contain a '.'
    KeviBase,     \* "kevi": fetcher.DefaultRepositoryNamespace
    LibraryBase,  \* "library": the Docker Hub namespace of one-segment names
    Hosts,        \* the registry hosts of the instance, as segments
    DockerHub,    \* "index.docker.io": name.DefaultRegistry
    NoHost,       \* the host part of a written reference that has none
    Ids,          \* tags and digests
    Latest,       \* "latest": name.DefaultTag
    MaxDash       \* bound on the number of "kevi-" prefixes of a segment

ASSUME RefAssumption ==
    /\ DottedBases \subseteq Bases
    /\ {KeviBase, LibraryBase} \subseteq Bases \ DottedBases
    /\ KeviBase # LibraryBase
    /\ DockerHub \in Hosts
    /\ NoHost \notin [dash : Nat, base : Bases]
    /\ Latest \in Ids
    /\ MaxDash \in Nat
    /\ Hosts \subseteq [dash : {0}, base : DottedBases]

Seg == [dash : 0..MaxDash, base : Bases]
KeviSeg == [dash |-> 0, base |-> KeviBase]
LibrarySeg == [dash |-> 0, base |-> LibraryBase]

\* "kevi-" + s
KeviDash(s) == [s EXCEPT !.dash = @ + 1]

\* strings.HasPrefix(s, "kevi-")
HasKeviPrefix(s) == s.dash > 0

\* The test go-containerregistry applies to the first component of a name
\* to decide whether it is a registry (a '.' or ':' in it).
HostLike(s) == s.base \in DottedBases

\* A registry host: a dotted segment.
Host == {s \in Seg : HostLike(s)}

Repo == {<<s>> : s \in Seg} \cup {<<s, t>> : s, t \in Seg}
Ref == [host : Host \cup {NoHost}, repo : Repo, dig : BOOLEAN, id : Ids]

(***************************************************************************)
(* name.ParseReference(w, name.WithDefaultRegistry(dflt)).Name(): a        *)
(* written reference without a host takes its first segment as the host   *)
(* when that segment looks like one and is followed by a further segment, *)
(* and the default registry otherwise; on Docker Hub a one-segment         *)
(* repository gets the "library/" namespace.                               *)
(***************************************************************************)
ParseRef(w, dflt) ==
    LET split == w.host = NoHost /\ Len(w.repo) = 2 /\ HostLike(w.repo[1])
        h     == IF w.host # NoHost THEN w.host
                 ELSE IF split THEN w.repo[1] ELSE dflt
        p     == IF split THEN Tail(w.repo) ELSE w.repo
    IN  [w EXCEPT !.host = h,
                  !.repo = IF h = DockerHub /\ Len(p) = 1
                             THEN <<LibrarySeg, p[1]>> ELSE p]

(***************************************************************************)
(* pack.Relocate(ref, registry): parse the reference, re-parse its         *)
(* repository path alone with the target as default registry, and put the *)
(* original digest or tag back on it.                                      *)
(***************************************************************************)
Relocate(ref, registry) ==
    LET or  == ParseRef(ref, DockerHub)
        rel == ParseRef([host |-> NoHost, repo |-> or.repo,
                         dig |-> FALSE, id |-> Latest], registry)
    IN  [rel EXCEPT !.dig = or.dig, !.id = or.id]

\* path.Join(fetcher.DefaultRepositoryNamespace, name): the reference a
\* package archive is stored under by Manifest.Reference / Chart.Reference.
PkgRef(n) == [host |-> NoHost, repo |-> <<KeviSeg, n>>, dig |-> FALSE, id |-> Latest]

\* Mutant of SetRef: the "kevi-" prefix left out.
SetRefNoPrefix(k) == PkgRef(k)

\* path.Join(DefaultRepositoryNamespace, "kevi-"+k.Name): the reference of
\* the package-set artifact written by Oci.Pack.
SetRef(k) == PkgRef(KeviDash(k))

\* registry.Locate(pkg): the reference a package is fetched from.
Locate(n, host) ==
    ParseRef([host |-> host, repo |-> <<KeviSeg, n>>, dig |-> FALSE, id |-> Latest], host)

(***************************************************************************)
(* The test deploy applies to every reference of the store:                *)
(* len(strings.Split(reference, "/kevi-")) > 1, i.e. some segment that    *)
(* follows a '/' starts with "kevi-".                                      *)
(***************************************************************************)
IsKeviConfigRef(w) ==
    \E i \in 1..Len(w.repo) : HasKeviPrefix(w.repo[i]) /\ (i > 1 \/ w.host # NoHost)

(***************************************************************************)
(* Packages: KeviSpecPackage with its source reduced to what the code     *)
(* branches on.  manifest is "" or "dir"; chart is "", "dir", "tgz" (a    *)
(* path ending in .tgz) or "targz" (a path ending in .tar.gz); repoUrl   *)
(* says whether a chart repository URL is set; images are the image       *)
(* references its rendered YAML carries, as written.                      *)
(***************************************************************************)
ManifestPaths == {"", "dir"}
ChartPaths == {"", "dir", "tgz", "targz"}

\* KeviSpecPackage.Identify
Identify(pkg) ==
    IF pkg.manifest # "" THEN "manifest"
    ELSE IF pkg.chart # "" \/ pkg.repoUrl THEN "chart"
    ELSE "unknown"

\* The path Chart.tgz archives: the given path, or the .tgz that
\* ChartPathOptions.LocateChart downloads from the repository.
ChartArchivePath(pkg) == IF pkg.chart # "" THEN pkg.chart ELSE "tgz"

\* Chart.tgz succeeds: filepath.Ext is ".tgz" (read verbatim) or the path is
\* a directory (tarred).  filepath.Ext of "x.tar.gz" is ".gz", so a .tar.gz
\* path falls through to os.Stat and "expected chart directory but got file".
ChartTgzOk(pkg) == ChartArchivePath(pkg) \in {"tgz", "dir"}

\* Media types: the layer each artifact kind carries (memory.NewMemory in
\* Manifest.Contents, Chart.Contents and Oci.Pack; image layers otherwise).
Kinds == {"manifest", "chart", "set", "image"}
LayerType(kind) ==
    CASE kind = "manifest" -> "ManifestLayerMediaType"
      [] kind = "chart"    -> "ChartLayerMediaType"
      [] kind = "set"      -> "KeviPackageLayerMediaType"
      [] kind = "image"    -> "ImageLayerMediaType"
\* Mutant of ContentMediaType: a chart asks for the chart config type.
ContentMediaTypeConfig(pkg) ==
    CASE Identify(pkg) = "manifest" -> "ManifestLayerMediaType"
      [] Identify(pkg) = "chart"    -> "ChartConfigMediaType"

\* registry.contentMediaType: the only layer type Fetch copies for a package.
ContentMediaType(pkg) ==
    CASE Identify(pkg) = "manifest" -> "ManifestLayerMediaType"
      [] Identify(pkg) = "chart"    -> "ChartLayerMediaType"
=============================================================================
