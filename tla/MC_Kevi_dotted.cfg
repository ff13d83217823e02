CONSTANTS
    Bases <- FBases
    DottedBases <- FDotted
    KeviBase = "kevi"
    LibraryBase = "library"
    Hosts <- FHosts
    DockerHub <- Hub
    Target <- Reg
    InitRemote <- NoRemote
    NoHost = NoHost
    NoRef = NoRef
    Ids <- FIds
    Latest = "latest"
    MaxDash = 1
    Docs <- DottedDocs
    Faults = FALSE
    MaxCrashes = 0
SPECIFICATION Spec
INVARIANT WebhookImageIntact
