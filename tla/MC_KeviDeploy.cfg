CONSTANTS
    Bases <- MCBases
    DottedBases <- MCDotted
    KeviBase = "kevi"
    LibraryBase = "library"
    Hosts <- MCHosts
    DockerHub <- Hub
    Target <- Reg
    InitRemote <- MCInitRemote
    NoHost = NoHost
    NoRef = NoRef
    Ids <- MCIds
    Latest = "latest"
    MaxDash = 1
    Docs <- MCDocs
    Faults = TRUE
    MaxCrashes = 1
SPECIFICATION Spec
INVARIANTS
    TypeOK
    PackedKevisIntact
    DeployedIsPacked
    WebhookImageIntact
    NoKeviForgotten
PROPERTIES
    AppliedKevisSynced
    SyncedInOrder
