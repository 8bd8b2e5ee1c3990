SPECIFICATION Spec
CONSTANTS
    Modules <- Order
    Packages <- Packages_
    Internal = {"lib", "app"}
    NameOf <- NamesOf
    PackageOf <- SpecifierPackages
    DevOnly = {"swc"}
    KeepDeps <- Keeps
    PeerDeps <- Peers
    OptionalPeers = {"nest"}
    Known <- KnownVersions
    Versions = {"1", "2"}
    MaxEdits = 3
    MaxManifestEdits = 2
    Ignored = ignored
    Absent = absent
INVARIANT TypeOK
INVARIANT SyncedIsComplete
INVARIANT ConsistentMeansOne
PROPERTY SecondRunIsQuiet
PROPERTY DeclaredIsKept
CHECK_DEADLOCK FALSE
