CONSTANTS
    NumPaths = 3
    remote = remote
    embedded = embedded
    own = own
    Absent = Absent
    Partial = Partial
    Releases <- MCReleases
    Contents <- MCContents
    Generates <- MCGenerates
    Embedded <- MCEmbedded
    Executables <- MCExecutables
    ConcurrentEdits = FALSE
    MaxDepth = 3
    MaxPlans = 3

SPECIFICATION Spec

INVARIANTS
    TypeOK
    PlansAreChains
    ManifestHolds

PROPERTIES
    AuthoredIsKept
