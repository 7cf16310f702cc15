SPECIFICATION Spec
CONSTANTS
    maxsize = 100
    Commit <- MCCommit
    TagVersions <- MCTagVersions
    NoVersion = NoVersion
    Committer = Committer
    Bot = Bot
    MaxCommits = 2
    Project <- MCProject
    ReqFile <- MCReqFile
    Requirements <- MCRequirements
    TestRequirements <- MCTestRequirements
    PY_REQUIREMENTS_FILES = {"old"}
    MaxNesting = 3
    TrueMarkers = {"py2"}
    BadMarkers = {"py4k"}
    EnvVersions <- MCEnvVersions
INVARIANTS
    SetupTypeOK
    PathRestored
    DistributionFaithful
    ArgumentsKept
