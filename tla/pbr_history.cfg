SPECIFICATION HistorySpec
CONSTANTS
    maxsize = 100
    Commit <- MCCommit
    TagVersions <- MCTagVersions
    NoVersion = NoVersion
    Committer = Committer
    Bot = Bot
    MaxCommits = 3
INVARIANTS
    BetweenReleases
    VersionsGrow
    StringsFaithful
    HistoryTold
CHECK_DEADLOCK FALSE
