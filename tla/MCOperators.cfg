\* One state per input: texts of 4 characters with two symbols, documents of
\* 5 lines, templates of 4, directories of 3 fragments.
CONSTANTS
    Call <- OwnersCall
    Make <- OwnersMake
    Run <- RunChain
    MaxText = 4
    MaxDocument = 5
    MaxTemplate = 4
    MaxDepth = 8
    HistoryLimit = 5
    Sources <- MCSources
    Branches <- MCBranches
    HeadBranch <- MCHead
    Tags <- MCTags
    Commits <- MCCommits
    Servers <- MCServers
    Targets <- MCTargets
    Actions <- MCActions
    WorkspaceSymbols <- MCWorkspaceSymbols
    Tags_ <- MCTagsOrder
    IndexPaths <- MCIndexPaths
    LinesOf <- MCLinesOf
    Files <- MCFiles
    Folders <- MCFolders
    RealLinks <- MCRealLinks
    Ignored <- MCIgnored
    Skills <- MCSkills
    Policy <- MCPolicy
SPECIFICATION Spec
INVARIANTS
    EditsAreSimultaneous
    ReadWriteRoundTrip
    FragmentsAreFound
    ListedIsFound
    MutationsAreOwned
    MergesLoseNothing
    SandboxShowsItsParts
    RepliesAgree
    ServerAnswersLand
\* A case leads nowhere.
CHECK_DEADLOCK FALSE
