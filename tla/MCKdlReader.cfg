\* Documents of any length over every token, children blocks nested two deep.
CONSTANTS
    Vocabulary <- AllTokens
    Versions = {"v1", "v2", "detect"}
    MaxBlocks = 2
SPECIFICATION StringsSpec
INVARIANTS
    ReaderTypeOK
    ModeFollowsDepth
    OpenNodesAreBalanced
    PutBackTokenIsCurrent
    EventStringsLive
PROPERTIES
    KeepsPromises
    VersionIsFinal
    EndOfDataIsReported
