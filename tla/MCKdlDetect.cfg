\* The detecting parser against the v2 and the v1 parser, over every token.
CONSTANTS
    Vocabulary <- AllTokens
    Versions = {"detect"}
    MaxBlocks = 1
SPECIFICATION DetectSpec
INVARIANTS
    FollowsV2
    FollowsV1OnceSettled
    AcceptedInOneVersionIfSettled
VIEW NotRejected
