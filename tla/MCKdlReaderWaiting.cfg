\* Refuted by the code: see the findings in README.md.
CONSTANTS
    Vocabulary <- AllTokens
    Versions = {"v2"}
    MaxBlocks = 1
SPECIFICATION StringsSpec
PROPERTY NothingWaitsAcrossABrace
