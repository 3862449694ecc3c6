\* Children blocks nested three deep, so that a slashdash can stand two levels
\* inside a node that has had a block already.
CONSTANTS
    Vocabulary <- StructuralTokens
    Versions = {"v2"}
    MaxBlocks = 3
SPECIFICATION SlashdashSpec
INVARIANTS
    CounterIsOutermostHidden
PROPERTIES
    ExactlyTheHiddenIsRemoved
    OneShownBlockAfterTheEntries
