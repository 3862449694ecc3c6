\* Documents nested two deep, without the strings that are quoted wrongly.
CONSTANTS
    Texts = {"plain", "unicode", "spaced", "newer", "hash"}
    Options <- AllModes
    Values <- PlainValues
    Rooms = {60}
    MaxDepth = 2
    KeyTexts <- TwoKeys
    MaxProps = 2
SPECIFICATION RoundTripSpec
INVARIANTS
    ReadsAllThatWasWritten
    WrittenTextIsAccepted
PROPERTY ReadsWhatWasWritten
VIEW WithoutOutput
