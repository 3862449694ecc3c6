\* Refuted by the code: see the findings in README.md.
CONSTANTS
    Texts = {"plain", "keyword"}
    Options <- DefaultOptions
    Values <- PlainValues
    Rooms = {60}
    MaxDepth = 1
    KeyTexts <- TwoKeys
    MaxProps = 1
SPECIFICATION RoundTripSpec
INVARIANT WrittenTextIsAccepted
