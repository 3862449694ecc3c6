\* Calls in any order the documentation allows, over a sink that may fail and recover.
CONSTANTS
    Texts = {"plain", "spaced"}
    Options <- AllOptions
    Values <- SomeValues
    Rooms = {0, 1, 2, 3, 4, 5, 6, 20}
    MaxDepth = 3
SPECIFICATION EmitterSpec
INVARIANTS
    EmitterTypeOK
    BracesMatchDepth
    LineStartIsKnown
PROPERTY EndFinishesTheText
