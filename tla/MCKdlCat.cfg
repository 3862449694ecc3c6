\* A sink that may fail at any point and recover, nodes nested three deep.
CONSTANTS
    Texts = {"plain"}
    Options <- AllOptions
    Values <- SomeValues
    Rooms = {0, 1, 2, 3, 4, 5, 7, 9, 30}
    MaxDepth = 3
    KeyTexts <- TwoKeys
    MaxProps = 2
SPECIFICATION CatSpec
INVARIANTS
    EmitterFollowsTheNodes
    PropertiesStayWithTheirNode
    TrueMeansWritten
    TextIsClosedInTheEnd
