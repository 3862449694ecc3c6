CONSTANTS
    Documents <- AllTexts
    Increment = 4
    MinSize = 2
    MaxFailures = 1
SPECIFICATION TokenizerSpec
INVARIANTS
    PointersStayInside
PROPERTIES
    EveryByteIsReadOnce
    ReadsTheWholeText
    ComesToAnEnd
CHECK_DEADLOCK FALSE
