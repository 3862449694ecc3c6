\* Buffers that grow by 2. Limbs of 5 bits, doubles of 3 digits with powers of ten below 5; characters in 24 bits.
CONSTANTS
    Subjects <- AllSubjects
    Elements <- AllElements
    MaxLength <- AllLengths
    AccumulatorBits = 24
    BufferIncrement = 2
    DigitBits = 5
    LimbsPerLongLong = 2
    MaxDecimals = 2
    ExactDigits = 3
    ExponentLimit = 5
    MantissaBits = 10
SPECIFICATION DataSpec
INVARIANTS
    EscapedTextComesBack
    UnescapesWhatIsWritten
    WritesStayInTheBuffer
    DedentUndoesIndenting
    ReadsAsEveryVersionLeft
    NumbersAreRead
    EmitsInOrderWithoutDuplicates
    HoldsFreeableInFront
    PointersStayGood
    ReadersAgree
    DocumentComesBack
CHECK_DEADLOCK FALSE
