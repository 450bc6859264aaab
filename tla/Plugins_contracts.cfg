SPECIFICATION Spec
CONSTANTS
    a = a
    b = b
    Unused = Unused
INVARIANTS
    RowsKept
    ReportIsTrue
    DuplicatesExplained
    ReadyIsWritten
    EmittedInOrder
    ConnectionsAccounted
    NobodyWaitsForever
    LettersKept
    ScanIsTrue
    AttemptsCounted
    ViewIsTrue
PROPERTIES
    SinkContract
    SourceContract
\* A part stops: it is closed, or the bounds are reached.
CHECK_DEADLOCK FALSE
