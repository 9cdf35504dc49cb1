SPECIFICATION Spec
CONSTANTS
    MAX_LINE_LEN = 4
    Char = {32, 97}
    Raw = {255}
    max_size = 2
    Blank = {32}
INVARIANTS
    InBounds
    CleanTail
    HistoryOK
    ScreenMatches
    QuotingRoundTrip
    ParsedAsMeant
PROPERTIES
    EditsLine
