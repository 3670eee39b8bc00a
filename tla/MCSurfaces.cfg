\* The calls of a case end.
SPECIFICATION Spec
CONSTANTS
    Tile = 2
    PitchAlign = 4
    LevelAlign = 4
    Guard = 2
    Word = 2
    Formats <- MCFormats
    Cases <- AllCases
    None = None
INVARIANT GuardsIntact
PROPERTY KeepsPictures
CHECK_DEADLOCK FALSE
