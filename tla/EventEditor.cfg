SPECIFICATION EditorSpec
CONSTANTS
    MaxRequests = 2
    MaxFaults = 1
    MaxVersion = 3
    Events <- MCEvents
    Texts <- MCTexts
    Sessions <- MCSessions
    first = first
    second = second
SYMMETRY Symmetry
INVARIANTS
    EditorTypeOK
    GridCurrent
PROPERTIES
    TextKept
    CreatedOnce
    ImplementsEventEditing
CHECK_DEADLOCK FALSE
