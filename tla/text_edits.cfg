SPECIFICATION Spec
CONSTANTS
    MaxRunes = 3
    MaxTypes = 1
    MaxEdits = 2
INVARIANTS
    AsksAboutTheCursor
    AppliedIsMeant
CHECK_DEADLOCK FALSE
