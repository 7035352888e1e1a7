SPECIFICATION Spec
CONSTANTS
    MaxRunes = 4
    MaxTokens = 2
INVARIANTS
    LettersHaveTheirStyle
    RunsAreJoined
    DataIsTheServers
