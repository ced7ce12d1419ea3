SPECIFICATION Spec
CONSTANTS
    Lines <- MCLines
    MaxLines = 3
    MaxStarts = 2
INVARIANTS
    LoadsLineByLine
    NumberIsTaken
    RestartReadsTheSame
CHECK_DEADLOCK FALSE
