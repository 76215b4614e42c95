SPECIFICATION Spec
CONSTANTS
    start1 = start1
    start2 = start2
    start3 = start3
    Nil = Nil
    Starts <- MCStarts
INVARIANTS
    SomeTickerRuns
PROPERTY
    KeepsUpdating
