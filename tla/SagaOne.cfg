SPECIFICATION FairSpec
CONSTANTS
    d1 = d1
    Drivers = {d1}
    N = 4
    Compensable <- NotSecond
    NoLetter = NoLetter
    MaxCrashes = 2
    MaxReplays = 1
INVARIANTS
    SagaInv
    UndoneInReverse
PROPERTIES
    OutcomeIsFinal
    Ends
