SPECIFICATION Spec
CONSTANTS
    MaxAttempts = 2
    MaxCrashes = 1
    Names <- MCNames
    MaxSteps = 2
    MaxStream <- MCStream
    MaxEvents = 12
INVARIANTS
    GenerationOnce
    GenerationAdmitted
PROPERTIES
    NoGenerationPastUncertain
    AttemptEnds
CHECK_DEADLOCK FALSE
