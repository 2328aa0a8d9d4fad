SPECIFICATION Spec
CONSTANTS
    Configs <- MCConfigs
    Answers <- MCAnswers
    Quantum = 250
INVARIANTS
    AnswerFromWire
    CallsOfAnswer
    SendsSound
PROPERTIES
    StopWins
CHECK_DEADLOCK FALSE
