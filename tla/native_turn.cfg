SPECIFICATION Spec
CONSTANTS
    MaxTurns <- TwoOrThree
    MaxEvents = 2
    MaxMessages = 5
    Counters = {input, output}
    MaxSpent = 2
CHECK_DEADLOCK FALSE
INVARIANTS
    CommandsSettled
    AnswerComplete
    UsageAddsUp
