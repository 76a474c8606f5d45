SPECIFICATION Spec
CONSTANTS
    InputTypes <- MCInputTypes
    Inputs <- MCInputs
    Replies <- MCReplies
    ToolOutputs <- MCToolOutputs
    MaxModelRounds = 2
    MaxRuns = 2
    MaxMessages = 5
INVARIANTS
    TypeOK
    NativeIsReplayed
    EveryCallIsAnswered
    TurnsAlternate
    CallIdsAreUnique
    OwnRepliesAreAccepted

