SPECIFICATION Spec
CONSTANTS
    InputTypes <- MCInputTypes
    Inputs <- TextInputs
    Replies <- MCReplies
    ToolOutputs <- TextOutputs
    MaxModelRounds = 2
    MaxRuns = 2
    MaxMessages = 4
INVARIANT SessionIsPortable
