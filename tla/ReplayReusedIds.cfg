SPECIFICATION Spec
CONSTANTS
    Ids = {"1", "2", "7"}
    Methods = {"session/prompt"}
    Bodies = {"p", "q", "r", "n"}
    Layouts = {"compact", "spaced"}
    Frames <- MCFrames
    Tape <- ReuseTape
    MaxTape = 4
    ClientLines <- MCClient
    Remaps = {TRUE}
    MaxLost = 0
    ReuseIds = TRUE
INVARIANT AnswersCarryClientIds
