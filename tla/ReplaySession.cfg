SPECIFICATION Spec
CONSTANTS
    Ids = {"1", "2", "7"}
    Methods = {"session/prompt"}
    Bodies = {"p", "q", "r", "n"}
    Layouts = {"compact", "spaced"}
    Frames <- MCFrames
    Tape <- MCTape
    MaxTape = 4
    ClientLines <- MCClient
    Remaps = {TRUE, FALSE}
    MaxLost = 1
    ReuseIds = FALSE
INVARIANTS TypeOK RecordedOrder StrictReplayExact RemapChangesIdsOnly AnswersCarryClientIds
