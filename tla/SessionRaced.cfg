SPECIFICATION SessionSpec
CONSTANTS
    Ids = {"1", "2", "3"}
    Methods = {"session/new", "session/prompt", "session/update", "shutdown"}
    Bodies <- MCBodies
    Layouts = {"compact"}
    Frames <- MCFrames
    ClientLines <- MCFrames
    AgentExtras <- NoLines
    MaxSent = 3
    MaxExtras = 0
    MaxFaults = 0
    PipeCap = 1
    AgentMayDie = FALSE
    Ends = 2
    Scripts <- EndInShutdown
    ClientMayQuit = FALSE
    Renumber <- CountDown
INVARIANT SameClientReplays
