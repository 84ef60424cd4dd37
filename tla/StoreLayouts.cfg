SPECIFICATION Spec
CONSTANTS
    Ids = {"1"}
    Methods = {"session/new"}
    Bodies = {"p"}
    Layouts = {"compact", "spaced"}
    Frames <- TwoLayoutFrames
    MaxSessions = 1
    MaxCalls = 2
    MaxCrashes = 0
    MaxFaults = 0
INVARIANT AckedFramesExact
