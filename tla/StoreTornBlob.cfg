SPECIFICATION Spec
CONSTANTS
    Ids = {"1"}
    Methods = {"session/new"}
    Bodies = {"p"}
    Layouts = {"compact", "spaced"}
    Frames <- OneLayoutFrames
    MaxSessions = 1
    MaxCalls = 2
    MaxCrashes = 0
    MaxFaults = 1
INVARIANT AckedFramesLoad
