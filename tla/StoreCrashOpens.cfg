SPECIFICATION Spec
CONSTANTS
    Ids = {"1"}
    Methods = {"session/new"}
    Bodies = {"p"}
    Layouts = {"compact", "spaced"}
    Frames <- OneLayoutFrames
    MaxSessions = 1
    MaxCalls = 1
    MaxCrashes = 1
    MaxFaults = 0
INVARIANT CrashedRecordingOpens
