SPECIFICATION FairSessionSpec
CONSTANTS
    Ids = {"1", "2", "3"}
    Methods = {"session/new", "session/prompt", "session/update", "shutdown"}
    Bodies <- MCBodies
    Layouts = {"compact"}
    Frames <- MCFrames
    ClientLines <- MCFrames
    AgentExtras <- NoLines
    MaxSent = 3
    MaxExtras = 0
    MaxFaults = 0
    PipeCap = 1
    AgentMayDie = TRUE
    Ends = 2
    Scripts <- MCScripts
    ClientMayQuit = TRUE
    Renumber <- CountDown
INVARIANTS ReplayGivesRecordedAnswers CompleteAfterCleanExit InspectAccountsForAll
PROPERTIES RecordingReturns CompleteTracesReplay
