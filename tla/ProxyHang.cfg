SPECIFICATION FairSpec
CONSTANTS
    Ids = {"1", "2"}
    Methods <- EchoMethods
    Bodies <- MCBodies
    Layouts = {"compact"}
    Frames <- MCFrames
    ClientLines <- ShutdownSessions
    AgentExtras <- RoughAgent
    MaxSent = 1
    MaxExtras = 0
    MaxFaults = 0
    PipeCap = 1
    AgentMayDie = FALSE
PROPERTY ReturnsOnceAgentGone
