SPECIFICATION FairSpec
CONSTANTS
    Ids = {"1", "2"}
    Methods <- EchoMethods
    Bodies <- MCBodies
    Layouts = {"compact"}
    Frames <- MCFrames
    ClientLines <- LiveLines
    AgentExtras <- LiveAgent
    MaxSent = 2
    MaxExtras = 2
    MaxFaults = 1
    PipeCap = 1
    AgentMayDie = FALSE
INVARIANTS ForwardedIntact TraceMirrorsWire
PROPERTIES ReturnsOnceClientCloses SealsOnceAgentGone
