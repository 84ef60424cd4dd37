SPECIFICATION Spec
CONSTANTS
    Ids = {"1", "2"}
    Methods <- EchoMethods
    Bodies <- MCBodies
    Layouts = {"compact"}
    Frames <- MCFrames
    ClientLines <- RoughLines
    AgentExtras <- RoughAgent
    MaxSent = 2
    MaxExtras = 1
    MaxFaults = 0
    PipeCap = 1
    AgentMayDie = TRUE
INVARIANTS TypeOK ForwardedIntact TraceMirrorsWire SealedHasAgentFrames OfflineReplayIsPrefix SeqIsPosition
