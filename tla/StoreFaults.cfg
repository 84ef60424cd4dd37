SPECIFICATION Spec
CONSTANTS
    Ids = {"1"}
    Methods = {"session/new"}
    Bodies = {"p"}
    Layouts = {"compact", "spaced"}
    Frames <- OneLayoutFrames
    MaxSessions = 2
    MaxCalls = 3
    MaxCrashes = 2
    MaxFaults = 2
INVARIANTS TypeOK RowsHaveBlobs SealMatchesLog SeqNeverDecreases AckedDurable LiveTraceReadable
INVARIANTS NumberedUntilFault ExactUntilFailure
PROPERTIES BlobsImmutable ImplementsTraceLog
