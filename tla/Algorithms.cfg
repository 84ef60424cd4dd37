SPECIFICATION Spec
CONSTANTS
    Ids = {"1"}
    Methods = {"session/new"}
    Bodies = {"p"}
    Layouts = {"compact"}
    Frames <- MCFrames
    Entries <- MCEntries
    MaxSteps = 4
    Bytes <- MCBytes
    MaxInput = 6
    Values <- MCValues
    MaxDepth = 2
INVARIANTS DiffTypeOK AlignmentComplete MostCommon ExitTellsDifference
INVARIANTS ReaderTypeOK ReadsEveryLine RelayReadsBack
INVARIANTS CanonicalIdentity KeysInRfcOrder CanonicalOneLine
