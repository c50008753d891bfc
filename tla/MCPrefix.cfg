\* The writer is built before the common prefix is computed.
CONSTANTS
    prefix = prefix
    maxItems = maxItems
    f1 = f1
    f2 = f2
    OtherOptions <- MCOtherOptions
    PrefixOption = prefix
    Files <- MCFiles
    MaxTimeslices = 2
SPECIFICATION Spec
INVARIANT WriterUsesResolvedPrefix
\* main returns: a state with pc = "done" has no successor
CHECK_DEADLOCK FALSE
