\* Every command line over four switches, two named options and two inputs.
CONSTANTS
    prefix = prefix
    maxItems = maxItems
    f1 = f1
    f2 = f2
    OtherOptions <- MCOtherOptions
    PrefixOption = prefix
    Files <- MCFiles
    MaxTimeslices = 2
SPECIFICATION Spec
INVARIANT TypeOK
INVARIANT UsageErrorExplained
INVARIANT ConvertsOnlyWhenRequested
\* main returns: a state with pc = "done" has no successor
CHECK_DEADLOCK FALSE
