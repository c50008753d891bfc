\* Completion drain in which a signal may interrupt one blocked send:
\* conservation is checked against the catch that clears the ledger.
CONSTANTS
    Ids <- MCIds
    PHWM = 1
    MaxInterrupts = 1
SPECIFICATION Spec
INVARIANT CompletionConserved
CHECK_DEADLOCK FALSE
