\* Completion drain in which a signal may interrupt one blocked send, with a
\* producer that keeps reading: no completion id is ever duplicated, and
\* until a send is interrupted every released id reaches the producer.  The
\* ids are finite, so the system stops once all are drained and read.
CONSTANTS
    Ids <- MCIds
    PHWM = 1
    MaxInterrupts = 1
SPECIFICATION FairSpec
INVARIANTS DrainTypeOK NoDuplicateCompletion
PROPERTY EveryCompletionDelivered
CHECK_DEADLOCK FALSE
