\* Safety of the broker: two workers, both may disconnect, w2 may send a
\* stray COMPLETE, REGISTER may carry stride 0; the broker's behaviours are
\* those of the abstract completion ledger.
CONSTANTS
    w1 = w1
    w2 = w2
    Peers <- MCPeers
    MortalPeers <- MCPeers
    FaultyPeers = {w2}
    Subscriptions <- MCSubscriptions
    NItems = 3
    HWM = 2
SPECIFICATION Spec
INVARIANT TypeOK
INVARIANT AtMostOneOutstanding
INVARIANT NoIdleWorkerWithWaiting
INVARIANT QueuePolicyBound
INVARIANT CompletionReportedOnce
INVARIANT WorkItemInFlight
PROPERTY LedgerSpec
\* the only states without a successor are those after the broker crashed
CHECK_DEADLOCK FALSE
