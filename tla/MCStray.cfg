\* Workers never disconnect, but w2 may send a stray COMPLETE and a REGISTER
\* may carry stride 0: does the broker survive frames the spec says are
\* dropped?
CONSTANTS
    w1 = w1
    w2 = w2
    Peers <- MCPeers
    MortalPeers = {}
    FaultyPeers = {w2}
    Subscriptions <- MCSubscriptions
    NItems = 3
    HWM = 2
SPECIFICATION Spec
\* the only states without a successor are those after the broker crashed
CHECK_DEADLOCK FALSE
INVARIANT BrokerSurvives
