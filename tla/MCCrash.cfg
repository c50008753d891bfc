\* Correct workers that may disconnect: does the broker survive?
CONSTANTS
    w1 = w1
    w2 = w2
    Peers <- MCPeers
    MortalPeers <- MCPeers
    FaultyPeers = {}
    Subscriptions <- MCValidSubscriptions
    NItems = 3
    HWM = 2
SPECIFICATION Spec
\* the only states without a successor are those after the broker crashed
CHECK_DEADLOCK FALSE
INVARIANT BrokerSurvives
