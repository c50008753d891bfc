\* Every produced item is reported back, unless the broker dies;
\* stray COMPLETEs and stride 0 only crash the broker and are left to MCItemDistributor.
CONSTANTS
    w1 = w1
    w2 = w2
    Peers <- MCPeers
    MortalPeers <- MCPeers
    FaultyPeers = {}
    Subscriptions <- MCValidSubscriptions
    NItems = 3
    HWM = 2
SPECIFICATION FairSpec
\* the only states without a successor are those after the broker crashed
CHECK_DEADLOCK FALSE
PROPERTY AllItemsReported
