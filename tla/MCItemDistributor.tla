------------------------- MODULE MCItemDistributor -------------------------
EXTENDS ItemDistributor

CONSTANTS w1, w2

MCPeers == {w1, w2}

\* subscriptions a correct worker sends
MCValidSubscriptions ==
    {[stride |-> 1, offset |-> 0], [stride |-> 2, offset |-> 0], [stride |-> 2, offset |-> 1]}

\* REGISTER is not validated: stride 0 is accepted as well
MCSubscriptions == MCValidSubscriptions \cup {[stride |-> 0, offset |-> 0]}
=============================================================================
