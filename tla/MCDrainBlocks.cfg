\* Completion drain with a producer that may stop reading: does the broker
\* always get back to its poll loop?
CONSTANTS
    Ids <- MCIds
    PHWM = 1
    MaxInterrupts = 0
SPECIFICATION BrokerFairSpec
PROPERTY DrainReturns
CHECK_DEADLOCK FALSE
