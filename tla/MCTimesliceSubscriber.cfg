\* Four publications of every kind into a queue of two.
CONSTANTS
    NMsgs = 4
    RcvHwm = 2
SPECIFICATION Spec
INVARIANT TypeOK
\* get() blocks in recv for good once the publisher has sent everything
CHECK_DEADLOCK FALSE
