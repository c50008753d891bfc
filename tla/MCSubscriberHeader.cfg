\* A message whose archive header does not decode: get() throws instead of
\* returning nullptr at the end of the stream.
CONSTANTS
    NMsgs = 2
    RcvHwm = 1
SPECIFICATION Spec
INVARIANT GetReturnsItemOrEnd
CHECK_DEADLOCK FALSE
