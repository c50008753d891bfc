\* Decoding of the worker envelope: two connections, a REGISTER and a
\* COMPLETE command, one payload.
CONSTANTS
    r1 = r1
    r2 = r2
    register = register
    complete = complete
    payload = payload
    empty = empty
    undefined = undefined
    RoutingIds = {r1, r2}
    Commands = {register, complete}
    Payloads = {payload}
    Empty = empty
    Undefined = undefined
SPECIFICATION Spec
INVARIANT EnvelopeDecoded
