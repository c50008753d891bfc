------------------------- MODULE MCWorkerEnvelope -------------------------
EXTENDS WorkerEnvelope

CONSTANTS r1, r2, register, complete, payload, empty, undefined
=============================================================================
