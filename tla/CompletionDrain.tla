--------------------------- MODULE CompletionDrain ---------------------------
(***************************************************************************)
(* send_pending_completions() of src/ItemDistributor.hpp and the PAIR      *)
(* socket it writes to.  Every handler of the broker ends by draining      *)
(* completed_items_, the vector that ~Item() appends to: the for loop      *)
(* sends each id as one frame to the producer, a zmq::error_t ends the     *)
(* loop and is logged, and the vector is cleared whatever happened.        *)
(*                                                                         *)
(* The send uses cppzmq's default flags, so it blocks while the outbound   *)
(* pipe to the producer holds PHWM frames; a signal that interrupts the    *)
(* blocked zmq_send (EINTR) makes cppzmq throw.  The producer is another   *)
(* process (not under src/) that reads the frames.                         *)
(*                                                                         *)
(* A handler releases ids that were never released before: LedgerExact     *)
(* (LedgerProofs) shows that the broker reports each item exactly once.    *)
(* The handler's other work is in ItemDistributor; here a handler is the   *)
(* set of ids whose last reference it dropped.                             *)
(***************************************************************************)
EXTENDS Naturals, Sequences, FiniteSets, SequencesExt

CONSTANTS
    Ids,            \* the item ids the producer sends
    PHWM,           \* send high-water mark of the PAIR socket, in frames
    MaxInterrupts   \* the most blocked sends a signal interrupts

ASSUME DrainAssumption ==
    /\ IsFiniteSet(Ids)
    /\ PHWM \in Nat \ {0}
    /\ MaxInterrupts \in Nat

VARIABLES
    released,    \* the ids whose ~Item() has run
    completed,   \* completed_items_
    pos,         \* the index in completed_items_ of the next id the loop sends
    busy,        \* the broker thread is inside send_pending_completions()
    pipe,        \* the PAIR socket's pipe of frames to the producer
    received,    \* received[i]: the frames with id i the producer has read
    interrupts   \* the sends interrupted so far

vars == <<released, completed, pos, busy, pipe, received, interrupts>>

Init ==
    /\ released = {}
    /\ completed = << >>
    /\ pos = 1
    /\ busy = FALSE
    /\ pipe = << >>
    /\ received = [i \in Ids |-> 0]
    /\ interrupts = 0

\* A handler of the broker drops the last references to the ids in S: each
\* ~Item() appends its id, in some order, and the handler then enters
\* send_pending_completions().
Handler ==
    /\ ~busy
    /\ \E S \in SUBSET (Ids \ released) \ {{}} :
          /\ released' = released \cup S
          /\ \E order \in SetToSeqs(S) : completed' = completed \o order
    /\ pos' = 1
    /\ busy' = TRUE
    /\ UNCHANGED <<pipe, received, interrupts>>

\* Mutant: the loop does not move on after a send
SendFrameNoAdvance ==
    /\ busy
    /\ pos <= Len(completed)
    /\ Len(pipe) < PHWM
    /\ pipe' = Append(pipe, completed[pos])
    /\ UNCHANGED <<released, completed, pos, busy, received, interrupts>>

\* Mutant: the send never waits for room in the pipe
SendFrameNoHwm ==
    /\ busy
    /\ pos <= Len(completed)
    /\ pipe' = Append(pipe, completed[pos])
    /\ pos' = pos + 1
    /\ UNCHANGED <<released, completed, busy, received, interrupts>>

\* generator_socket_.send(): the frame is queued once the pipe has room
SendFrame ==
    /\ busy
    /\ pos <= Len(completed)
    /\ Len(pipe) < PHWM
    /\ pipe' = Append(pipe, completed[pos])
    /\ pos' = pos + 1
    /\ UNCHANGED <<released, completed, busy, received, interrupts>>

\* the blocked send is interrupted and throws zmq::error_t; the catch logs
\* it and completed_items_.clear() drops the ids not sent yet
SendInterrupted ==
    /\ busy
    /\ pos <= Len(completed)
    /\ Len(pipe) >= PHWM
    /\ interrupts < MaxInterrupts
    /\ interrupts' = interrupts + 1
    /\ completed' = << >>
    /\ pos' = 1
    /\ busy' = FALSE
    /\ UNCHANGED <<released, pipe, received>>

\* Mutant: the vector is cleared before the loop has sent every id
DrainDoneEarly ==
    /\ busy
    /\ completed' = << >>
    /\ pos' = 1
    /\ busy' = FALSE
    /\ UNCHANGED <<released, pipe, received, interrupts>>

\* the loop has sent every id; the vector is cleared
DrainDone ==
    /\ busy
    /\ pos > Len(completed)
    /\ completed' = << >>
    /\ pos' = 1
    /\ busy' = FALSE
    /\ UNCHANGED <<released, pipe, received, interrupts>>

\* the producer reads the next completion frame
ProducerRead ==
    /\ pipe # << >>
    /\ received' = [received EXCEPT ![Head(pipe)] = @ + 1]
    /\ pipe' = Tail(pipe)
    /\ UNCHANGED <<released, completed, pos, busy, interrupts>>

Next == Handler \/ SendFrame \/ SendInterrupted \/ DrainDone \/ ProducerRead

Spec == Init /\ [][Next]_vars

\* The poller and the loop keep the broker thread running; the producer
\* is a separate process: FairSpec assumes it keeps reading, BrokerFairSpec
\* does not.
BrokerFairness == WF_vars(SendFrame) /\ WF_vars(DrainDone)

FairSpec == Spec /\ BrokerFairness /\ WF_vars(ProducerRead)

BrokerFairSpec == Spec /\ BrokerFairness

-----------------------------------------------------------------------------
\* the number of times id i occurs in the sequence s
Occurrences(i, s) == Cardinality({j \in 1 .. Len(s) : s[j] = i})

\* the ids the drain loop has still to send
Unsent == SubSeq(completed, pos, Len(completed))

\* The state is well formed, and the pipe never holds more than the
\* high-water mark lets the send queue.
DrainTypeOK ==
    /\ released \subseteq Ids
    /\ completed \in Seq(Ids)
    /\ pos \in 1 .. Len(completed) + 1
    /\ busy \in BOOLEAN
    /\ pipe \in Seq(Ids) /\ Len(pipe) <= PHWM
    /\ received \in [Ids -> Nat]
    /\ interrupts \in 0 .. MaxInterrupts

\* Completion conservation (spec section 8, property 1): every released id
\* is, at every moment, in exactly one place (not yet sent by the drain
\* loop, in the pipe, or read by the producer) and in that place once; an
\* id never released is nowhere.
CompletionConserved ==
    \A i \in Ids :
        Occurrences(i, Unsent) + Occurrences(i, pipe) + received[i]
            = IF i \in released THEN 1 ELSE 0

\* No completion is ever duplicated, even when a signal interrupts a send:
\* every id is in at most one place, once, and only if it was released.
\* A drain that kept the unsent ids and sent the whole vector again would
\* send the ids before the interrupted one twice.
NoDuplicateCompletion ==
    \A i \in Ids :
        Occurrences(i, Unsent) + Occurrences(i, pipe) + received[i]
            <= IF i \in released THEN 1 ELSE 0

\* Every id the broker releases reaches the producer when the producer
\* keeps reading, unless a send is interrupted first (drain_interrupt shows
\* what is lost then).
EveryCompletionDelivered ==
    \A i \in Ids : i \in released ~> (received[i] = 1 \/ interrupts > 0)

\* Spec section 5: transmits are non-blocking, so the broker always gets
\* back to poller.wait() after draining completions.
DrainReturns == busy ~> ~busy

=============================================================================
