--------------------------- MODULE ItemDistributor ---------------------------
(***************************************************************************)
(* The broker of src/ItemDistributor.hpp: one producer sends work items    *)
(* over a PAIR socket, workers connect to a ROUTER socket, register a      *)
(* (stride, offset, queue policy) subscription, receive WORK_ITEMs and     *)
(* answer with COMPLETEs.  An Item is held under shared ownership by the   *)
(* workers' waiting and outstanding queues; the destructor of the last     *)
(* reference appends its id to completed_items_, which every handler       *)
(* drains to the producer (send_pending_completions).                      *)
(*                                                                         *)
(* The broker is one thread: each handler is one atomic step.  The         *)
(* transport is modelled by per-peer FIFO pipes, the routing table of the  *)
(* ROUTER socket (conn) and its send high-water mark (HWM), at which a     *)
(* send blocks the broker until the worker has read.  The workers          *)
(* are external peers (their code is not under src/): each connects,       *)
(* sends REGISTER, answers every WORK_ITEM with a COMPLETE and may close   *)
(* its connection, which queues a disconnect notification                  *)
(* (ZMQ_NOTIFY_DISCONNECT) behind the messages it already sent.            *)
(***************************************************************************)
EXTENDS Naturals, Sequences, FiniteSets

CONSTANTS
    Peers,          \* routing ids of worker connections (a reconnect is a new peer)
    MortalPeers,    \* the peers whose connection may close
    FaultyPeers,    \* the peers that may send a COMPLETE for an item they do not hold
    NItems,         \* the producer sends the item ids 0 .. NItems-1
    Subscriptions,  \* the (stride, offset) pairs a REGISTER may carry
    HWM             \* send high-water mark of the worker socket, per peer

ASSUME ConstantsAssumption ==
    /\ MortalPeers \subseteq Peers
    /\ FaultyPeers \subseteq Peers
    /\ NItems \in Nat
    /\ HWM \in Nat \ {0}

ASSUME SubscriptionsAssumption ==
    Subscriptions \subseteq [stride : Nat, offset : Nat]

\* WorkerQueuePolicy of ItemWorkerProtocol.hpp
Policies == {"Async", "PrebufferOne", "Skip"}

Items == 0 .. NItems - 1

-----------------------------------------------------------------------------
\* Messages on the worker socket.  DISCONNECT stands for the two-frame
\* notification the ROUTER socket synthesises when a peer goes away.
RegisterMsg(sub, pol) == [type |-> "REGISTER", stride |-> sub.stride,
                          offset |-> sub.offset, policy |-> pol]
CompleteMsg(i) == [type |-> "COMPLETE", id |-> i]
DisconnectMsg == [type |-> "DISCONNECT"]
WorkItemMsg(i) == [type |-> "WORK_ITEM", id |-> i]
HeartbeatMsg == [type |-> "HEARTBEAT"]

ToBrokerMsgs == {RegisterMsg(s, p) : s \in Subscriptions, p \in Policies}
                  \cup {CompleteMsg(i) : i \in Items} \cup {DisconnectMsg}
ToWorkerMsgs == {WorkItemMsg(i) : i \in Items} \cup {HeartbeatMsg}

\* struct Worker, without client_name (diagnostics only) and without
\* next_heartbeat_time (never read nor written by the broker)
WorkerRec == [stride : Nat, offset : Nat, policy : Policies,
              waiting : Seq(Items), outstanding : Seq(Items)]

NewWorker(m) == [stride |-> m.stride, offset |-> m.offset, policy |-> m.policy,
                 waiting |-> << >>, outstanding |-> << >>]

\* the value a worker slot has while no worker is registered under it
NoWorker == [stride |-> 1, offset |-> 0, policy |-> "Async",
             waiting |-> << >>, outstanding |-> << >>]

VARIABLES
    registered,  \* DOMAIN workers_
    workers,     \* workers_[k] for k \in registered
    nextItem,    \* the id of the next item the producer sends
    reported,    \* reported[i]: completion frames for i sent to the producer
    up,          \* the broker process is running
    sweepDue,    \* a handler ran; the loop calls send_heartbeat() next
    conn,        \* the peer's connection: "new", "open" or "closed"
    toBroker,    \* toBroker[k]: pipe of messages from peer k to the broker
    toWorker     \* toWorker[k]: pipe of messages from the broker to peer k

brokerVars == <<registered, workers, nextItem, reported, up, sweepDue>>
netVars == <<conn, toBroker, toWorker>>
vars == <<brokerVars, netVars>>

-----------------------------------------------------------------------------
SeqItems(s) == {s[j] : j \in 1 .. Len(s)}

\* deque::erase of the element std::find_if finds first
RemoveFirst(s, i) ==
    LET j == CHOOSE j \in 1 .. Len(s) : s[j] = i /\ \A m \in 1 .. j - 1 : s[m] # i
    IN  SubSeq(s, 1, j - 1) \o SubSeq(s, j + 1, Len(s))

\* Worker::wants_item
WantsItem(w, id) == id % w.stride = w.offset

Idle(w) == w.outstanding = << >>

\* the worker w with new waiting and outstanding queues
WithQueues(w, wt, os) == [stride |-> w.stride, offset |-> w.offset, policy |-> w.policy,
                          waiting |-> wt, outstanding |-> os]

\* Mutant: waiting_items keeps no owning reference
HeldOutstandingOnly(reg, ws) == UNION {SeqItems(ws[k].outstanding) : k \in reg}

\* the items some registered worker still holds a shared_ptr to
Held(reg, ws) == UNION {SeqItems(ws[k].waiting) \cup SeqItems(ws[k].outstanding) : k \in reg}

\* Mutant: completed_items_ is never cleared, so every drain sends all the
\* ids reported so far once more
SendPendingCompletionsNoClear(released) ==
    reported' = [i \in Items |-> IF i \in released \/ reported[i] > 0 THEN reported[i] + 1
                                                                 ELSE reported[i]]

\* ~Item() appends the id of every item whose last reference went away;
\* send_pending_completions() then sends each one to the producer.
SendPendingCompletions(released) ==
    reported' = [i \in Items |-> IF i \in released THEN reported[i] + 1 ELSE reported[i]]

\* zmq send on the ROUTER socket with ZMQ_ROUTER_MANDATORY: a peer that is not
\* in the routing table throws EHOSTUNREACH, which no handler catches.
Unreachable(k) == conn[k] # "open"

\* Mutant: the send goes through whatever the pipe to the peer holds
HasRoomIgnoringHwm(k) == TRUE

\* multipart_t::send with the default (blocking) flags and no ZMQ_SNDTIMEO:
\* with ZMQ_ROUTER_MANDATORY the ROUTER socket waits while the peer's pipe
\* is at the high-water mark, so a handler that sends to k takes its step
\* only once the pipe has room; "message send failed" is never reached.
HasRoom(k) == Len(toWorker[k]) < HWM

Deliver(k, m) == Append(toWorker[k], m)

\* The uncaught exception ends the broker thread; nothing is persisted.
Crash ==
    /\ up' = FALSE
    /\ UNCHANGED <<registered, workers, nextItem, reported, sweepDue>>
    /\ UNCHANGED netVars

BrokerReady == up /\ ~sweepDue

-----------------------------------------------------------------------------
(***************************************************************************)
(* on_generator_pollin: distribute the new item to every worker whose      *)
(* predicate matches, then drop the broker's own reference.                *)
(***************************************************************************)
\* Mutant: the distribution loop stops after the first WORK_ITEM it sends
DispatchedFirstOnly(i) ==
    LET D == {k \in registered : WantsItem(workers[k], i) /\ Idle(workers[k])}
    IN  IF D = {} THEN {} ELSE {CHOOSE k \in D : TRUE}

Dispatched(i) == {k \in registered : WantsItem(workers[k], i) /\ Idle(workers[k])}

\* Mutant: idleness tested on waiting_items instead of outstanding_items
DistributeWrongIdle(w, i) ==
    LET base == IF w.policy = "PrebufferOne" THEN << >> ELSE w.waiting
    IN  IF ~WantsItem(w, i) THEN w
        ELSE IF w.waiting = << >> THEN WithQueues(w, base, Append(w.outstanding, i))
        ELSE IF w.policy # "Skip" THEN WithQueues(w, Append(base, i), w.outstanding)
        ELSE WithQueues(w, base, w.outstanding)

\* Mutant: PrebufferOne does not drop the item it buffered before
DistributeNoClear(w, i) ==
    IF ~WantsItem(w, i) THEN w
    ELSE IF Idle(w) THEN WithQueues(w, w.waiting, <<i>>)
    ELSE IF w.policy # "Skip" THEN WithQueues(w, Append(w.waiting, i), w.outstanding)
    ELSE WithQueues(w, w.waiting, w.outstanding)

Distribute(w, i) ==
    LET base == IF w.policy = "PrebufferOne" THEN << >> ELSE w.waiting
    IN  IF ~WantsItem(w, i) THEN w
        ELSE IF Idle(w) THEN WithQueues(w, base, <<i>>)
        ELSE IF w.policy # "Skip" THEN WithQueues(w, Append(base, i), w.outstanding)
        ELSE WithQueues(w, base, w.outstanding)

OnGeneratorPollin ==
    /\ BrokerReady
    /\ nextItem < NItems
    /\ LET i == nextItem IN
       \/ \* id % stride with stride 0 traps (SIGFPE)
          /\ \E k \in registered : workers[k].stride = 0
          /\ Crash
       \/ /\ \A k \in registered : workers[k].stride # 0
          /\ \E k \in Dispatched(i) : Unreachable(k)
          /\ Crash
       \/ /\ \A k \in registered : workers[k].stride # 0
          /\ \A k \in Dispatched(i) : ~Unreachable(k) /\ HasRoom(k)
          /\ workers' = [k \in Peers |-> IF k \in registered THEN Distribute(workers[k], i)
                                                             ELSE workers[k]]
          /\ toWorker' = [k \in Peers |-> IF k \in Dispatched(i) THEN Deliver(k, WorkItemMsg(i))
                                                                 ELSE toWorker[k]]
          /\ nextItem' = i + 1
          /\ SendPendingCompletions((Held(registered, workers) \cup {i})
                                      \ Held(registered, workers'))
          /\ sweepDue' = TRUE
          /\ UNCHANGED <<registered, up, conn, toBroker>>

(***************************************************************************)
(* on_worker_pollin, one branch per kind of message at the head of the     *)
(* peer's pipe; each ends with send_pending_completions().                 *)
(***************************************************************************)
\* Mutant: the disconnect notification is logged but workers_.erase is missing
OnWorkerDisconnectNoErase(k) ==
    /\ BrokerReady
    /\ toBroker[k] # << >>
    /\ Head(toBroker[k]).type = "DISCONNECT"
    /\ toBroker' = [toBroker EXCEPT ![k] = Tail(@)]
    /\ sweepDue' = TRUE
    /\ UNCHANGED <<registered, workers, reported, nextItem, up, conn, toWorker>>

OnWorkerDisconnect(k) ==
    /\ BrokerReady
    /\ toBroker[k] # << >>
    /\ Head(toBroker[k]).type = "DISCONNECT"
    /\ registered' = registered \ {k}
    /\ workers' = [workers EXCEPT ![k] = NoWorker]
    /\ SendPendingCompletions(Held(registered, workers) \ Held(registered', workers'))
    /\ toBroker' = [toBroker EXCEPT ![k] = Tail(@)]
    /\ sweepDue' = TRUE
    /\ UNCHANGED <<nextItem, up, conn, toWorker>>

OnWorkerRegister(k) ==
    /\ BrokerReady
    /\ toBroker[k] # << >>
    /\ Head(toBroker[k]).type = "REGISTER"
    /\ registered' = registered \cup {k}
    /\ workers' = [workers EXCEPT ![k] = NewWorker(Head(toBroker[k]))]
    /\ SendPendingCompletions(Held(registered, workers) \ Held(registered', workers'))
    /\ toBroker' = [toBroker EXCEPT ![k] = Tail(@)]
    /\ sweepDue' = TRUE
    /\ UNCHANGED <<nextItem, up, conn, toWorker>>

\* Mutant: the COMPLETE handler does not send the next waiting item
CompletedNoRefill(w, i) == WithQueues(w, w.waiting, RemoveFirst(w.outstanding, i))

\* the worker after its COMPLETE for i: the item is erased from outstanding
\* and the front of waiting, if any, becomes outstanding
Completed(w, i) ==
    LET rest == RemoveFirst(w.outstanding, i)
    IN  IF w.waiting = << >> THEN WithQueues(w, w.waiting, rest)
        ELSE WithQueues(w, Tail(w.waiting), Append(rest, Head(w.waiting)))

OnWorkerComplete(k) ==
    /\ BrokerReady
    /\ toBroker[k] # << >>
    /\ Head(toBroker[k]).type = "COMPLETE"
    /\ LET i == Head(toBroker[k]).id IN
       \/ \* workers_.at() throws, or assert(it != end) aborts
          /\ k \notin registered \/ i \notin SeqItems(workers[k].outstanding)
          /\ Crash
       \/ /\ k \in registered
          /\ i \in SeqItems(workers[k].outstanding)
          /\ workers[k].waiting # << >>
          /\ Unreachable(k)
          /\ Crash
       \/ /\ k \in registered
          /\ i \in SeqItems(workers[k].outstanding)
          /\ workers[k].waiting = << >> \/ (~Unreachable(k) /\ HasRoom(k))
          /\ workers' = [workers EXCEPT ![k] = Completed(@, i)]
          /\ toWorker' = IF workers[k].waiting = << >> THEN toWorker
                         ELSE [toWorker EXCEPT ![k] = Deliver(k, WorkItemMsg(Head(workers[k].waiting)))]
          /\ SendPendingCompletions(Held(registered, workers) \ Held(registered, workers'))
          /\ toBroker' = [toBroker EXCEPT ![k] = Tail(@)]
          /\ sweepDue' = TRUE
          /\ UNCHANGED <<registered, nextItem, up, conn>>

(***************************************************************************)
(* The loop body after poller.wait(): send_heartbeat() to every idle       *)
(* worker, after each handler and on every one-second timeout.             *)
(***************************************************************************)
IdleWorkers == {k \in registered : Idle(workers[k])}

SendHeartbeat ==
    /\ up
    /\ \/ /\ \E k \in IdleWorkers : Unreachable(k)
          /\ Crash
       \/ /\ \A k \in IdleWorkers : ~Unreachable(k) /\ HasRoom(k)
          /\ toWorker' = [k \in Peers |-> IF k \in IdleWorkers THEN Deliver(k, HeartbeatMsg)
                                                              ELSE toWorker[k]]
          /\ sweepDue' = FALSE
          /\ UNCHANGED <<registered, workers, nextItem, reported, up, conn, toBroker>>

-----------------------------------------------------------------------------
(***************************************************************************)
(* The workers (external peers).                                           *)
(***************************************************************************)
WorkerConnect(k) ==
    /\ conn[k] = "new"
    /\ \E sub \in Subscriptions, pol \in Policies :
          toBroker' = [toBroker EXCEPT ![k] = Append(@, RegisterMsg(sub, pol))]
    /\ conn' = [conn EXCEPT ![k] = "open"]
    /\ UNCHANGED <<brokerVars, toWorker>>

\* the worker takes the next message; it answers a WORK_ITEM with COMPLETE
WorkerReceive(k) ==
    /\ conn[k] = "open"
    /\ toWorker[k] # << >>
    /\ toWorker' = [toWorker EXCEPT ![k] = Tail(@)]
    /\ toBroker' = IF Head(toWorker[k]).type = "WORK_ITEM"
                   THEN [toBroker EXCEPT ![k] = Append(@, CompleteMsg(Head(toWorker[k]).id))]
                   ELSE toBroker
    /\ UNCHANGED <<brokerVars, conn>>

\* a faulty worker sends a stray COMPLETE (spec section 7: "COMPLETE for
\* unknown ID, worker bug"); it does so only with nothing else in its pipe
WorkerStrayComplete(k) ==
    /\ k \in FaultyPeers
    /\ conn[k] = "open"
    /\ toBroker[k] = << >>
    /\ \E i \in Items : toBroker' = [toBroker EXCEPT ![k] = << CompleteMsg(i) >>]
    /\ UNCHANGED <<brokerVars, conn, toWorker>>

\* the connection closes; the ROUTER drops the peer's outbound pipe and
\* queues the disconnect notification behind what the peer already sent
WorkerClose(k) ==
    /\ k \in MortalPeers
    /\ conn[k] = "open"
    /\ conn' = [conn EXCEPT ![k] = "closed"]
    /\ toWorker' = [toWorker EXCEPT ![k] = << >>]
    /\ toBroker' = [toBroker EXCEPT ![k] = Append(@, DisconnectMsg)]
    /\ UNCHANGED brokerVars

-----------------------------------------------------------------------------
Init ==
    /\ registered = {}
    /\ workers = [k \in Peers |-> NoWorker]
    /\ nextItem = 0
    /\ reported = [i \in Items |-> 0]
    /\ up = TRUE
    /\ sweepDue = FALSE
    /\ conn = [k \in Peers |-> "new"]
    /\ toBroker = [k \in Peers |-> << >>]
    /\ toWorker = [k \in Peers |-> << >>]

BrokerNext ==
    \/ OnGeneratorPollin
    \/ \E k \in Peers : OnWorkerDisconnect(k) \/ OnWorkerRegister(k) \/ OnWorkerComplete(k)
    \/ SendHeartbeat

WorkerNext ==
    \E k \in Peers :
        WorkerConnect(k) \/ WorkerReceive(k) \/ WorkerStrayComplete(k) \/ WorkerClose(k)

Next == BrokerNext \/ WorkerNext

\* The poller serves every ready socket and the ROUTER fair-queues its peers;
\* a worker eventually handles what it received.  The producer and the
\* connections are the environment and get no fairness.
Fairness ==
    /\ WF_vars(SendHeartbeat)
    /\ \A k \in Peers :
          /\ WF_vars(OnWorkerDisconnect(k) \/ OnWorkerRegister(k) \/ OnWorkerComplete(k))
          /\ WF_vars(WorkerReceive(k))

Spec == Init /\ [][Next]_vars
FairSpec == Spec /\ Fairness

-----------------------------------------------------------------------------
\* The state is well formed: queues hold item ids, pipes hold protocol
\* messages, and no pipe to a worker holds more than the high-water mark
\* lets a blocking multipart_t::send put into it.
TypeOK ==
    /\ registered \subseteq Peers
    /\ workers \in [Peers -> WorkerRec]
    /\ nextItem \in 0 .. NItems
    /\ reported \in [Items -> Nat]
    /\ up \in BOOLEAN
    /\ sweepDue \in BOOLEAN
    /\ conn \in [Peers -> {"new", "open", "closed"}]
    /\ toBroker \in [Peers -> Seq(ToBrokerMsgs)]
    /\ toWorker \in [Peers -> Seq(ToWorkerMsgs)]
    /\ \A k \in Peers : Len(toWorker[k]) <= HWM

\* At most one WORK_ITEM is in flight per worker: on_generator_pollin sends
\* only to an idle worker and a COMPLETE refills outstanding_items with at
\* most one waiting item (spec property 5).
AtMostOneOutstanding ==
    \A k \in registered : Len(workers[k].outstanding) <= 1

\* No worker is left idle while items wait for it: every path that empties
\* outstanding_items (a COMPLETE) moves the front waiting item over, and no
\* item is queued in waiting_items of an idle worker.
NoIdleWorkerWithWaiting ==
    \A k \in registered : Idle(workers[k]) => workers[k].waiting = << >>

\* PrebufferOne keeps at most the newest item, Skip keeps none
\* (spec invariants 2 and 3).
QueuePolicyBound ==
    \A k \in registered :
        /\ workers[k].policy = "PrebufferOne" => Len(workers[k].waiting) <= 1
        /\ workers[k].policy = "Skip" => workers[k].waiting = << >>

\* The completion ledger is exact: a produced item has been reported to the
\* producer once iff no registered worker holds it any more, and an item is
\* never reported twice, whatever interleaving of completions, replacements,
\* PrebufferOne drops and disconnects released it (spec invariant 6).
CompletionReportedOnce ==
    \A i \in Items :
        reported[i] = IF i < nextItem /\ i \notin Held(registered, workers) THEN 1 ELSE 0

\* No work item is lost on the wire: every outstanding item of an open
\* worker has its WORK_ITEM in the pipe to the worker or the worker's
\* COMPLETE in the pipe to the broker, across dispatches to several workers,
\* refills from waiting_items, heartbeats filling the pipe and reconnects.
\* It needs every send of on_generator_pollin's loop to reach its worker.
WorkItemInFlight ==
    \A k \in registered :
        conn[k] = "open" =>
            \A i \in SeqItems(workers[k].outstanding) :
                \/ \E j \in 1 .. Len(toWorker[k]) : toWorker[k][j] = WorkItemMsg(i)
                \/ \E j \in 1 .. Len(toBroker[k]) : toBroker[k][j] = CompleteMsg(i)

\* The broker thread never dies: worker death is an expected transition and
\* there are no fatal errors in the event loop (spec section 7).
BrokerSurvives == up

\* Every item the producer sent is eventually reported back to it, provided
\* the broker keeps running, although a send may block it on a full pipe.
AllItemsReported ==
    []up => \A i \in Items : (i < nextItem) ~> (reported[i] = 1)

-----------------------------------------------------------------------------
(***************************************************************************)
(* The broker implements the completion ledger of CompletionLedger: the    *)
(* ids issued are nextItem, the reports are what the drains sent.          *)
(***************************************************************************)
Ledger == INSTANCE CompletionLedger WITH issued <- nextItem, reported <- reported

\* Every behaviour of the broker is one of the ledger's: each step issues at
\* most the next id and reports, through the ~Item() destructor and
\* send_pending_completions, only issued ids that were never reported.
LedgerSpec == Ledger!Spec

=============================================================================
