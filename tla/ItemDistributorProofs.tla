------------------------ MODULE ItemDistributorProofs ------------------------
(***************************************************************************)
(* Proofs about the broker model ItemDistributor, for every value of the   *)
(* constants that satisfies ConstantsAssumption.                           *)
(***************************************************************************)
EXTENDS ItemDistributor, SequenceTheorems, TLAPS

-----------------------------------------------------------------------------
(* Lemmas about the sequence helpers of the model.                         *)

\* erasing the only element of a one-element queue empties it
LEMMA RemoveFirstSingleton ==
    ASSUME NEW S, NEW s \in Seq(S), Len(s) = 1, NEW i, s[1] = i
    PROVE  RemoveFirst(s, i) = << >>
<1> DEFINE j == CHOOSE j \in 1 .. Len(s) : s[j] = i /\ \A m \in 1 .. j - 1 : s[m] # i
<1>1. j = 1
  BY DEF RemoveFirst
<1>2. SubSeq(s, 1, 0) = << >> /\ SubSeq(s, 2, 1) = << >>
  BY SubSeqEmpty
<1>3. QED
  BY <1>1, <1>2 DEF RemoveFirst

\* the element of a queue of length at most one is its first element
LEMMA ShortSeqItem ==
    ASSUME NEW S, NEW s \in Seq(S), Len(s) <= 1, NEW i, i \in SeqItems(s)
    PROVE  Len(s) = 1 /\ s[1] = i
<1>1. PICK j \in 1 .. Len(s) : s[j] = i
  BY DEF SeqItems
<1>2. QED
  BY <1>1

-----------------------------------------------------------------------------
(* The per-worker queue invariant: at most one item in flight, no items    *)
(* waiting for an idle worker, and the bound of the queue policy.          *)

WorkerOK(w) ==
    /\ Len(w.outstanding) <= 1
    /\ Idle(w) => w.waiting = << >>
    /\ w.policy = "PrebufferOne" => Len(w.waiting) <= 1
    /\ w.policy = "Skip" => w.waiting = << >>

QueueInv == \A k \in registered : WorkerOK(workers[k])

IInv == TypeOK /\ QueueInv

LEMMA QueueInvProperties ==
    QueueInv <=> AtMostOneOutstanding /\ NoIdleWorkerWithWaiting /\ QueuePolicyBound
BY DEF QueueInv, WorkerOK, AtMostOneOutstanding, NoIdleWorkerWithWaiting, QueuePolicyBound

LEMMA NewWorkerOK ==
    ASSUME NEW m \in ToBrokerMsgs, m.type = "REGISTER"
    PROVE  NewWorker(m) \in WorkerRec /\ WorkerOK(NewWorker(m))
<1>1. PICK sub \in Subscriptions, pol \in Policies : m = RegisterMsg(sub, pol)
  BY DEF ToBrokerMsgs, CompleteMsg, DisconnectMsg, RegisterMsg
<1>2. sub.stride \in Nat /\ sub.offset \in Nat
  BY SubscriptionsAssumption
<1>3. QED
  BY <1>1, <1>2 DEF NewWorker, RegisterMsg, WorkerRec, WorkerOK, Idle

LEMMA DistributeOK ==
    ASSUME NEW w \in WorkerRec, WorkerOK(w), NEW i \in Items
    PROVE  Distribute(w, i) \in WorkerRec /\ WorkerOK(Distribute(w, i))
<1> DEFINE base == IF w.policy = "PrebufferOne" THEN << >> ELSE w.waiting
<1>1. base \in Seq(Items) /\ (w.policy = "PrebufferOne" => base = << >>)
  BY DEF WorkerRec
<1>2. CASE ~WantsItem(w, i)
  BY <1>2 DEF Distribute
<1>3. CASE WantsItem(w, i) /\ Idle(w)
  BY <1>1, <1>3 DEF Distribute, WithQueues, WorkerRec, WorkerOK, Idle
<1>4. CASE WantsItem(w, i) /\ ~Idle(w) /\ w.policy # "Skip"
  BY <1>1, <1>4 DEF Distribute, WithQueues, WorkerRec, WorkerOK, Idle
<1>5. CASE WantsItem(w, i) /\ ~Idle(w) /\ w.policy = "Skip"
  BY <1>1, <1>5 DEF Distribute, WithQueues, WorkerRec, WorkerOK, Idle
<1>6. QED
  BY <1>2, <1>3, <1>4, <1>5

LEMMA CompletedOK ==
    ASSUME NEW w \in WorkerRec, WorkerOK(w), NEW i, i \in SeqItems(w.outstanding)
    PROVE  Completed(w, i) \in WorkerRec /\ WorkerOK(Completed(w, i))
<1>1. w.outstanding \in Seq(Items) /\ Len(w.outstanding) <= 1
  BY DEF WorkerRec, WorkerOK
<1>3. Len(w.outstanding) = 1 /\ w.outstanding[1] = i
  BY <1>1, ShortSeqItem
<1>4. RemoveFirst(w.outstanding, i) = << >>
  BY <1>1, <1>3, RemoveFirstSingleton
<1>5. CASE w.waiting = << >>
  BY <1>4, <1>5 DEF Completed, WithQueues, WorkerRec, WorkerOK, Idle
<1>6. CASE w.waiting # << >>
  BY <1>4, <1>6 DEF Completed, WithQueues, WorkerRec, WorkerOK, Idle
<1>7. QED
  BY <1>5, <1>6

-----------------------------------------------------------------------------
(* Lemmas about the messages on the wire.                                  *)

\* a worker answers a WORK_ITEM with a well-formed COMPLETE
LEMMA CompleteOfWorkItem ==
    ASSUME NEW m \in ToWorkerMsgs, m.type = "WORK_ITEM"
    PROVE  CompleteMsg(m.id) \in ToBrokerMsgs
BY DEF ToWorkerMsgs, ToBrokerMsgs, WorkItemMsg, HeartbeatMsg, CompleteMsg

\* a send that waited for room keeps the pipe well typed and within the
\* high-water mark
LEMMA DeliverType ==
    ASSUME NEW k \in Peers, toWorker \in [Peers -> Seq(ToWorkerMsgs)],
           HasRoom(k), NEW m \in ToWorkerMsgs
    PROVE  Deliver(k, m) \in Seq(ToWorkerMsgs) /\ Len(Deliver(k, m)) <= HWM
BY ConstantsAssumption DEF Deliver, HasRoom

-----------------------------------------------------------------------------
(* The inductive invariant IInv.                                           *)

LEMMA InitIInv == Init => IInv
<1> SUFFICES ASSUME Init PROVE IInv
  OBVIOUS
<1>1. NoWorker \in WorkerRec
  BY DEF NoWorker, WorkerRec, Policies
<1>2. nextItem \in 0 .. NItems /\ reported \in [Items -> Nat]
  BY ConstantsAssumption DEF Init
<1>3. /\ toBroker \in [Peers -> Seq(ToBrokerMsgs)] /\ toWorker \in [Peers -> Seq(ToWorkerMsgs)]
      /\ \A k \in Peers : Len(toWorker[k]) <= HWM
  BY ConstantsAssumption DEF Init
<1>4. workers \in [Peers -> WorkerRec]
  BY <1>1 DEF Init
<1>5. conn \in [Peers -> {"new", "open", "closed"}]
  BY DEF Init
<1>6. TypeOK
  BY <1>2, <1>3, <1>4, <1>5 DEF Init, TypeOK
<1>7. QueueInv
  BY DEF Init, QueueInv
<1>8. QED
  BY <1>6, <1>7 DEF IInv

\* the broker crashed: only up changed
LEMMA CrashIInv == IInv /\ Crash => IInv'
BY DEF IInv, TypeOK, QueueInv, Crash, netVars

LEMMA GeneratorIInv == IInv /\ OnGeneratorPollin => IInv'
<1> SUFFICES ASSUME IInv, OnGeneratorPollin PROVE IInv'
  OBVIOUS
<1> DEFINE i == nextItem
<1>1. i \in Items /\ i + 1 \in 0 .. NItems
  BY ConstantsAssumption DEF OnGeneratorPollin, IInv, TypeOK, Items
<1>2. CASE \/ \E k \in registered : workers[k].stride = 0
           \/ /\ \A k \in registered : workers[k].stride # 0
              /\ \E k \in Dispatched(i) : Unreachable(k)
  BY <1>2, CrashIInv DEF OnGeneratorPollin
<1>3. CASE /\ \A k \in registered : workers[k].stride # 0
           /\ \A k \in Dispatched(i) : ~Unreachable(k) /\ HasRoom(k)
  <2>1. /\ workers' = [k \in Peers |-> IF k \in registered THEN Distribute(workers[k], i)
                                                          ELSE workers[k]]
        /\ toWorker' = [k \in Peers |-> IF k \in Dispatched(i) THEN Deliver(k, WorkItemMsg(i))
                                                              ELSE toWorker[k]]
        /\ nextItem' = i + 1
        /\ SendPendingCompletions((Held(registered, workers) \cup {i})
                                    \ Held(registered, workers'))
        /\ sweepDue' = TRUE
        /\ UNCHANGED <<registered, up, conn, toBroker>>
    BY <1>3 DEF OnGeneratorPollin
  <2>2. \A k \in registered : Distribute(workers[k], i) \in WorkerRec
                               /\ WorkerOK(Distribute(workers[k], i))
    BY <1>1, DistributeOK DEF IInv, TypeOK, QueueInv
  <2>3. workers' \in [Peers -> WorkerRec]
    BY <2>1, <2>2 DEF IInv, TypeOK
  <2>4. toWorker' \in [Peers -> Seq(ToWorkerMsgs)] /\ \A k \in Peers : Len(toWorker'[k]) <= HWM
    <3>1. WorkItemMsg(i) \in ToWorkerMsgs
      BY <1>1 DEF ToWorkerMsgs
    <3>2. QED
      BY <1>3, <2>1, <3>1, DeliverType DEF IInv, TypeOK
  <2>5. reported' \in [Items -> Nat]
    BY <2>1 DEF SendPendingCompletions, IInv, TypeOK
  <2>6. TypeOK'
    BY <1>1, <2>1, <2>3, <2>4, <2>5 DEF IInv, TypeOK
  <2>7. QueueInv'
    BY <2>1, <2>2 DEF QueueInv, IInv, TypeOK
  <2>8. QED
    BY <2>6, <2>7 DEF IInv
<1>4. QED
  BY <1>2, <1>3 DEF OnGeneratorPollin

LEMMA DisconnectIInv ==
    ASSUME NEW k \in Peers, IInv, OnWorkerDisconnect(k) PROVE IInv'
<1>1. NoWorker \in WorkerRec
  BY DEF NoWorker, WorkerRec, Policies
<1>2. toBroker[k] \in Seq(ToBrokerMsgs) /\ toBroker[k] # << >>
  BY DEF IInv, TypeOK, OnWorkerDisconnect
<1>3. toBroker' \in [Peers -> Seq(ToBrokerMsgs)]
  BY <1>2, HeadTailProperties DEF OnWorkerDisconnect, IInv, TypeOK
<1>4. TypeOK'
  BY <1>1, <1>3 DEF OnWorkerDisconnect, SendPendingCompletions, IInv, TypeOK
<1>5. QueueInv'
  BY DEF OnWorkerDisconnect, IInv, TypeOK, QueueInv
<1>6. QED
  BY <1>4, <1>5 DEF IInv

LEMMA RegisterIInv ==
    ASSUME NEW k \in Peers, IInv, OnWorkerRegister(k) PROVE IInv'
<1>1. toBroker[k] \in Seq(ToBrokerMsgs) /\ toBroker[k] # << >>
  BY DEF IInv, TypeOK, OnWorkerRegister
<1>2. Head(toBroker[k]) \in ToBrokerMsgs /\ Head(toBroker[k]).type = "REGISTER"
  BY <1>1, HeadTailProperties DEF OnWorkerRegister
<1>3. NewWorker(Head(toBroker[k])) \in WorkerRec /\ WorkerOK(NewWorker(Head(toBroker[k])))
  BY <1>2, NewWorkerOK
<1>4. toBroker' \in [Peers -> Seq(ToBrokerMsgs)]
  BY <1>1, HeadTailProperties DEF OnWorkerRegister, IInv, TypeOK
<1>5. TypeOK'
  BY <1>3, <1>4 DEF OnWorkerRegister, SendPendingCompletions, IInv, TypeOK
<1>6. QueueInv'
  BY <1>3 DEF OnWorkerRegister, IInv, TypeOK, QueueInv
<1>7. QED
  BY <1>5, <1>6 DEF IInv

LEMMA CompleteIInv ==
    ASSUME NEW k \in Peers, IInv, OnWorkerComplete(k) PROVE IInv'
<1> DEFINE i == Head(toBroker[k]).id
<1> DEFINE w == workers[k]
<1>1. CASE \/ k \notin registered \/ i \notin SeqItems(w.outstanding)
           \/ k \in registered /\ w.waiting # << >> /\ Unreachable(k)
  BY <1>1, CrashIInv DEF OnWorkerComplete
<1>2. CASE /\ k \in registered
           /\ i \in SeqItems(w.outstanding)
           /\ w.waiting = << >> \/ (~Unreachable(k) /\ HasRoom(k))
  <2>1. /\ workers' = [workers EXCEPT ![k] = Completed(w, i)]
        /\ toWorker' = IF w.waiting = << >> THEN toWorker
                       ELSE [toWorker EXCEPT ![k] = Deliver(k, WorkItemMsg(Head(w.waiting)))]
        /\ SendPendingCompletions(Held(registered, workers) \ Held(registered, workers'))
        /\ toBroker' = [toBroker EXCEPT ![k] = Tail(@)]
        /\ sweepDue' = TRUE
        /\ UNCHANGED <<registered, nextItem, up, conn>>
    BY <1>2 DEF OnWorkerComplete
  <2>2. w \in WorkerRec /\ WorkerOK(w)
    BY <1>2 DEF IInv, TypeOK, QueueInv
  <2>3. Completed(w, i) \in WorkerRec /\ WorkerOK(Completed(w, i))
    BY <1>2, <2>2, CompletedOK
  <2>4. toWorker' \in [Peers -> Seq(ToWorkerMsgs)] /\ \A p \in Peers : Len(toWorker'[p]) <= HWM
    <3>1. CASE w.waiting = << >>
      BY <2>1, <3>1 DEF IInv, TypeOK
    <3>2. CASE w.waiting # << >>
      <4>1. Head(w.waiting) \in Items
        BY <2>2, <3>2, HeadTailProperties DEF WorkerRec
      <4>2. WorkItemMsg(Head(w.waiting)) \in ToWorkerMsgs
        BY <4>1 DEF ToWorkerMsgs
      <4>3. QED
        BY <1>2, <2>1, <3>2, <4>2, DeliverType DEF IInv, TypeOK
    <3>3. QED
      BY <3>1, <3>2
  <2>5. toBroker' \in [Peers -> Seq(ToBrokerMsgs)]
    <3>1. toBroker[k] \in Seq(ToBrokerMsgs) /\ toBroker[k] # << >>
      BY DEF IInv, TypeOK, OnWorkerComplete
    <3>2. QED
      BY <2>1, <3>1, HeadTailProperties DEF IInv, TypeOK
  <2>6. TypeOK'
    BY <2>1, <2>3, <2>4, <2>5 DEF SendPendingCompletions, IInv, TypeOK
  <2>7. QueueInv'
    BY <2>1, <2>3 DEF IInv, TypeOK, QueueInv
  <2>8. QED
    BY <2>6, <2>7 DEF IInv
<1>3. QED
  BY <1>1, <1>2 DEF OnWorkerComplete

LEMMA HeartbeatIInv == IInv /\ SendHeartbeat => IInv'
<1> SUFFICES ASSUME IInv, SendHeartbeat PROVE IInv'
  OBVIOUS
<1>1. CASE \E k \in IdleWorkers : Unreachable(k)
  BY <1>1, CrashIInv DEF SendHeartbeat
<1>2. CASE \A k \in IdleWorkers : ~Unreachable(k) /\ HasRoom(k)
  <2>1. HeartbeatMsg \in ToWorkerMsgs
    BY DEF ToWorkerMsgs
  <2>2. toWorker' \in [Peers -> Seq(ToWorkerMsgs)] /\ \A k \in Peers : Len(toWorker'[k]) <= HWM
    BY <1>2, <2>1, DeliverType DEF SendHeartbeat, IInv, TypeOK
  <2>3. QED
    BY <1>2, <2>2 DEF SendHeartbeat, IInv, TypeOK, QueueInv
<1>3. QED
  BY <1>1, <1>2 DEF SendHeartbeat

LEMMA WorkerIInv == IInv /\ WorkerNext => IInv'
<1> SUFFICES ASSUME IInv, NEW k \in Peers,
                    WorkerConnect(k) \/ WorkerReceive(k) \/ WorkerStrayComplete(k) \/ WorkerClose(k)
             PROVE  IInv'
  BY DEF WorkerNext
<1>1. registered' = registered /\ workers' = workers
  BY DEF WorkerConnect, WorkerReceive, WorkerStrayComplete, WorkerClose, brokerVars
<1>0. QueueInv'
  BY <1>1 DEF IInv, QueueInv
<1>2. CASE WorkerConnect(k)
  <2>1. \A sub \in Subscriptions, pol \in Policies : RegisterMsg(sub, pol) \in ToBrokerMsgs
    BY DEF ToBrokerMsgs
  <2>2. QED
    BY <1>0, <1>2, <2>1 DEF WorkerConnect, brokerVars, IInv, TypeOK
<1>3. CASE WorkerReceive(k)
  <2>0. toWorker[k] \in Seq(ToWorkerMsgs) /\ toWorker[k] # << >> /\ Len(toWorker[k]) <= HWM
    BY <1>3 DEF WorkerReceive, IInv, TypeOK
  <2>1. /\ Head(toWorker[k]) \in ToWorkerMsgs /\ Tail(toWorker[k]) \in Seq(ToWorkerMsgs)
        /\ Len(Tail(toWorker[k])) = Len(toWorker[k]) - 1
    BY <2>0, HeadTailProperties
  <2>9. Len(Tail(toWorker[k])) <= HWM
    BY <2>0, <2>1, ConstantsAssumption
  <2>2. Head(toWorker[k]).type = "WORK_ITEM" => CompleteMsg(Head(toWorker[k]).id) \in ToBrokerMsgs
    BY <2>1, CompleteOfWorkItem
  <2>3. QED
    BY <1>0, <1>3, <2>1, <2>2, <2>9 DEF WorkerReceive, brokerVars, IInv, TypeOK
<1>4. CASE WorkerStrayComplete(k)
  <2>1. \A i \in Items : CompleteMsg(i) \in ToBrokerMsgs
    BY DEF ToBrokerMsgs
  <2>2. QED
    BY <1>0, <1>4, <2>1 DEF WorkerStrayComplete, brokerVars, IInv, TypeOK
<1>5. CASE WorkerClose(k)
  <2>1. DisconnectMsg \in ToBrokerMsgs
    BY DEF ToBrokerMsgs
  <2>2. QED
    BY <1>0, <1>5, <2>1, ConstantsAssumption DEF WorkerClose, brokerVars, IInv, TypeOK
<1>6. QED
  BY <1>2, <1>3, <1>4, <1>5

LEMMA NextIInv == IInv /\ [Next]_vars => IInv'
<1> SUFFICES ASSUME IInv, [Next]_vars PROVE IInv'
  OBVIOUS
<1>1. CASE OnGeneratorPollin
  BY <1>1, GeneratorIInv
<1>2. CASE \E k \in Peers : OnWorkerDisconnect(k) \/ OnWorkerRegister(k) \/ OnWorkerComplete(k)
  BY <1>2, DisconnectIInv, RegisterIInv, CompleteIInv
<1>3. CASE SendHeartbeat
  BY <1>3, HeartbeatIInv
<1>4. CASE WorkerNext
  BY <1>4, WorkerIInv
<1>5. CASE UNCHANGED vars
  BY <1>5 DEF IInv, TypeOK, QueueInv, vars, brokerVars, netVars
<1>6. QED
  BY <1>1, <1>2, <1>3, <1>4, <1>5 DEF Next, BrokerNext

\* Type correctness: every reachable state of the broker and of the wire
\* is well formed (queues hold item ids, pipes hold protocol messages).
THEOREM TypeCorrect == Spec => []TypeOK
<1>1. Init => IInv
  BY InitIInv
<1>2. IInv /\ [Next]_vars => IInv'
  BY NextIInv
<1>3. IInv => TypeOK
  BY DEF IInv
<1>4. QED
  BY <1>1, <1>2, <1>3, PTL DEF Spec

\* The queue discipline of on_generator_pollin and of the COMPLETE handler:
\* at most one WORK_ITEM in flight per worker, no worker idle while items
\* wait for it, and the PrebufferOne and Skip bounds on waiting_items, for
\* every number of workers, items and subscriptions.
THEOREM QueueDiscipline ==
    Spec => [](AtMostOneOutstanding /\ NoIdleWorkerWithWaiting /\ QueuePolicyBound)
<1>1. Init => IInv
  BY InitIInv
<1>2. IInv /\ [Next]_vars => IInv'
  BY NextIInv
<1>3. IInv => AtMostOneOutstanding /\ NoIdleWorkerWithWaiting /\ QueuePolicyBound
  BY QueueInvProperties DEF IInv
<1>4. QED
  BY <1>1, <1>2, <1>3, PTL DEF Spec

\* At most one WORK_ITEM is in flight per worker: on_generator_pollin sends
\* only to a worker whose outstanding_items is empty.
THEOREM OneItemOutstanding ==
    Spec => []AtMostOneOutstanding
BY QueueDiscipline, PTL

\* No worker is idle while items wait for it: the COMPLETE handler moves the
\* front of waiting_items over as it empties outstanding_items.
THEOREM NoIdleWaiting ==
    Spec => []NoIdleWorkerWithWaiting
BY QueueDiscipline, PTL

\* PrebufferOne keeps at most the newest item waiting and Skip keeps none.
THEOREM PolicyBounded ==
    Spec => []QueuePolicyBound
BY QueueDiscipline, PTL

=============================================================================
