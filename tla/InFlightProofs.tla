---------------------------- MODULE InFlightProofs ----------------------------
(***************************************************************************)
(* Proof that no WORK_ITEM of src/ItemDistributor.hpp goes missing         *)
(* (WorkItemInFlight of ItemDistributor), for every value of the           *)
(* constants: an item in outstanding_items of an open worker               *)
(* has its WORK_ITEM in the pipe to the worker or the worker's COMPLETE in *)
(* the pipe back.  It rests on the queue discipline of                     *)
(* ItemDistributorProofs (at most one outstanding item per worker).        *)
(***************************************************************************)
EXTENDS ItemDistributorProofs

\* message m is somewhere in pipe s
InPipe(m, s) == \E j \in 1 .. Len(s) : s[j] = m

\* item i of peer k is accounted for on the wire
Witnessed(k, i) ==
    InPipe(WorkItemMsg(i), toWorker[k]) \/ InPipe(CompleteMsg(i), toBroker[k])

\* A peer that has not connected yet has sent nothing and is not registered:
\* REGISTER is the first message a worker sends, after it connects.
ConnInv ==
    \A k \in Peers : conn[k] = "new" => toBroker[k] = << >> /\ k \notin registered

\* the inductive invariant
LInv == IInv /\ ConnInv /\ WorkItemInFlight

LEMMA InFlightWitnessed ==
    WorkItemInFlight <=>
        \A k \in registered : conn[k] = "open" =>
            \A i \in SeqItems(workers[k].outstanding) : Witnessed(k, i)
BY DEF WorkItemInFlight, Witnessed, InPipe

-----------------------------------------------------------------------------
(* What the pipe operations of the model do to InPipe.                     *)

LEMMA InPipeAppend ==
    ASSUME NEW S, NEW s \in Seq(S), NEW x \in S, NEW m
    PROVE  /\ InPipe(m, s) => InPipe(m, Append(s, x))
           /\ InPipe(x, Append(s, x))
BY AppendProperties DEF InPipe

LEMMA InPipeTail ==
    ASSUME NEW S, NEW s \in Seq(S), s # << >>, NEW m,
           InPipe(m, s), Head(s) # m
    PROVE  InPipe(m, Tail(s))
<1>1. PICK j \in 1 .. Len(s) : s[j] = m
  BY DEF InPipe
<1>2. j # 1
  BY <1>1, HeadTailProperties
<1>3. j - 1 \in 1 .. Len(Tail(s)) /\ Tail(s)[j - 1] = s[j]
  BY <1>1, <1>2, HeadTailProperties
<1>. QED  BY <1>1, <1>3 DEF InPipe

\* a send on the ROUTER socket never takes a message out of the pipe, and
\* puts its own message in
LEMMA InPipeDeliver ==
    ASSUME NEW k \in Peers, toWorker[k] \in Seq(ToWorkerMsgs),
           NEW x \in ToWorkerMsgs, NEW m
    PROVE  /\ InPipe(m, toWorker[k]) => InPipe(m, Deliver(k, x))
           /\ InPipe(x, Deliver(k, x))
BY InPipeAppend DEF Deliver

\* the queue of a worker that on_generator_pollin sends item i to is << i >>;
\* of any other worker, outstanding_items is left as it is
LEMMA DistributeOutstanding ==
    ASSUME NEW w \in WorkerRec, NEW i
    PROVE  /\ WantsItem(w, i) /\ Idle(w) => Distribute(w, i).outstanding = << i >>
           /\ ~(WantsItem(w, i) /\ Idle(w)) =>
                 Distribute(w, i).outstanding = w.outstanding
BY DEF Distribute, WithQueues, Idle

\* after a COMPLETE, outstanding_items holds the item moved over from
\* waiting_items, if there was one
LEMMA CompletedOutstanding ==
    ASSUME NEW w \in WorkerRec, WorkerOK(w), NEW i, i \in SeqItems(w.outstanding)
    PROVE  Completed(w, i).outstanding =
               IF w.waiting = << >> THEN << >> ELSE << Head(w.waiting) >>
<1>1. w.outstanding \in Seq(Items) /\ Len(w.outstanding) <= 1
  BY DEF WorkerRec, WorkerOK
<1>2. Len(w.outstanding) = 1 /\ w.outstanding[1] = i
  BY <1>1, ShortSeqItem
<1>3. RemoveFirst(w.outstanding, i) = << >>
  BY <1>1, <1>2, RemoveFirstSingleton
<1>. QED  BY <1>3 DEF Completed, WithQueues

-----------------------------------------------------------------------------
(* The inductive invariant LInv, one action at a time.                     *)

\* an outstanding item of an open worker is witnessed
LEMMA OldWitness ==
    ASSUME LInv, NEW k \in registered, conn[k] = "open",
           NEW i, i \in SeqItems(workers[k].outstanding)
    PROVE  Witnessed(k, i)
BY InFlightWitnessed DEF LInv

\* a step that leaves both pipes of peer k alone keeps its witnesses
LEMMA WitnessFrame ==
    ASSUME NEW k, NEW i, Witnessed(k, i),
           toWorker'[k] = toWorker[k], toBroker'[k] = toBroker[k]
    PROVE  Witnessed(k, i)'
BY DEF Witnessed, InPipe

\* the goal WorkItemInFlight' for one worker and one of its items
LEMMA InFlightStep ==
    ASSUME \A k \in registered', i \in Items :
              conn'[k] = "open" /\ i \in SeqItems(workers'[k].outstanding)
                  => Witnessed(k, i)',
           workers' \in [Peers -> WorkerRec], registered' \subseteq Peers
    PROVE  WorkItemInFlight'
<1>1. \A k \in registered' : SeqItems(workers'[k].outstanding) \subseteq Items
  BY DEF WorkerRec, SeqItems
<1>. QED  BY <1>1 DEF WorkItemInFlight, Witnessed, InPipe

LEMMA InitLInv == Init => LInv
<1> SUFFICES ASSUME Init PROVE LInv
  OBVIOUS
<1>1. IInv
  BY InitIInv
<1>2. ConnInv /\ WorkItemInFlight
  BY DEF Init, ConnInv, WorkItemInFlight
<1>. QED  BY <1>1, <1>2 DEF LInv

\* the broker thread ended: only up changed
LEMMA CrashLInv == LInv /\ Crash => LInv'
<1> SUFFICES ASSUME LInv, Crash PROVE LInv'
  OBVIOUS
<1>1. IInv'
  BY CrashIInv DEF LInv
<1>. QED  BY <1>1 DEF LInv, Crash, netVars, ConnInv, WorkItemInFlight

LEMMA GeneratorLInv == LInv /\ OnGeneratorPollin => LInv'
<1> SUFFICES ASSUME LInv, OnGeneratorPollin PROVE LInv'
  OBVIOUS
<1> DEFINE i0 == nextItem
<1>1. IInv'
  BY GeneratorIInv DEF LInv
<1>2. CASE \/ \E k \in registered : workers[k].stride = 0
           \/ /\ \A k \in registered : workers[k].stride # 0
              /\ \E k \in Dispatched(i0) : Unreachable(k)
  BY <1>2, CrashLInv DEF OnGeneratorPollin
<1>3. CASE /\ \A k \in registered : workers[k].stride # 0
           /\ \A k \in Dispatched(i0) : ~Unreachable(k) /\ HasRoom(k)
  <2>1. /\ workers' = [k \in Peers |-> IF k \in registered THEN Distribute(workers[k], i0)
                                                          ELSE workers[k]]
        /\ toWorker' = [k \in Peers |-> IF k \in Dispatched(i0) THEN Deliver(k, WorkItemMsg(i0))
                                                               ELSE toWorker[k]]
        /\ UNCHANGED <<registered, conn, toBroker>>
    BY <1>3 DEF OnGeneratorPollin
  <2>2. i0 \in Items /\ WorkItemMsg(i0) \in ToWorkerMsgs
    BY ConstantsAssumption DEF OnGeneratorPollin, LInv, IInv, TypeOK, Items, ToWorkerMsgs
  <2>3. ConnInv'
    BY <2>1 DEF LInv, ConnInv
  <2>4. ASSUME NEW k \in registered', NEW i \in Items,
               conn'[k] = "open", i \in SeqItems(workers'[k].outstanding)
        PROVE  Witnessed(k, i)'
    <3>1. /\ k \in registered /\ k \in Peers /\ conn[k] = "open"
          /\ workers[k] \in WorkerRec /\ toWorker[k] \in Seq(ToWorkerMsgs)
      BY <2>1, <2>4 DEF LInv, IInv, TypeOK
    <3>0. workers'[k] = Distribute(workers[k], i0)
      BY <2>1, <3>1
    <3>2. CASE k \in Dispatched(i0)
      <4>1. WantsItem(workers[k], i0) /\ Idle(workers[k])
        BY <3>2 DEF Dispatched
      <4>2. workers'[k].outstanding = << i0 >>
        BY <3>0, <3>1, <4>1 DEF Distribute, WithQueues, Idle
      <4>3. i = i0
        BY <2>4, <4>2 DEF SeqItems
      <4> DEFINE msg == WorkItemMsg(i0)
      <4>6. toWorker'[k] = Deliver(k, msg) /\ msg \in ToWorkerMsgs /\ k \in Peers
        BY <2>1, <2>2, <3>1, <3>2
      <4> HIDE DEF msg
      <4>7. InPipe(msg, Deliver(k, msg))
        BY <3>1, <4>6, InPipeDeliver
      <4>. QED  BY <4>3, <4>6, <4>7 DEF Witnessed, msg
    <3>3. CASE k \notin Dispatched(i0)
      <4>1. ~(WantsItem(workers[k], i0) /\ Idle(workers[k]))
        BY <3>1, <3>3 DEF Dispatched
      <4>2. workers'[k].outstanding = workers[k].outstanding
        BY <3>0, <3>1, <4>1 DEF Distribute, WithQueues, Idle
      <4>3. Witnessed(k, i)
        BY <2>4, <3>1, <4>2, OldWitness
      <4>4. toWorker'[k] = toWorker[k] /\ toBroker'[k] = toBroker[k]
        BY <2>1, <3>1, <3>3 DEF LInv, IInv, TypeOK
      <4>. QED  BY <4>3, <4>4, WitnessFrame
    <3>. QED  BY <3>2, <3>3
  <2>5. WorkItemInFlight'
    BY <1>1, <2>4, InFlightStep DEF IInv, TypeOK
  <2>. QED  BY <1>1, <2>3, <2>5 DEF LInv
<1>. QED  BY <1>2, <1>3 DEF OnGeneratorPollin

\* a handler that takes a message off the pipe of peer k0 never touches
\* ConnInv: the pipe was not empty, so the peer had connected
LEMMA HandlerConnInv ==
    ASSUME ConnInv, NEW k0 \in Peers, toBroker[k0] # << >>,
           registered' \subseteq registered \cup {k0},
           \A k \in Peers \ {k0} : toBroker'[k] = toBroker[k],
           conn' = conn
    PROVE  ConnInv'
BY DEF ConnInv

LEMMA DisconnectLInv ==
    ASSUME NEW k0 \in Peers, LInv, OnWorkerDisconnect(k0) PROVE LInv'
<1>1. IInv'
  BY DisconnectIInv DEF LInv
<1>2. ConnInv'
  BY HandlerConnInv DEF LInv, OnWorkerDisconnect
<1>3. ASSUME NEW k \in registered', NEW i \in Items,
             conn'[k] = "open", i \in SeqItems(workers'[k].outstanding)
      PROVE  Witnessed(k, i)'
  <2>1. k \in registered /\ k \in Peers /\ k # k0
    BY <1>3 DEF OnWorkerDisconnect, LInv, IInv, TypeOK
  <2>2. /\ workers'[k] = workers[k] /\ conn[k] = "open"
        /\ toWorker'[k] = toWorker[k] /\ toBroker'[k] = toBroker[k]
    BY <1>3, <2>1 DEF OnWorkerDisconnect
  <2>. QED  BY <1>3, <2>1, <2>2, OldWitness, WitnessFrame
<1>. QED  BY <1>1, <1>2, <1>3, InFlightStep DEF LInv, IInv, TypeOK

LEMMA RegisterLInv ==
    ASSUME NEW k0 \in Peers, LInv, OnWorkerRegister(k0) PROVE LInv'
<1>1. IInv'
  BY RegisterIInv DEF LInv
<1>2. ConnInv'
  BY HandlerConnInv DEF LInv, OnWorkerRegister
<1>3. ASSUME NEW k \in registered', NEW i \in Items,
             conn'[k] = "open", i \in SeqItems(workers'[k].outstanding)
      PROVE  Witnessed(k, i)'
  <2>1. k # k0
    <3>1. workers'[k0].outstanding = << >>
      BY DEF OnWorkerRegister, NewWorker, LInv, IInv, TypeOK
    <3>. QED  BY <1>3, <3>1 DEF SeqItems
  <2>2. k \in registered /\ k \in Peers
    BY <1>3, <2>1 DEF OnWorkerRegister, LInv, IInv, TypeOK
  <2>3. /\ workers'[k] = workers[k] /\ conn[k] = "open"
        /\ toWorker'[k] = toWorker[k] /\ toBroker'[k] = toBroker[k]
    BY <1>3, <2>1, <2>2 DEF OnWorkerRegister
  <2>. QED  BY <1>3, <2>2, <2>3, OldWitness, WitnessFrame
<1>. QED  BY <1>1, <1>2, <1>3, InFlightStep DEF LInv, IInv, TypeOK

LEMMA CompleteLInv ==
    ASSUME NEW k0 \in Peers, LInv, OnWorkerComplete(k0) PROVE LInv'
<1> DEFINE i0 == Head(toBroker[k0]).id
           w == workers[k0]
<1>1. IInv'
  BY CompleteIInv DEF LInv
<1>2. CASE \/ k0 \notin registered \/ i0 \notin SeqItems(w.outstanding)
           \/ k0 \in registered /\ w.waiting # << >> /\ Unreachable(k0)
  BY <1>2, CrashLInv DEF OnWorkerComplete
<1>3. CASE /\ k0 \in registered
           /\ i0 \in SeqItems(w.outstanding)
           /\ w.waiting = << >> \/ (~Unreachable(k0) /\ HasRoom(k0))
  <2>1. /\ workers' = [workers EXCEPT ![k0] = Completed(w, i0)]
        /\ toWorker' = IF w.waiting = << >> THEN toWorker
                       ELSE [toWorker EXCEPT ![k0] = Deliver(k0, WorkItemMsg(Head(w.waiting)))]
        /\ toBroker' = [toBroker EXCEPT ![k0] = Tail(@)]
        /\ UNCHANGED <<registered, conn>>
    BY <1>3 DEF OnWorkerComplete
  <2>2. ConnInv'
    BY <2>1, HandlerConnInv DEF LInv, OnWorkerComplete
  <2>3. ASSUME NEW k \in registered', NEW i \in Items,
               conn'[k] = "open", i \in SeqItems(workers'[k].outstanding)
        PROVE  Witnessed(k, i)'
    <3>1. /\ k \in registered /\ k \in Peers /\ conn[k] = "open"
          /\ w \in WorkerRec /\ WorkerOK(w)
          /\ toWorker[k0] \in Seq(ToWorkerMsgs)
      BY <1>3, <2>1, <2>3 DEF LInv, IInv, TypeOK, QueueInv
    <3>2. CASE k = k0
      <4>1. workers'[k0].outstanding =
                IF w.waiting = << >> THEN << >> ELSE << Head(w.waiting) >>
        <5>1. workers'[k0] = Completed(w, i0)
          BY <2>1 DEF LInv, IInv, TypeOK
        <5>. QED  BY <1>3, <3>1, <5>1, CompletedOutstanding
      <4>2. w.waiting # << >> /\ i = Head(w.waiting)
        BY <2>3, <3>2, <4>1 DEF SeqItems
      <4>3. Head(w.waiting) \in Items
        BY <3>1, <4>2, HeadTailProperties DEF WorkerRec
      <4> DEFINE msg == WorkItemMsg(Head(w.waiting))
      <4>6. toWorker'[k0] = Deliver(k0, msg) /\ msg \in ToWorkerMsgs
        BY <2>1, <3>1, <4>2, <4>3 DEF LInv, IInv, TypeOK, ToWorkerMsgs
      <4> HIDE DEF msg
      <4>7. InPipe(msg, Deliver(k0, msg))
        BY <3>1, <4>6, InPipeDeliver
      <4>. QED  BY <3>2, <4>2, <4>6, <4>7 DEF Witnessed, msg
    <3>3. CASE k # k0
      <4>1. /\ workers'[k] = workers[k]
            /\ toWorker'[k] = toWorker[k] /\ toBroker'[k] = toBroker[k]
        BY <2>1, <3>1, <3>3 DEF LInv, IInv, TypeOK
      <4>. QED  BY <2>3, <3>1, <4>1, OldWitness, WitnessFrame
    <3>. QED  BY <3>2, <3>3
  <2>. QED  BY <1>1, <2>2, <2>3, InFlightStep DEF LInv, IInv, TypeOK
<1>. QED  BY <1>2, <1>3 DEF OnWorkerComplete

LEMMA HeartbeatLInv == LInv /\ SendHeartbeat => LInv'
<1> SUFFICES ASSUME LInv, SendHeartbeat PROVE LInv'
  OBVIOUS
<1>1. IInv'
  BY HeartbeatIInv DEF LInv
<1>2. CASE \E k \in IdleWorkers : Unreachable(k)
  BY <1>2, CrashLInv DEF SendHeartbeat
<1>3. CASE \A k \in IdleWorkers : ~Unreachable(k) /\ HasRoom(k)
  <2>1. /\ toWorker' = [k \in Peers |-> IF k \in IdleWorkers THEN Deliver(k, HeartbeatMsg)
                                                           ELSE toWorker[k]]
        /\ UNCHANGED <<registered, workers, conn, toBroker>>
    BY <1>3 DEF SendHeartbeat
  <2>2. ConnInv'
    BY <2>1 DEF LInv, ConnInv
  <2>3. ASSUME NEW k \in registered', NEW i \in Items,
               conn'[k] = "open", i \in SeqItems(workers'[k].outstanding)
        PROVE  Witnessed(k, i)'
    <3>1. /\ k \in Peers /\ toWorker[k] \in Seq(ToWorkerMsgs) /\ HeartbeatMsg \in ToWorkerMsgs
          /\ toBroker'[k] = toBroker[k]
      BY <2>1, <2>3 DEF LInv, IInv, TypeOK, ToWorkerMsgs
    <3>2. Witnessed(k, i)
      BY <2>1, <2>3, OldWitness
    <3>3. InPipe(WorkItemMsg(i), toWorker[k]) => InPipe(WorkItemMsg(i), toWorker'[k])
      BY <2>1, <3>1, InPipeDeliver
    <3>. QED  BY <3>1, <3>2, <3>3 DEF Witnessed
  <2>. QED  BY <1>1, <2>2, <2>3, InFlightStep DEF LInv, IInv, TypeOK
<1>. QED  BY <1>2, <1>3 DEF SendHeartbeat

\* a step of a worker process: the broker's state is left alone
LEMMA WorkerLInv == LInv /\ WorkerNext => LInv'
<1> SUFFICES ASSUME LInv, NEW k0 \in Peers,
                    WorkerConnect(k0) \/ WorkerReceive(k0) \/ WorkerStrayComplete(k0)
                      \/ WorkerClose(k0)
             PROVE  LInv'
  BY DEF WorkerNext
<1>1. IInv'
  BY WorkerIInv DEF LInv, WorkerNext
<1>2. /\ registered' = registered /\ workers' = workers
      /\ \A k \in Peers \ {k0} : /\ conn'[k] = conn[k]
                                 /\ toWorker'[k] = toWorker[k]
                                 /\ toBroker'[k] = toBroker[k]
  BY DEF WorkerConnect, WorkerReceive, WorkerStrayComplete, WorkerClose, brokerVars,
         LInv, IInv, TypeOK
\* the goal, in the form every case below proves it
<1>3. ConnInv' /\
      (\A k \in registered, i \in Items :
          conn'[k] = "open" /\ i \in SeqItems(workers[k].outstanding)
              => Witnessed(k, i)')
      => LInv'
  <2>1. workers' \in [Peers -> WorkerRec] /\ registered' \subseteq Peers
    BY <1>2 DEF LInv, IInv, TypeOK
  <2>. QED  BY <1>1, <1>2, <2>1, InFlightStep DEF LInv
\* a peer other than k0 keeps its witnesses
<1>4. ASSUME NEW k \in registered, NEW i \in Items, k # k0,
             conn'[k] = "open", i \in SeqItems(workers[k].outstanding)
      PROVE  Witnessed(k, i)'
  <2>1. k \in Peers
    BY DEF LInv, IInv, TypeOK
  <2>. QED  BY <1>2, <1>4, <2>1, OldWitness, WitnessFrame
<1>5. CASE WorkerConnect(k0)
  <2>1. k0 \notin registered /\ conn'[k0] = "open"
    BY <1>5 DEF WorkerConnect, LInv, ConnInv, IInv, TypeOK
  <2>2. ConnInv'
    BY <1>2, <2>1 DEF LInv, ConnInv
  <2>3. \A k \in registered, i \in Items :
           conn'[k] = "open" /\ i \in SeqItems(workers[k].outstanding)
               => Witnessed(k, i)'
    BY <1>4, <2>1
  <2>. QED  BY <1>3, <2>2, <2>3
<1>6. CASE WorkerReceive(k0)
  <2>1. conn' = conn /\ conn[k0] = "open"
    BY <1>6 DEF WorkerReceive
  <2>2. ConnInv'
    BY <1>2, <2>1 DEF LInv, ConnInv
  <2>3. ASSUME NEW i \in Items, k0 \in registered,
               i \in SeqItems(workers[k0].outstanding)
        PROVE  Witnessed(k0, i)'
    <3> DEFINE tw == toWorker[k0]
               tb == toBroker[k0]
               h == Head(tw)
    <3>1. /\ tw \in Seq(ToWorkerMsgs) /\ tw # << >> /\ tb \in Seq(ToBrokerMsgs)
          /\ h \in ToWorkerMsgs
          /\ toWorker'[k0] = Tail(tw)
          /\ toBroker'[k0] = IF h.type = "WORK_ITEM" THEN Append(tb, CompleteMsg(h.id))
                                                    ELSE tb
      BY <1>6, HeadTailProperties DEF WorkerReceive, LInv, IInv, TypeOK
    <3>2. Witnessed(k0, i)
      BY <2>1, <2>3, OldWitness
    <3>3. h.type = "WORK_ITEM" => CompleteMsg(h.id) \in ToBrokerMsgs
      BY <3>1, CompleteOfWorkItem
    <3> HIDE DEF tw, tb, h
    <3>4. CASE InPipe(CompleteMsg(i), tb)
      <4>1. InPipe(CompleteMsg(i), toBroker'[k0])
        BY <3>1, <3>3, <3>4, InPipeAppend
      <4>. QED  BY <4>1 DEF Witnessed
    <3>5. CASE InPipe(WorkItemMsg(i), tw) /\ h = WorkItemMsg(i)
      <4>1. h.type = "WORK_ITEM" /\ h.id = i
        BY <3>5 DEF WorkItemMsg
      <4>2. toBroker'[k0] = Append(tb, CompleteMsg(i)) /\ CompleteMsg(i) \in ToBrokerMsgs
        BY <3>1, <3>3, <4>1
      <4>3. InPipe(CompleteMsg(i), toBroker'[k0])
        BY <3>1, <4>2, InPipeAppend
      <4>. QED  BY <4>3 DEF Witnessed
    <3>6. CASE InPipe(WorkItemMsg(i), tw) /\ h # WorkItemMsg(i)
      <4>1. InPipe(WorkItemMsg(i), Tail(tw))
        BY <3>1, <3>6, InPipeTail DEF h
      <4>. QED  BY <3>1, <4>1 DEF Witnessed
    <3>. QED  BY <3>2, <3>4, <3>5, <3>6 DEF Witnessed, tw, tb
  <2>4. \A k \in registered, i \in Items :
           conn'[k] = "open" /\ i \in SeqItems(workers[k].outstanding)
               => Witnessed(k, i)'
    BY <1>4, <2>3
  <2>. QED  BY <1>3, <2>2, <2>4
<1>7. CASE WorkerStrayComplete(k0)
  <2>1. /\ conn' = conn /\ conn[k0] = "open" /\ toBroker[k0] = << >>
        /\ toWorker' = toWorker
    BY <1>7 DEF WorkerStrayComplete
  <2>2. ConnInv'
    BY <1>2, <2>1 DEF LInv, ConnInv
  <2>3. ASSUME NEW i \in Items, k0 \in registered,
               i \in SeqItems(workers[k0].outstanding)
        PROVE  Witnessed(k0, i)'
    <3>1. Witnessed(k0, i)
      BY <2>1, <2>3, OldWitness
    <3>2. ~InPipe(CompleteMsg(i), toBroker[k0])
      BY <2>1 DEF InPipe
    <3>. QED  BY <2>1, <3>1, <3>2 DEF Witnessed
  <2>4. \A k \in registered, i \in Items :
           conn'[k] = "open" /\ i \in SeqItems(workers[k].outstanding)
               => Witnessed(k, i)'
    BY <1>4, <2>3
  <2>. QED  BY <1>3, <2>2, <2>4
<1>8. CASE WorkerClose(k0)
  <2>1. conn'[k0] = "closed" /\ conn[k0] = "open"
    BY <1>8 DEF WorkerClose, LInv, IInv, TypeOK
  <2>2. ConnInv'
    BY <1>2, <2>1 DEF LInv, ConnInv
  <2>3. \A k \in registered, i \in Items :
           conn'[k] = "open" /\ i \in SeqItems(workers[k].outstanding)
               => Witnessed(k, i)'
    BY <1>4, <2>1
  <2>. QED  BY <1>3, <2>2, <2>3
<1>. QED  BY <1>5, <1>6, <1>7, <1>8

LEMMA NextLInv == LInv /\ [Next]_vars => LInv'
<1> SUFFICES ASSUME LInv, [Next]_vars PROVE LInv'
  OBVIOUS
<1>1. CASE OnGeneratorPollin
  BY <1>1, GeneratorLInv
<1>2. CASE \E k \in Peers : OnWorkerDisconnect(k) \/ OnWorkerRegister(k) \/ OnWorkerComplete(k)
  BY <1>2, DisconnectLInv, RegisterLInv, CompleteLInv
<1>3. CASE SendHeartbeat
  BY <1>3, HeartbeatLInv
<1>4. CASE WorkerNext
  BY <1>4, WorkerLInv
<1>5. CASE UNCHANGED vars
  BY <1>5 DEF LInv, IInv, TypeOK, QueueInv, ConnInv, WorkItemInFlight,
              vars, brokerVars, netVars
<1>. QED  BY <1>1, <1>2, <1>3, <1>4, <1>5 DEF Next, BrokerNext

-----------------------------------------------------------------------------
\* No WORK_ITEM goes missing: because multipart_t::send on the worker
\* socket waits for room at the high-water mark, each item in
\* outstanding_items of an open worker has its WORK_ITEM in the pipe to the
\* worker or the worker's COMPLETE in the pipe back, for every number of
\* peers, items, subscriptions and every high-water mark.  The dispatch
\* loop, the COMPLETE handler's refill from waiting_items, heartbeats and a
\* worker that may close its connection or send a stray COMPLETE all keep it.
THEOREM WorkItemsAccounted ==
    Spec => []WorkItemInFlight
<1>1. Init => LInv
  BY InitLInv
<1>2. LInv /\ [Next]_vars => LInv'
  BY NextLInv
<1>3. LInv => WorkItemInFlight
  BY DEF LInv
<1>. QED  BY <1>1, <1>2, <1>3, PTL DEF Spec

=============================================================================
