---------------------------- MODULE LedgerProofs ----------------------------
(***************************************************************************)
(* The completion ledger of the broker, for every value of the constants:  *)
(* every produced item is reported to the producer exactly once when the   *)
(* last worker queue lets go of it, and never before (CompletionReported-  *)
(* Once), and the broker refines the abstract ledger CompletionLedger.     *)
(*                                                                         *)
(* Both rest on two facts about each step: the items held after it are    *)
(* among those held before plus the item it issues, and the items it       *)
(* reports are exactly those it released.  With the strengthening          *)
(* IssuedOK (every queued item was issued) they make LInv inductive.       *)
(***************************************************************************)
EXTENDS ItemDistributorProofs

\* the items one worker record holds a reference to
Holds(w) == SeqItems(w.waiting) \cup SeqItems(w.outstanding)

\* no queue holds an item the producer has not sent yet
IssuedOK == \A k \in Peers : Holds(workers[k]) \subseteq 0 .. nextItem - 1

LInv == IInv /\ IssuedOK /\ CompletionReportedOnce

\* A step of the ledger that issues the ids in N (nothing, or the next id):
\* what is held afterwards was held before or is new, and reported grows by
\* one for each id that was held (or new) and is held no more.
LedgerStep(N) ==
    /\ Held(registered', workers') \subseteq Held(registered, workers) \cup N
    /\ nextItem' = IF N = {} THEN nextItem ELSE nextItem + 1
    /\ reported' = [j \in Items |->
                      IF j \in (Held(registered, workers) \cup N) \ Held(registered', workers')
                      THEN reported[j] + 1 ELSE reported[j]]

-----------------------------------------------------------------------------
(* Lemmas about the items of queues and records.                           *)

LEMMA SeqItemsEmpty == SeqItems(<< >>) = {}
BY DEF SeqItems

LEMMA SeqItemsAppend ==
    ASSUME NEW S, NEW s \in Seq(S), NEW x
    PROVE  SeqItems(Append(s, x)) = SeqItems(s) \cup {x}
BY DEF SeqItems

LEMMA SeqItemsTail ==
    ASSUME NEW S, NEW s \in Seq(S), s # << >>
    PROVE  SeqItems(Tail(s)) \cup {Head(s)} = SeqItems(s)
<1>1. Len(s) >= 1 /\ Len(Tail(s)) = Len(s) - 1
  BY HeadTailProperties
<1>2. \A j \in 1 .. Len(Tail(s)) : Tail(s)[j] = s[j + 1]
  BY HeadTailProperties
<1>3. QED
  BY <1>1, <1>2 DEF SeqItems

LEMMA SeqItemsType ==
    ASSUME NEW s \in Seq(Items)
    PROVE  SeqItems(s) \subseteq Items
BY DEF SeqItems

\* membership in Held is membership in the Holds of a registered worker
LEMMA HeldMember ==
    ASSUME NEW reg, NEW ws, NEW x
    PROVE  x \in Held(reg, ws) <=> \E k \in reg : x \in Holds(ws[k])
BY DEF Held, Holds

\* Held after a step, from what each record after the step holds
LEMMA HeldShrinks ==
    ASSUME NEW reg, NEW reg2, NEW ws, NEW ws2, NEW N,
           \A k \in reg2 : \A x \in Holds(ws2[k]) :
                x \in N \/ (k \in reg /\ x \in Holds(ws[k]))
    PROVE  Held(reg2, ws2) \subseteq Held(reg, ws) \cup N
<1> SUFFICES ASSUME NEW x, x \in Held(reg2, ws2), x \notin N PROVE x \in Held(reg, ws)
  OBVIOUS
<1>1. PICK k \in reg2 : x \in Holds(ws2[k])
  BY HeldMember
<1>2. k \in reg /\ x \in Holds(ws[k])
  BY <1>1
<1>3. QED
  BY <1>2, HeldMember

LEMMA EmptyHolds ==
    ASSUME NEW w, w.waiting = << >>, w.outstanding = << >>
    PROVE  Holds(w) = {}
BY SeqItemsEmpty DEF Holds

\* on_generator_pollin adds at most the new item to a worker's queues
LEMMA DistributeHolds ==
    ASSUME NEW w \in WorkerRec, NEW i \in Items
    PROVE  Holds(Distribute(w, i)) \subseteq Holds(w) \cup {i}
<1> DEFINE base == IF w.policy = "PrebufferOne" THEN << >> ELSE w.waiting
<1>1. base \in Seq(Items) /\ SeqItems(base) \subseteq SeqItems(w.waiting)
  BY SeqItemsEmpty DEF WorkerRec
<1>2. SeqItems(Append(base, i)) = SeqItems(base) \cup {i}
  BY <1>1, SeqItemsAppend
<1>3. SeqItems(<<i>>) = {i}
  BY DEF SeqItems
<1>4. CASE ~WantsItem(w, i)
  BY <1>4 DEF Distribute
<1>5. CASE WantsItem(w, i) /\ Idle(w)
  BY <1>1, <1>3, <1>5 DEF Distribute, WithQueues, Holds
<1>6. CASE WantsItem(w, i) /\ ~Idle(w) /\ w.policy # "Skip"
  BY <1>1, <1>2, <1>6 DEF Distribute, WithQueues, Holds
<1>7. CASE WantsItem(w, i) /\ ~Idle(w) /\ w.policy = "Skip"
  BY <1>1, <1>7 DEF Distribute, WithQueues, Holds
<1>8. QED
  BY <1>4, <1>5, <1>6, <1>7

\* the COMPLETE handler only moves items from waiting to outstanding
LEMMA CompletedHolds ==
    ASSUME NEW w \in WorkerRec, WorkerOK(w), NEW i, i \in SeqItems(w.outstanding)
    PROVE  Holds(Completed(w, i)) \subseteq Holds(w)
<1>1. w.outstanding \in Seq(Items) /\ Len(w.outstanding) <= 1 /\ w.waiting \in Seq(Items)
  BY DEF WorkerRec, WorkerOK
<1>2. Len(w.outstanding) = 1 /\ w.outstanding[1] = i
  BY <1>1, ShortSeqItem
<1>3. RemoveFirst(w.outstanding, i) = << >>
  BY <1>1, <1>2, RemoveFirstSingleton
<1>4. CASE w.waiting = << >>
  BY <1>3, <1>4, SeqItemsEmpty DEF Completed, WithQueues, Holds
<1>5. CASE w.waiting # << >>
  <2>1. SeqItems(Tail(w.waiting)) \cup {Head(w.waiting)} = SeqItems(w.waiting)
    BY <1>1, <1>5, SeqItemsTail
  <2>2. SeqItems(Append(<< >>, Head(w.waiting))) = {Head(w.waiting)}
    BY DEF SeqItems
  <2>3. QED
    BY <1>3, <1>5, <2>1, <2>2 DEF Completed, WithQueues, Holds
<1>6. QED
  BY <1>4, <1>5

-----------------------------------------------------------------------------
(* The ledger after one step.                                              *)

\* the arithmetic of CompletionReportedOnce across a ledger step
LEMMA ReportStep ==
    ASSUME NEW H, NEW H2, NEW N, NEW n \in Nat, NEW n2, NEW rep, NEW rep2,
           H \subseteq 0 .. n - 1, N \subseteq {n},
           n2 = IF N = {} THEN n ELSE n + 1,
           H2 \subseteq H \cup N,
           \A i \in Items : rep[i] = IF i < n /\ i \notin H THEN 1 ELSE 0,
           rep2 = [j \in Items |-> IF j \in (H \cup N) \ H2 THEN rep[j] + 1 ELSE rep[j]]
    PROVE  \A i \in Items : rep2[i] = IF i < n2 /\ i \notin H2 THEN 1 ELSE 0
BY ConstantsAssumption DEF Items

\* Held is made of issued items
LEMMA HeldIssued ==
    ASSUME IssuedOK, TypeOK
    PROVE  Held(registered, workers) \subseteq 0 .. nextItem - 1
<1> SUFFICES ASSUME NEW x, x \in Held(registered, workers) PROVE x \in 0 .. nextItem - 1
  OBVIOUS
<1>1. PICK k \in registered : x \in Holds(workers[k])
  BY HeldMember
<1>2. QED
  BY <1>1 DEF IssuedOK, TypeOK

-----------------------------------------------------------------------------
(* Each action is a ledger step and keeps IssuedOK.                        *)

\* steps that leave registered, workers, nextItem and reported alone
LEMMA UnchangedLedger ==
    ASSUME TypeOK, IssuedOK,
           UNCHANGED <<registered, workers, nextItem, reported>>
    PROVE  LedgerStep({}) /\ IssuedOK'
BY DEF LedgerStep, TypeOK, IssuedOK

LEMMA GeneratorLedger ==
    ASSUME IInv, IssuedOK, OnGeneratorPollin
    PROVE  \/ LedgerStep({}) /\ IssuedOK'
           \/ nextItem \in Items /\ LedgerStep({nextItem}) /\ IssuedOK'
<1> DEFINE i == nextItem
<1>1. i \in Items
  BY ConstantsAssumption DEF OnGeneratorPollin, IInv, TypeOK, Items
<1>2. CASE \/ \E k \in registered : workers[k].stride = 0
           \/ /\ \A k \in registered : workers[k].stride # 0
              /\ \E k \in Dispatched(i) : Unreachable(k)
  <2>1. UNCHANGED <<registered, workers, nextItem, reported>>
    BY <1>2 DEF OnGeneratorPollin, Crash
  <2>2. QED
    BY <2>1, UnchangedLedger DEF IInv
<1>3. CASE /\ \A k \in registered : workers[k].stride # 0
           /\ \A k \in Dispatched(i) : ~Unreachable(k)
  <2>1. /\ workers' = [k \in Peers |-> IF k \in registered THEN Distribute(workers[k], i)
                                                          ELSE workers[k]]
        /\ nextItem' = i + 1
        /\ SendPendingCompletions((Held(registered, workers) \cup {i})
                                    \ Held(registered, workers'))
        /\ registered' = registered
    BY <1>3 DEF OnGeneratorPollin
  <2>2. \A k \in Peers : Holds(workers'[k]) \subseteq Holds(workers[k]) \cup {i}
    BY <1>1, <2>1, DistributeHolds DEF IInv, TypeOK
  <2>3. Held(registered', workers') \subseteq Held(registered, workers) \cup {i}
    <3>1. \A k \in registered' : \A x \in Holds(workers'[k]) :
              x \in {i} \/ (k \in registered /\ x \in Holds(workers[k]))
      BY <2>1, <2>2 DEF IInv, TypeOK
    <3>2. QED
      BY <3>1, HeldShrinks
  <2>4. LedgerStep({i})
    BY <2>1, <2>3 DEF LedgerStep, SendPendingCompletions
  <2>5. IssuedOK'
    BY <2>1, <2>2, <1>1 DEF IssuedOK, Items
  <2>6. QED
    BY <1>1, <2>4, <2>5
<1>4. QED
  BY <1>2, <1>3 DEF OnGeneratorPollin

LEMMA DisconnectLedger ==
    ASSUME NEW k \in Peers, IInv, IssuedOK, OnWorkerDisconnect(k)
    PROVE  LedgerStep({}) /\ IssuedOK'
<1>1. Holds(NoWorker) = {}
  BY EmptyHolds DEF NoWorker
<1>2. \A p \in Peers : Holds(workers'[p]) = IF p = k THEN {} ELSE Holds(workers[p])
  BY <1>1 DEF OnWorkerDisconnect, IInv, TypeOK
<1>3. Held(registered', workers') \subseteq Held(registered, workers) \cup {}
  <2>1. \A p \in registered' : \A x \in Holds(workers'[p]) :
            x \in {} \/ (p \in registered /\ x \in Holds(workers[p]))
    BY <1>2 DEF OnWorkerDisconnect, IInv, TypeOK
  <2>2. QED
    BY <2>1, HeldShrinks
<1>4. IssuedOK'
  BY <1>2 DEF OnWorkerDisconnect, IssuedOK
<1>5. reported' = [j \in Items |-> IF j \in (Held(registered, workers) \cup {}) \ Held(registered', workers')
                                  THEN reported[j] + 1 ELSE reported[j]]
  BY DEF OnWorkerDisconnect, SendPendingCompletions
<1>6. QED
  BY <1>3, <1>4, <1>5 DEF LedgerStep, OnWorkerDisconnect

LEMMA RegisterLedger ==
    ASSUME NEW k \in Peers, IInv, IssuedOK, OnWorkerRegister(k)
    PROVE  LedgerStep({}) /\ IssuedOK'
<1>1. Holds(NewWorker(Head(toBroker[k]))) = {}
  BY EmptyHolds DEF NewWorker
<1>2. \A p \in Peers : Holds(workers'[p]) = IF p = k THEN {} ELSE Holds(workers[p])
  BY <1>1 DEF OnWorkerRegister, IInv, TypeOK
<1>3. Held(registered', workers') \subseteq Held(registered, workers) \cup {}
  <2>1. \A p \in registered' : \A x \in Holds(workers'[p]) :
            x \in {} \/ (p \in registered /\ x \in Holds(workers[p]))
    BY <1>2 DEF OnWorkerRegister, IInv, TypeOK
  <2>2. QED
    BY <2>1, HeldShrinks
<1>4. IssuedOK'
  BY <1>2 DEF OnWorkerRegister, IssuedOK
<1>5. reported' = [j \in Items |-> IF j \in (Held(registered, workers) \cup {}) \ Held(registered', workers')
                                  THEN reported[j] + 1 ELSE reported[j]]
  BY DEF OnWorkerRegister, SendPendingCompletions
<1>6. QED
  BY <1>3, <1>4, <1>5 DEF LedgerStep, OnWorkerRegister

LEMMA CompleteLedger ==
    ASSUME NEW k \in Peers, IInv, IssuedOK, OnWorkerComplete(k)
    PROVE  LedgerStep({}) /\ IssuedOK'
<1> DEFINE i == Head(toBroker[k]).id
<1> DEFINE w == workers[k]
<1>1. CASE \/ k \notin registered \/ i \notin SeqItems(w.outstanding)
           \/ k \in registered /\ w.waiting # << >> /\ Unreachable(k)
  <2>1. UNCHANGED <<registered, workers, nextItem, reported>>
    BY <1>1 DEF OnWorkerComplete, Crash
  <2>2. QED
    BY <2>1, UnchangedLedger DEF IInv
<1>2. CASE /\ k \in registered
           /\ i \in SeqItems(w.outstanding)
           /\ w.waiting = << >> \/ ~Unreachable(k)
  <2>1. /\ workers' = [workers EXCEPT ![k] = Completed(w, i)]
        /\ SendPendingCompletions(Held(registered, workers) \ Held(registered, workers'))
        /\ UNCHANGED <<registered, nextItem>>
    BY <1>2 DEF OnWorkerComplete
  <2>2. Holds(Completed(w, i)) \subseteq Holds(w)
    BY <1>2, CompletedHolds DEF IInv, TypeOK, QueueInv
  <2>3. \A p \in Peers : Holds(workers'[p]) \subseteq Holds(workers[p])
    BY <2>1, <2>2 DEF IInv, TypeOK
  <2>4. Held(registered', workers') \subseteq Held(registered, workers) \cup {}
    <3>1. \A p \in registered' : \A x \in Holds(workers'[p]) :
              x \in {} \/ (p \in registered /\ x \in Holds(workers[p]))
      BY <2>1, <2>3
    <3>2. QED
      BY <3>1, HeldShrinks
  <2>5. QED
    BY <2>1, <2>3, <2>4 DEF LedgerStep, SendPendingCompletions, IssuedOK
<1>3. QED
  BY <1>1, <1>2 DEF OnWorkerComplete

LEMMA HeartbeatLedger ==
    ASSUME IInv, IssuedOK, SendHeartbeat
    PROVE  LedgerStep({}) /\ IssuedOK'
<1>1. UNCHANGED <<registered, workers, nextItem, reported>>
  BY DEF SendHeartbeat, Crash
<1>2. QED
  BY <1>1, UnchangedLedger DEF IInv

LEMMA WorkerLedger ==
    ASSUME IInv, IssuedOK, WorkerNext
    PROVE  LedgerStep({}) /\ IssuedOK'
<1>1. UNCHANGED <<registered, workers, nextItem, reported>>
  BY DEF WorkerNext, WorkerConnect, WorkerReceive, WorkerStrayComplete, WorkerClose, brokerVars
<1>2. QED
  BY <1>1, UnchangedLedger DEF IInv

\* every step of the broker is a ledger step that keeps IssuedOK
LEMMA NextLedger ==
    ASSUME IInv, IssuedOK, [Next]_vars
    PROVE  \/ LedgerStep({}) /\ IssuedOK'
           \/ nextItem \in Items /\ LedgerStep({nextItem}) /\ IssuedOK'
<1>1. CASE OnGeneratorPollin
  BY <1>1, GeneratorLedger
<1>2. CASE \E k \in Peers : OnWorkerDisconnect(k) \/ OnWorkerRegister(k) \/ OnWorkerComplete(k)
  BY <1>2, DisconnectLedger, RegisterLedger, CompleteLedger
<1>3. CASE SendHeartbeat
  BY <1>3, HeartbeatLedger
<1>4. CASE WorkerNext
  BY <1>4, WorkerLedger
<1>5. CASE UNCHANGED vars
  BY <1>5, UnchangedLedger DEF vars, brokerVars, IInv
<1>6. QED
  BY <1>1, <1>2, <1>3, <1>4, <1>5 DEF Next, BrokerNext

-----------------------------------------------------------------------------
(* The inductive invariant LInv.                                           *)

LEMMA InitLInv == Init => LInv
<1> SUFFICES ASSUME Init PROVE LInv
  OBVIOUS
<1>1. IInv
  BY InitIInv
<1>2. IssuedOK
  <2>1. \A k \in Peers : Holds(workers[k]) = {}
    BY EmptyHolds DEF Init, NoWorker
  <2>2. QED
    BY <2>1 DEF IssuedOK
<1>3. CompletionReportedOnce
  BY DEF Init, CompletionReportedOnce, Items
<1>4. QED
  BY <1>1, <1>2, <1>3 DEF LInv

LEMMA NextLInv == LInv /\ [Next]_vars => LInv'
<1> SUFFICES ASSUME LInv, [Next]_vars PROVE LInv'
  OBVIOUS
<1>1. IInv'
  BY NextIInv DEF LInv
<1>2. Held(registered, workers) \subseteq 0 .. nextItem - 1
  BY HeldIssued DEF LInv, IInv
<1>3. nextItem \in Nat /\ reported \in [Items -> Nat]
  BY DEF LInv, IInv, TypeOK
<1>4. CASE LedgerStep({}) /\ IssuedOK'
  <2>1. CompletionReportedOnce'
    BY <1>2, <1>3, <1>4, ReportStep DEF LedgerStep, LInv, CompletionReportedOnce
  <2>2. QED
    BY <1>1, <1>4, <2>1 DEF LInv
<1>5. CASE nextItem \in Items /\ LedgerStep({nextItem}) /\ IssuedOK'
  <2>1. CompletionReportedOnce'
    BY <1>2, <1>3, <1>5, ReportStep DEF LedgerStep, LInv, CompletionReportedOnce
  <2>2. QED
    BY <1>1, <1>5, <2>1 DEF LInv
<1>6. QED
  BY <1>4, <1>5, NextLedger DEF LInv

\* The completion ledger is exact, for any number of workers, items and
\* subscriptions: an item the producer sent is reported back once when the
\* ~Item() destructor of its last queue reference runs and
\* send_pending_completions drains it, and never while a worker holds it.
THEOREM LedgerExact == Spec => []CompletionReportedOnce
<1>1. Init => LInv
  BY InitLInv
<1>2. LInv /\ [Next]_vars => LInv'
  BY NextLInv
<1>3. LInv => CompletionReportedOnce
  BY DEF LInv
<1>4. QED
  BY <1>1, <1>2, <1>3, PTL DEF Spec

\* The broker implements the abstract completion ledger: ids are issued in
\* order and every report is of an issued id never reported before.
THEOREM LedgerRefinement == Spec => LedgerSpec
<1>1. Init => Ledger!Init
  BY DEF Init, Ledger!Init, Ledger!Items, Items
<1>2. LInv /\ [Next]_vars => [Ledger!Next]_<<nextItem, reported>>
  <2> SUFFICES ASSUME LInv, [Next]_vars PROVE Ledger!Next
    OBVIOUS
  <2>1. PICK N : /\ \/ N = {}
                    \/ N = {nextItem} /\ nextItem \in Items
                 /\ LedgerStep(N)
    BY NextLedger DEF LInv
  <2> DEFINE H == Held(registered, workers)
             R == ((H \cup N) \ Held(registered', workers')) \cap Items
  <2>2. H \subseteq 0 .. nextItem - 1
    BY HeldIssued DEF LInv, IInv
  <2>3. nextItem \in 0 .. NItems /\ reported \in [Items -> Nat]
    BY DEF LInv, IInv, TypeOK
  <2>4. nextItem' \in {nextItem, nextItem + 1} \cap 0 .. NItems
    BY <2>1, <2>3, ConstantsAssumption DEF LedgerStep, Items
  <2>5. \A i \in R : i < nextItem' /\ reported[i] = 0
    BY <2>1, <2>2, <2>3 DEF LedgerStep, LInv, CompletionReportedOnce, Items
  <2>6. reported' = [i \in Items |-> IF i \in R THEN reported[i] + 1 ELSE reported[i]]
    BY <2>1 DEF LedgerStep
  <2>7. R \in SUBSET Ledger!Unreported(nextItem')
    BY <2>5 DEF Ledger!Unreported, Ledger!Items, Items
  <2>8. QED
    BY <2>4, <2>6, <2>7 DEF Ledger!Next, Ledger!Report, Ledger!Items, Items
<1>3. QED
  BY <1>1, <1>2, InitLInv, NextLInv, PTL DEF Spec, LedgerSpec, Ledger!Spec
=============================================================================
