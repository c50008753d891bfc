--------------------------- MODULE SubscriberProofs ---------------------------
(***************************************************************************)
(* Proofs about fles::TimesliceSubscriber (module TimesliceSubscriber),    *)
(* for every number of messages and every high-water mark: the type        *)
(* invariant, in particular the bound RcvHwm on the SUB queue, is          *)
(* inductive as it stands.                                                 *)
(***************************************************************************)
EXTENDS TimesliceSubscriber, SequenceTheorems, TLAPS

LEMMA InitTypeOK == Init => TypeOK
<1> SUFFICES ASSUME Init PROVE TypeOK
  OBVIOUS
<1>1. rcvq \in Seq(Msgs)
  BY EmptySeq DEF Init
<1>2. sent \in 0..NMsgs /\ Len(rcvq) <= RcvHwm
  BY SubscriberAssumption DEF Init
<1>. QED  BY <1>1, <1>2 DEF Init, TypeOK

LEMMA PublishTypeOK ==
    ASSUME TypeOK, NEW m \in Msgs, Publish(m)
    PROVE  TypeOK'
<1>1. /\ sent + 1 \in 0..NMsgs /\ sent' = sent + 1
      /\ Len(rcvq) \in Nat
  BY SubscriberAssumption, LenProperties DEF Publish, TypeOK
<1>2. CASE subscribed /\ Len(rcvq) < RcvHwm
  <2>1. rcvq' = Append(rcvq, m)
    BY <1>2 DEF Publish
  <2>2. rcvq' \in Seq(Msgs) /\ Len(rcvq') = Len(rcvq) + 1
    BY <2>1, AppendProperties DEF TypeOK
  <2>3. Len(rcvq') <= RcvHwm
    BY <1>1, <1>2, <2>2, SubscriberAssumption
  <2>. QED  BY <1>1, <2>2, <2>3 DEF Publish, TypeOK
<1>3. CASE ~(subscribed /\ Len(rcvq) < RcvHwm)
  BY <1>1, <1>3 DEF Publish, TypeOK
<1>. QED  BY <1>2, <1>3

LEMMA ReceiveTypeOK ==
    ASSUME TypeOK, Receive
    PROVE  TypeOK'
<1>1. rcvq \in Seq(Msgs) /\ rcvq # <<>> /\ rcvq' = Tail(rcvq)
  BY DEF Receive, TypeOK
<1>2. rcvq' \in Seq(Msgs) /\ Len(rcvq') = Len(rcvq) - 1 /\ Len(rcvq) \in Nat
  BY <1>1, HeadTailProperties, LenProperties
<1>3. Len(rcvq') <= RcvHwm
  BY <1>2, SubscriberAssumption DEF TypeOK
<1>. QED  BY <1>2, <1>3 DEF Receive, TypeOK

LEMMA NextTypeOK == TypeOK /\ [Next]_vars => TypeOK'
<1> SUFFICES ASSUME TypeOK, [Next]_vars PROVE TypeOK'
  OBVIOUS
<1>1. CASE Subscribe \/ Get
  BY <1>1 DEF Subscribe, Get, TypeOK
<1>2. CASE UNCHANGED vars
  BY <1>2 DEF vars, TypeOK
<1>. QED  BY <1>1, <1>2, PublishTypeOK, ReceiveTypeOK DEF Next

-----------------------------------------------------------------------------
\* Every variable of the subscriber keeps its type, for every number of
\* messages and every high-water mark: in particular the SUB queue never
\* holds more than the RcvHwm messages the constructor's hwm allows.
THEOREM SubscriberTypeCorrect == Spec => []TypeOK
BY InitTypeOK, NextTypeOK, PTL DEF Spec

=============================================================================
