------------------------- MODULE TimesliceSubscriber -------------------------
(***************************************************************************)
(* fles::TimesliceSubscriber in src/lib/fles_ipc: a            *)
(* ZMQ SUB socket with receive high-water mark RcvHwm, connected to a      *)
(* publisher of serialized timeslices.  get() blocks in recv for the next  *)
(* message and deserializes it in two stages: the binary_iarchive          *)
(* constructor reads the archive header (outside the try block), then      *)
(* ia >> *sts reads the timeslice (inside it).  A failure of the second    *)
(* sets eos_flag and returns nullptr, after which every get() returns      *)
(* nullptr at once; a failure of the first throws archive_exception out    *)
(* of get() and leaves eos() false.                                        *)
(*                                                                         *)
(* A publication is abstracted to which of the three outcomes decoding it  *)
(* has.  A SUB socket drops what arrives before its subscription reached   *)
(* the publisher and what arrives while its queue is full.  The caller     *)
(* makes one get() call at a time.                                         *)
(***************************************************************************)
EXTENDS Naturals, Sequences

CONSTANTS
    NMsgs,      \* the number of messages the publisher sends
    RcvHwm      \* ZMQ_RCVHWM of the subscriber (the constructor's hwm)

ASSUME SubscriberAssumption == NMsgs \in Nat /\ RcvHwm \in Nat \ {0}

\* what deserializing a message does: it yields a timeslice, its header is
\* rejected by the binary_iarchive constructor, or its body by ia >> *sts
Msgs == {"timeslice", "bad_header", "bad_body"}

VARIABLES
    subscribed, \* the empty ZMQ_SUBSCRIBE filter has taken effect
    sent,       \* messages the publisher has sent
    rcvq,       \* messages queued at the SUB socket
    eos_flag,
    inGet,      \* a get() call is blocked in recv
    result      \* how the last get() ended: "none" (no call yet),
                \* "timeslice", "null" or "exception"

vars == <<subscribed, sent, rcvq, eos_flag, inGet, result>>

Init ==
    /\ subscribed = FALSE
    /\ sent = 0
    /\ rcvq = <<>>
    /\ eos_flag = FALSE
    /\ inGet = FALSE
    /\ result = "none"

\* the subscription set in the constructor reaches the publisher
Subscribe ==
    /\ ~subscribed
    /\ subscribed' = TRUE
    /\ UNCHANGED <<sent, rcvq, eos_flag, inGet, result>>

\* Mutant: the SUB queue takes every message, whatever it holds
PublishNoHwm(m) ==
    /\ sent < NMsgs
    /\ sent' = sent + 1
    /\ rcvq' = IF subscribed THEN Append(rcvq, m) ELSE rcvq
    /\ UNCHANGED <<subscribed, eos_flag, inGet, result>>

\* the publisher sends one message; the SUB queue keeps it only when the
\* subscription is in effect and fewer than RcvHwm messages are queued
Publish(m) ==
    /\ sent < NMsgs
    /\ sent' = sent + 1
    /\ rcvq' = IF subscribed /\ Len(rcvq) < RcvHwm THEN Append(rcvq, m) ELSE rcvq
    /\ UNCHANGED <<subscribed, eos_flag, inGet, result>>

\* get(): do_get returns nullptr at once after the end of stream, else
\* blocks in recv
Get ==
    /\ ~inGet
    /\ \/ /\ eos_flag
          /\ result' = "null"
          /\ UNCHANGED inGet
       \/ /\ ~eos_flag
          /\ inGet' = TRUE
          /\ UNCHANGED result
    /\ UNCHANGED <<subscribed, sent, rcvq, eos_flag>>

\* recv returns the next queued message, which is consumed whatever
\* deserializing it does
Receive ==
    /\ inGet
    /\ rcvq # <<>>
    /\ rcvq' = Tail(rcvq)
    /\ inGet' = FALSE
    /\ \/ /\ Head(rcvq) = "timeslice"
          /\ result' = "timeslice"
          /\ UNCHANGED eos_flag
       \/ /\ Head(rcvq) = "bad_body"
          /\ eos_flag' = TRUE
          /\ result' = "null"
       \/ /\ Head(rcvq) = "bad_header"
          /\ result' = "exception"
          /\ UNCHANGED eos_flag
    /\ UNCHANGED <<subscribed, sent>>

Next ==
    \/ Subscribe
    \/ \E m \in Msgs : Publish(m)
    \/ Get
    \/ Receive

Spec == Init /\ [][Next]_vars

-----------------------------------------------------------------------------

\* The type of every variable; the SUB queue never holds more than the
\* high-water mark.
TypeOK ==
    /\ subscribed \in BOOLEAN /\ eos_flag \in BOOLEAN /\ inGet \in BOOLEAN
    /\ sent \in 0..NMsgs
    /\ rcvq \in Seq(Msgs) /\ Len(rcvq) <= RcvHwm
    /\ result \in {"none", "timeslice", "null", "exception"}

\* The contract of get() in TimesliceSubscriber.hpp ("\\return pointer to
\* the item, or nullptr if end-of-file"): every get() call that has ended
\* returned a timeslice, or nullptr with eos() true.
GetReturnsItemOrEnd ==
    result # "none" => result = "timeslice" \/ (result = "null" /\ eos_flag)

=============================================================================
