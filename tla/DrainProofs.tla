----------------------------- MODULE DrainProofs -----------------------------
(***************************************************************************)
(* Proofs about send_pending_completions() of src/ItemDistributor.hpp      *)
(* (module CompletionDrain), for every set of ids, every high-water mark   *)
(* and every number of interrupted sends.                                  *)
(***************************************************************************)
EXTENDS CompletionDrain, SequenceTheorems, FiniteSetTheorems, TLAPS

\* The inductive invariant: completed_items_ is empty whenever the broker
\* thread is outside the drain loop, and no id is in two places.
DInv ==
    /\ DrainTypeOK
    /\ ~busy => completed = << >>
    /\ NoDuplicateCompletion

-----------------------------------------------------------------------------
(* Counting an id over a range of indices of a sequence.                   *)

\* the number of indices j in a..b with s[j] = i
Cnt(i, s, a, b) == Cardinality({j \in a..b : s[j] = i})

LEMMA CntFinite ==
    ASSUME NEW i, NEW s, NEW a \in Int, NEW b \in Int
    PROVE  /\ IsFiniteSet({j \in a..b : s[j] = i})
           /\ Cnt(i, s, a, b) \in Nat
<1>1. IsFiniteSet(a..b)
  BY FS_Interval
<1>2. IsFiniteSet({j \in a..b : s[j] = i})
  BY <1>1, FS_Subset
<1>. QED  BY <1>2, FS_CardinalityType DEF Cnt

\* an empty range counts nothing
LEMMA CntEmpty ==
    ASSUME NEW i, NEW s, NEW a \in Int, NEW b \in Int, b < a
    PROVE  Cnt(i, s, a, b) = 0
<1>1. {j \in a..b : s[j] = i} = {}
  OBVIOUS
<1>. QED  BY <1>1, FS_EmptySet DEF Cnt

\* a single index counts one when it holds the id
LEMMA CntOne ==
    ASSUME NEW i, NEW s, NEW a \in Int
    PROVE  Cnt(i, s, a, a) = IF s[a] = i THEN 1 ELSE 0
<1>1. CASE s[a] = i
  <2>1. {j \in a..a : s[j] = i} = {a}
    BY <1>1
  <2>. QED  BY <1>1, <2>1, FS_Singleton DEF Cnt
<1>2. CASE s[a] # i
  <2>1. {j \in a..a : s[j] = i} = {}
    BY <1>2
  <2>. QED  BY <1>2, <2>1, FS_EmptySet DEF Cnt
<1>. QED  BY <1>1, <1>2

\* a range split in two counts what its parts count
LEMMA CntSplit ==
    ASSUME NEW i, NEW s, NEW a \in Int, NEW b \in Int, NEW c \in Int,
           a - 1 <= c, c <= b
    PROVE  Cnt(i, s, a, b) = Cnt(i, s, a, c) + Cnt(i, s, c + 1, b)
<1> DEFINE A == {j \in a..c : s[j] = i}
           B == {j \in (c + 1)..b : s[j] = i}
<1>1. {j \in a..b : s[j] = i} = A \cup B /\ A \cap B = {}
  OBVIOUS
<1>2. IsFiniteSet(A) /\ IsFiniteSet(B)
  <2>1. c + 1 \in Int
    OBVIOUS
  <2>. QED  BY <2>1, CntFinite DEF A, B
<1>3. Cardinality(A \cup B) = Cardinality(A) + Cardinality(B) - Cardinality(A \cap B)
  BY <1>2, FS_Union
<1>4. Cardinality(A \cap B) = 0
  BY <1>1, FS_EmptySet
<1>5. Cardinality(A) \in Nat /\ Cardinality(B) \in Nat
  BY <1>2, FS_CardinalityType
<1>. QED  BY <1>1, <1>3, <1>4, <1>5 DEF Cnt

\* a range that another sequence holds shifted counts the same (the bounds
\* c and e of the shifted range are named so that the lemma instantiates)
LEMMA CntShift ==
    ASSUME NEW i, NEW s, NEW t, NEW a \in Int, NEW b \in Int, NEW c \in Int,
           NEW e \in Int, e - c = b - a,
           \A j \in a..b : t[j] = s[j + (c - a)]
    PROVE  Cnt(i, t, a, b) = Cnt(i, s, c, e)
<1> DEFINE d == c - a
           A == {j \in a..b : t[j] = i}
           B == {j \in c..e : s[j] = i}
           f == [j \in A |-> j + d]
<1>1. f \in [A -> B]
  OBVIOUS
<1>2. \A j, k \in A : f[j] = f[k] => j = k
  OBVIOUS
<1>3. \A k \in B : \E j \in A : f[j] = k
  <2>1. SUFFICES ASSUME NEW k \in B PROVE \E j \in A : f[j] = k
    OBVIOUS
  <2>2. k - d \in A /\ f[k - d] = k
    OBVIOUS
  <2>. QED  BY <2>2
<1>4. f \in Injection(A, B)
  BY <1>1, <1>2 DEF Injection, IsInjective
<1>5. f \in Surjection(A, B)
  BY <1>1, <1>3 DEF Surjection
<1>6. ExistsBijection(A, B)
  BY <1>4, <1>5 DEF ExistsBijection, Bijection
<1>7. IsFiniteSet(A)
  BY CntFinite DEF A
<1>. QED  BY <1>6, <1>7, FS_Bijection DEF Cnt

\* a range without repeated ids counts each id at most once
LEMMA CntInjective ==
    ASSUME NEW i, NEW s, NEW a \in Int, NEW b \in Int,
           \A j, k \in a..b : j # k => s[j] # s[k]
    PROVE  Cnt(i, s, a, b) <= 1
<1> DEFINE A == {j \in a..b : s[j] = i}
<1>1. CASE A = {}
  BY <1>1, FS_EmptySet DEF Cnt
<1>2. CASE A # {}
  <2>1. PICK j0 \in A : TRUE
    BY <1>2
  <2>2. A \subseteq {j0}
    OBVIOUS
  <2>3. Cardinality(A) <= Cardinality({j0})
    BY <2>2, FS_Singleton, FS_Subset
  <2>. QED  BY <2>3, FS_Singleton DEF Cnt
<1>. QED  BY <1>1, <1>2

\* a range where the id does not occur counts nothing
LEMMA CntAbsent ==
    ASSUME NEW i, NEW s, NEW a \in Int, NEW b \in Int,
           \A j \in a..b : s[j] # i
    PROVE  Cnt(i, s, a, b) = 0
<1>1. {j \in a..b : s[j] = i} = {}
  OBVIOUS
<1>. QED  BY <1>1, FS_EmptySet DEF Cnt

-----------------------------------------------------------------------------
(* What Occurrences returns for the sequence operators the drain uses.     *)

\* Occurrences counts over the whole index range
LEMMA OccIsCnt ==
    ASSUME NEW i, NEW s
    PROVE  Occurrences(i, s) = Cnt(i, s, 1, Len(s))
BY DEF Occurrences, Cnt

LEMMA OccNat ==
    ASSUME NEW S, NEW s \in Seq(S), NEW i
    PROVE  Occurrences(i, s) \in Nat
<1>1. 1 \in Int /\ Len(s) \in Int
  BY LenProperties
<1>2. Cnt(i, s, 1, Len(s)) \in Nat
  BY <1>1, CntFinite, Zenon
<1>. QED  BY <1>2, OccIsCnt

\* an id occurs in the suffix of s from index p as often as in s[p..]
LEMMA OccSuffix ==
    ASSUME NEW S, NEW s \in Seq(S), NEW p \in 1..Len(s) + 1, NEW i
    PROVE  Occurrences(i, SubSeq(s, p, Len(s))) = Cnt(i, s, p, Len(s))
<1>1. Len(s) \in Nat
  BY LenProperties
<1>2. \A k \in p..Len(s) : s[k] \in S
  BY <1>1, ElementOfSeq
<1>3. /\ Len(SubSeq(s, p, Len(s))) = IF p <= Len(s) THEN Len(s) - p + 1 ELSE 0
      /\ \A k \in 1..Len(s) - p + 1 : SubSeq(s, p, Len(s))[k] = s[p + k - 1]
  BY <1>2, SubSeqProperties
<1> DEFINE u == SubSeq(s, p, Len(s))
           n == Len(s) - p + 1
<1>4. /\ Len(u) = n /\ n \in Int /\ Len(s) - p = n - 1
      /\ \A k \in 1..n : u[k] = s[k + (p - 1)]
  BY <1>1, <1>3
<1> HIDE DEF u, n
<1>6. p \in Int /\ 1 \in Int /\ Len(s) \in Int
  BY <1>1
<1>5. Cnt(i, u, 1, n) = Cnt(i, s, p, Len(s))
  BY <1>4, <1>6, CntShift
<1>. QED  BY <1>4, <1>5, OccIsCnt DEF u

\* appending x adds one occurrence of x
LEMMA OccAppend ==
    ASSUME NEW S, NEW s \in Seq(S), NEW x \in S, NEW i
    PROVE  Occurrences(i, Append(s, x)) =
               Occurrences(i, s) + (IF x = i THEN 1 ELSE 0)
<1> DEFINE L == Len(s)
           t == Append(s, x)
<1>1. /\ L \in Nat /\ Len(t) = L + 1
      /\ \A j \in 1..L : t[j] = s[j + (1 - 1)]
      /\ t[L + 1] = x
  BY LenProperties, AppendProperties
<1> HIDE DEF L, t
<1>2. Cnt(i, t, 1, L + 1) = Cnt(i, t, 1, L) + Cnt(i, t, L + 1, L + 1)
  BY <1>1, CntSplit
<1>3. Cnt(i, t, 1, L) = Cnt(i, s, 1, L)
  BY <1>1, CntShift
<1>4. Cnt(i, t, L + 1, L + 1) = IF t[L + 1] = i THEN 1 ELSE 0
  BY <1>1, CntOne
<1>5. /\ Occurrences(i, t) = Cnt(i, t, 1, L + 1)
      /\ Occurrences(i, s) = Cnt(i, s, 1, L)
  BY <1>1, OccIsCnt DEF L
<1>. QED  BY <1>1, <1>2, <1>3, <1>4, <1>5 DEF t

\* the head of a non-empty sequence occurs once more in it than in its tail
LEMMA OccTail ==
    ASSUME NEW S, NEW s \in Seq(S), s # << >>, NEW i
    PROVE  Occurrences(i, s) =
               (IF Head(s) = i THEN 1 ELSE 0) + Occurrences(i, Tail(s))
<1> DEFINE L == Len(s)
           tl == Tail(s)
<1>1. /\ L \in Nat /\ 1 <= L
      /\ Len(tl) = L - 1
      /\ \A j \in 1..L - 1 : tl[j] = s[j + (2 - 1)]
      /\ Head(s) = s[1]
  BY LenProperties, EmptySeq, HeadTailProperties
<1> HIDE DEF L, tl
<1>2. /\ 1 \in Int /\ 2 \in Int /\ L - 1 \in Int /\ L \in Int
      /\ L - 2 = (L - 1) - 1 /\ 1 - 1 <= 1 /\ 1 <= L
  BY <1>1
<1>3. Cnt(i, s, 1, L) = Cnt(i, s, 1, 1) + Cnt(i, s, 1 + 1, L)
  BY <1>2, CntSplit
<1>4. Cnt(i, tl, 1, L - 1) = Cnt(i, s, 2, L)
  BY <1>1, <1>2, CntShift
<1>5. Cnt(i, s, 1, 1) = IF s[1] = i THEN 1 ELSE 0
  BY <1>2, CntOne
<1>6. /\ Occurrences(i, s) = Cnt(i, s, 1, L)
      /\ Occurrences(i, tl) = Cnt(i, tl, 1, L - 1)
  BY <1>1, OccIsCnt DEF L
<1>. QED  BY <1>1, <1>3, <1>4, <1>5, <1>6 DEF tl

\* the empty sequence holds no id
LEMMA OccEmpty ==
    ASSUME NEW i
    PROVE  Occurrences(i, << >>) = 0
<1>1. Len(<< >>) = 0 /\ 1 \in Int /\ 0 \in Int /\ 0 < 1
  OBVIOUS
<1>2. Cnt(i, << >>, 1, 0) = 0
  BY <1>1, CntEmpty
<1>. QED  BY <1>1, <1>2, OccIsCnt

\* the drain of a cleared completed_items_ has nothing left to send
LEMMA OccDrained ==
    ASSUME NEW i
    PROVE  Occurrences(i, SubSeq(<< >>, 1, Len(<< >>))) = 0
<1>1. << >> \in Seq(Ids) /\ 1 \in 1..Len(<< >>) + 1
  BY EmptySeq
<1>2. Occurrences(i, SubSeq(<< >>, 1, Len(<< >>))) = Cnt(i, << >>, 1, Len(<< >>))
  BY <1>1, OccSuffix
<1>3. Cnt(i, << >>, 1, 0) = 0
  BY CntEmpty
<1>. QED  BY <1>2, <1>3

-----------------------------------------------------------------------------
(* The inductive invariant, one action at a time.                          *)

\* where id i is now: not yet sent, in the pipe, or read by the producer
Load(i) == Occurrences(i, Unsent) + Occurrences(i, pipe) + received[i]

\* how many places id i may be in
Bound(i) == IF i \in released THEN 1 ELSE 0

LEMMA NoDupIsLoad ==
    NoDuplicateCompletion <=> \A i \in Ids : Load(i) <= Bound(i)
BY DEF NoDuplicateCompletion, Load, Bound

\* every term of Load is a number
LEMMA LoadNumbers ==
    ASSUME DrainTypeOK, NEW i \in Ids
    PROVE  /\ Occurrences(i, Unsent) = Cnt(i, completed, pos, Len(completed))
           /\ Occurrences(i, Unsent) \in Nat
           /\ Occurrences(i, pipe) \in Nat
           /\ received[i] \in Nat
<1>1. completed \in Seq(Ids) /\ pos \in 1..Len(completed) + 1
  BY DEF DrainTypeOK
<1>2. Occurrences(i, Unsent) = Cnt(i, completed, pos, Len(completed))
  BY <1>1, OccSuffix DEF Unsent
<1>3. pos \in Int /\ Len(completed) \in Int
  BY <1>1, LenProperties
<1>4. Cnt(i, completed, pos, Len(completed)) \in Nat
  BY <1>3, CntFinite
<1>5. Occurrences(i, pipe) \in Nat
  BY OccNat DEF DrainTypeOK
<1>. QED  BY <1>2, <1>4, <1>5 DEF DrainTypeOK

LEMMA InitDInv ==
    Init => DInv
<1> SUFFICES ASSUME Init PROVE DInv
  OBVIOUS
<1>1. DrainTypeOK
  <2>1. << >> \in Seq(Ids) /\ Len(<< >>) = 0
    BY EmptySeq
  <2>2. [i \in Ids |-> 0] \in [Ids -> Nat]
    OBVIOUS
  <2>3. 0 \in 0..MaxInterrupts /\ 0 <= PHWM
    BY DrainAssumption
  <2>4. /\ released \subseteq Ids /\ busy \in BOOLEAN
    BY DEF Init
  <2>6. /\ completed \in Seq(Ids) /\ pos \in 1..Len(completed) + 1
        /\ pipe \in Seq(Ids) /\ Len(pipe) <= PHWM
    BY <2>1, <2>3 DEF Init
  <2>5. received \in [Ids -> Nat] /\ interrupts \in 0..MaxInterrupts
    BY <2>2, <2>3 DEF Init
  <2>. QED  BY <2>4, <2>5, <2>6 DEF DrainTypeOK
<1>2. \A i \in Ids : Load(i) <= Bound(i)
  <2> SUFFICES ASSUME NEW i \in Ids PROVE Load(i) <= Bound(i)
    OBVIOUS
  <2>1. Occurrences(i, Unsent) = 0
    BY OccDrained DEF Init, Unsent
  <2>2. Occurrences(i, pipe) = 0 /\ received[i] = 0
    BY OccEmpty DEF Init
  <2>. QED  BY <2>1, <2>2 DEF Load, Bound
<1>. QED  BY <1>1, <1>2, NoDupIsLoad DEF DInv, Init

LEMMA HandlerDInv ==
    ASSUME DInv, Handler
    PROVE  DInv'
<1>1. PICK S \in SUBSET (Ids \ released) \ {{}} :
          /\ released' = released \cup S
          /\ \E order \in SetToSeqs(S) : completed' = completed \o order
  BY DEF Handler
<1>2. PICK order \in SetToSeqs(S) : completed' = completed \o order
  BY <1>1
<1>3. completed = << >> /\ pos = 1 /\ DrainTypeOK
  BY DEF DInv, Handler, DrainTypeOK
<1>4. Cardinality(S) \in Nat
  BY DrainAssumption, FS_Subset, FS_CardinalityType
<1>5. /\ order \in [1..Cardinality(S) -> S]
      /\ \A j, k \in 1..Cardinality(S) : j # k => order[j] # order[k]
  BY <1>2 DEF SetToSeqs
<1>6. order \in Seq(Ids)
  <2>1. order \in [1..Cardinality(S) -> Ids]
    BY <1>5
  <2>. QED  BY <1>4, <2>1, SeqDef
<1>7. completed' = order
  BY <1>2, <1>3, <1>6, ConcatEmptySeq
<1>8. /\ Len(order) \in Nat
      /\ 1..Len(order) = 1..Cardinality(S)
  BY <1>5, <1>6, LenProperties
<1>9. DrainTypeOK'
  BY <1>1, <1>3, <1>6, <1>7, <1>8 DEF Handler, DrainTypeOK
<1>10. ASSUME NEW i \in Ids PROVE Load(i)' <= Bound(i)'
  <2>1. Occurrences(i, Unsent') = Cnt(i, order, 1, Len(order))
    <3>1. 1 \in 1..Len(order) + 1
      BY <1>8
    <3>2. Occurrences(i, SubSeq(order, 1, Len(order))) = Cnt(i, order, 1, Len(order))
      BY <1>6, <3>1, OccSuffix
    <3>. QED  BY <1>7, <3>2 DEF Handler, Unsent
  <2>2. Occurrences(i, Unsent) = 0
    BY <1>3, OccDrained DEF Unsent
  <2>3. /\ Occurrences(i, pipe) + received[i] <= Bound(i)
        /\ Occurrences(i, pipe) \in Nat /\ received[i] \in Nat
    BY <1>3, <2>2, LoadNumbers, NoDupIsLoad DEF DInv, Load
  <2>4. /\ Occurrences(i, pipe') = Occurrences(i, pipe)
        /\ received'[i] = received[i]
    BY DEF Handler
  <2>5. /\ 1 \in Int /\ Len(order) \in Int
        /\ Cnt(i, order, 1, Len(order)) \in Nat
    <3>1. 1 \in Int /\ Len(order) \in Int
      BY <1>8
    <3>. QED  BY <3>1, CntFinite
  <2>6. CASE i \in S
    <3>1. Bound(i) = 0 /\ Bound(i)' = 1
      BY <1>1, <2>6 DEF Bound
    <3>2. \A j, k \in 1..Len(order) : j # k => order[j] # order[k]
      BY <1>5, <1>8
    <3>3. Cnt(i, order, 1, Len(order)) <= 1
      BY <2>5, <3>2, CntInjective
    <3>. QED  BY <2>1, <2>3, <2>4, <2>5, <3>1, <3>3 DEF Load
  <2>7. CASE i \notin S
    <3>1. Bound(i)' = Bound(i)
      BY <1>1, <2>7 DEF Bound
    <3>2. \A j \in 1..Len(order) : order[j] # i
      BY <1>5, <1>8, <2>7
    <3>3. Cnt(i, order, 1, Len(order)) = 0
      BY <2>5, <3>2, CntAbsent
    <3>. QED  BY <2>1, <2>3, <2>4, <2>5, <3>1, <3>3 DEF Load
  <2>. QED  BY <2>6, <2>7
<1>11. NoDuplicateCompletion'
  BY <1>10 DEF NoDuplicateCompletion, Load, Bound
<1>12. busy'
  BY DEF Handler
<1>. QED  BY <1>9, <1>11, <1>12 DEF DInv

LEMMA SendFrameDInv ==
    ASSUME DInv, SendFrame
    PROVE  DInv'
<1>1. /\ DrainTypeOK
      /\ Len(completed) \in Nat /\ pos \in 1..Len(completed)
      /\ completed[pos] \in Ids
  BY LenProperties, ElementOfSeq DEF DInv, SendFrame, DrainTypeOK
<1>2. /\ pipe' \in Seq(Ids) /\ Len(pipe') = Len(pipe) + 1
  BY <1>1, AppendProperties DEF SendFrame, DrainTypeOK
<1>3. DrainTypeOK'
  <2>1. /\ released' \subseteq Ids /\ completed' \in Seq(Ids) /\ busy' \in BOOLEAN
        /\ received' \in [Ids -> Nat] /\ interrupts' \in 0..MaxInterrupts
    BY <1>1 DEF SendFrame, DrainTypeOK
  <2>2. pos' \in 1..Len(completed') + 1
    BY <1>1 DEF SendFrame
  <2>3. pipe' \in Seq(Ids) /\ Len(pipe') <= PHWM
    BY <1>2, DrainAssumption DEF SendFrame
  <2>. QED  BY <2>1, <2>2, <2>3 DEF DrainTypeOK
<1>4. ASSUME NEW i \in Ids PROVE Load(i)' <= Bound(i)'
  <2> DEFINE c == completed
             L == Len(completed)
             x == completed[pos]
  <2>1. /\ Occurrences(i, Unsent) = Cnt(i, c, pos, L)
        /\ Occurrences(i, pipe) \in Nat /\ received[i] \in Nat
    BY <1>1, LoadNumbers
  <2>2. Load(i) <= Bound(i)
    BY NoDupIsLoad DEF DInv
  <2> HIDE DEF c, L, x
  <2>3. /\ pos \in Int /\ pos + 1 \in Int /\ L \in Int
        /\ pos - 1 <= pos /\ pos <= L /\ pos + 1 \in 1..L + 1
    BY <1>1 DEF L
  <2>4. Occurrences(i, SubSeq(c, pos + 1, L)) = Cnt(i, c, pos + 1, L)
    <3> DEFINE q == pos + 1
    <3>1. c \in Seq(Ids) /\ q \in 1..Len(c) + 1
      BY <1>1, <2>3 DEF c, L, DrainTypeOK
    <3> HIDE DEF q
    <3>2. Occurrences(i, SubSeq(c, q, Len(c))) = Cnt(i, c, q, Len(c))
      BY <3>1, OccSuffix
    <3>. QED  BY <3>2 DEF q, L, c
  <2>5. Cnt(i, c, pos, L) = Cnt(i, c, pos, pos) + Cnt(i, c, pos + 1, L)
    BY <2>3, CntSplit
  <2>6. Cnt(i, c, pos, pos) = IF c[pos] = i THEN 1 ELSE 0
    BY <2>3, CntOne
  <2>7. Cnt(i, c, pos + 1, L) \in Nat
    BY <2>3, CntFinite
  <2>8. Occurrences(i, Append(pipe, x)) = Occurrences(i, pipe) + (IF x = i THEN 1 ELSE 0)
    BY <1>1, OccAppend DEF DrainTypeOK, x
  <2>9. /\ Occurrences(i, Unsent') = Cnt(i, c, pos + 1, L)
        /\ Occurrences(i, pipe') = Occurrences(i, pipe) + (IF c[pos] = i THEN 1 ELSE 0)
        /\ received'[i] = received[i]
        /\ Bound(i)' = Bound(i)
    BY <2>4, <2>8 DEF SendFrame, Unsent, Bound, c, L, x
  <2>. QED  BY <2>1, <2>2, <2>5, <2>6, <2>7, <2>9 DEF Load
<1>5. NoDuplicateCompletion'
  BY <1>4 DEF NoDuplicateCompletion, Load, Bound
<1>6. busy'
  BY DEF SendFrame
<1>. QED  BY <1>3, <1>5, <1>6 DEF DInv

\* a step that clears completed_items_ and leaves the loop (the catch of an
\* interrupted send, or the end of the loop)
LEMMA ClearDInv ==
    ASSUME DInv,
           completed' = << >>, pos' = 1, busy' = FALSE,
           released' = released, pipe' = pipe, received' = received,
           interrupts' \in 0..MaxInterrupts
    PROVE  DInv'
<1>1. DrainTypeOK'
  <2>1. << >> \in Seq(Ids) /\ Len(<< >>) = 0
    BY EmptySeq
  <2>2. /\ released' \subseteq Ids /\ busy' \in BOOLEAN
        /\ received' \in [Ids -> Nat] /\ interrupts' \in 0..MaxInterrupts
        /\ pipe' \in Seq(Ids) /\ Len(pipe') <= PHWM
    BY DEF DInv, DrainTypeOK
  <2>3. completed' \in Seq(Ids) /\ pos' \in 1..Len(completed') + 1
    BY <2>1
  <2>. QED  BY <2>2, <2>3 DEF DrainTypeOK
<1>2. ASSUME NEW i \in Ids PROVE Load(i)' <= Bound(i)'
  <2>1. /\ Occurrences(i, Unsent) \in Nat
        /\ Occurrences(i, pipe) \in Nat /\ received[i] \in Nat
    BY LoadNumbers DEF DInv
  <2>2. Load(i) <= Bound(i)
    BY NoDupIsLoad DEF DInv
  <2>3. Occurrences(i, Unsent') = 0
    BY OccDrained DEF Unsent
  <2>4. Bound(i)' = Bound(i) /\ Bound(i) \in Nat
    BY DEF Bound
  <2>5. Load(i)' = Occurrences(i, Unsent') + Occurrences(i, pipe) + received[i]
    BY DEF Load
  <2>6. Load(i) = Occurrences(i, Unsent) + Occurrences(i, pipe) + received[i]
    BY DEF Load
  <2> HIDE DEF Load
  <2>. QED  BY <2>1, <2>2, <2>3, <2>4, <2>5, <2>6
<1>3. NoDuplicateCompletion'
  BY <1>2 DEF NoDuplicateCompletion, Load, Bound
<1>. QED  BY <1>1, <1>3 DEF DInv

LEMMA SendInterruptedDInv ==
    ASSUME DInv, SendInterrupted
    PROVE  DInv'
<1>0. /\ interrupts \in 0..MaxInterrupts /\ interrupts < MaxInterrupts
      /\ interrupts' = interrupts + 1
  BY DEF DInv, DrainTypeOK, SendInterrupted
<1>1. interrupts' \in 0..MaxInterrupts
  BY <1>0, DrainAssumption
<1>. QED  BY <1>1, ClearDInv DEF SendInterrupted

LEMMA DrainDoneDInv ==
    ASSUME DInv, DrainDone
    PROVE  DInv'
<1>1. interrupts' \in 0..MaxInterrupts
  BY DEF DInv, DrainTypeOK, DrainDone
<1>. QED  BY <1>1, ClearDInv DEF DrainDone

LEMMA ProducerReadDInv ==
    ASSUME DInv, ProducerRead
    PROVE  DInv'
<1> DEFINE h == Head(pipe)
           tl == Tail(pipe)
<1>1. /\ DrainTypeOK
      /\ pipe \in Seq(Ids) /\ pipe # << >>
      /\ h \in Ids /\ tl \in Seq(Ids) /\ Len(tl) = Len(pipe) - 1
  BY HeadTailProperties DEF DInv, ProducerRead, DrainTypeOK
<1>2. DrainTypeOK'
  <2>1. /\ released' \subseteq Ids /\ completed' \in Seq(Ids) /\ busy' \in BOOLEAN
        /\ pos' \in 1..Len(completed') + 1 /\ interrupts' \in 0..MaxInterrupts
    BY <1>1 DEF ProducerRead, DrainTypeOK
  <2>2. received' \in [Ids -> Nat]
    BY <1>1 DEF ProducerRead, DrainTypeOK
  <2>3. pipe' \in Seq(Ids) /\ Len(pipe') <= PHWM
    BY <1>1, DrainAssumption DEF ProducerRead, DrainTypeOK
  <2>. QED  BY <2>1, <2>2, <2>3 DEF DrainTypeOK
<1>3. ASSUME NEW i \in Ids PROVE Load(i)' <= Bound(i)'
  <2>1. /\ Occurrences(i, Unsent) \in Nat
        /\ Occurrences(i, tl) \in Nat /\ received[i] \in Nat
    BY <1>1, LoadNumbers, OccNat
  <2>2. Load(i) <= Bound(i)
    BY NoDupIsLoad DEF DInv
  <2>3. Occurrences(i, pipe) = (IF h = i THEN 1 ELSE 0) + Occurrences(i, tl)
    BY <1>1, OccTail
  <2> HIDE DEF h, tl
  <2>4. /\ received'[i] = received[i] + (IF h = i THEN 1 ELSE 0)
        /\ Occurrences(i, pipe') = Occurrences(i, tl)
        /\ Occurrences(i, Unsent') = Occurrences(i, Unsent)
        /\ Bound(i)' = Bound(i)
    BY <1>1 DEF ProducerRead, Unsent, Bound, DrainTypeOK, h, tl
  <2>. QED  BY <2>1, <2>2, <2>3, <2>4 DEF Load
<1>4. NoDuplicateCompletion'
  BY <1>3 DEF NoDuplicateCompletion, Load, Bound
<1>5. ~busy' => completed' = << >>
  BY DEF DInv, ProducerRead
<1>. QED  BY <1>2, <1>4, <1>5 DEF DInv

LEMMA StutterDInv ==
    ASSUME DInv, UNCHANGED vars
    PROVE  DInv'
BY DEF DInv, DrainTypeOK, NoDuplicateCompletion, Unsent, vars

LEMMA NextDInv ==
    DInv /\ [Next]_vars => DInv'
<1> SUFFICES ASSUME DInv, [Next]_vars PROVE DInv'
  OBVIOUS
<1>. QED  BY HandlerDInv, SendFrameDInv, SendInterruptedDInv,
             DrainDoneDInv, ProducerReadDInv, StutterDInv DEF Next

-----------------------------------------------------------------------------
(* The theorems.                                                           *)

\* DInv holds in every state of every behaviour of the drain, for every
\* finite set of ids, high-water mark and number of interrupted sends.
THEOREM DrainInductive ==
    Spec => []DInv
BY InitDInv, NextDInv, PTL DEF Spec

\* The drain keeps its state well formed: the pipe to the producer never
\* holds more frames than the high-water mark lets generator_socket_.send()
\* queue, and pos never runs past the end of completed_items_.
THEOREM DrainTypeCorrect ==
    Spec => []DrainTypeOK
BY DrainInductive, PTL DEF DInv

\* No completion is ever duplicated by send_pending_completions(), even when
\* a signal interrupts a blocked send and completed_items_.clear() drops the
\* ids not sent yet: every id is, once at most, either still to be sent, in
\* the pipe or read by the producer, and only if ~Item() released it.
THEOREM NoDuplicateCompletions ==
    Spec => []NoDuplicateCompletion
BY DrainInductive, PTL DEF DInv

=============================================================================
