--------------------------- MODULE VBusParserProofs ---------------------------
(***************************************************************************)
(* Proofs about VBusParser, for any byte streams and reads of any size.    *)
(***************************************************************************)
EXTENDS VBusParser, WellFoundedInduction, SequenceTheorems, FiniteSetTheorems, TLAPS

-------------------------------------------------------------------------------
(***************************************************************************)
(* Induction and recursion.  The theorems of the library take operators;   *)
(* these take sets and functions, and follow from the least element of a   *)
(* set of natural numbers.                                                 *)
(***************************************************************************)

LEMMA Induction ==
  ASSUME NEW S, 0 \in S, \A n \in Nat : n \in S => n + 1 \in S
  PROVE  Nat \subseteq S
<1> SUFFICES ASSUME Nat \ S # {} PROVE FALSE
  OBVIOUS
<1>1. PICK n \in Nat \ S : \A y \in Nat \ S : ~(<<y, n>> \in OpToRel(<, Nat))
  <2> DEFINE T == Nat \ S
  <2>1. T \subseteq Nat /\ T # {}
    OBVIOUS
  <2> HIDE DEF T
  <2>2. \E n \in T : \A y \in T : ~(<<y, n>> \in OpToRel(<, Nat))
    BY <2>1, NatLessThanWellFounded, WFMin
  <2> QED
    BY <2>2 DEF T
<1>2. n # 0 /\ n - 1 \in Nat /\ n - 1 \notin S
  OBVIOUS
<1>3. <<n - 1, n>> \in OpToRel(<, Nat)
  BY <1>2 DEF OpToRel
<1> QED
  BY <1>1, <1>2, <1>3

\* H computes a value at k from the values where the measure m, below N, is smaller.
Descends(D, V, m, N, H) ==
  /\ V # {}
  /\ m \in [D -> Nat]
  /\ N \in Nat /\ \A k \in D : m[k] < N
  /\ H \in [[D -> V] \X D -> V]
  /\ \A g, h \in [D -> V], k \in D :
       (\A j \in D : m[j] < m[k] => g[j] = h[j]) => H[<<g, k>>] = H[<<h, k>>]

\* A recursion that descends defines a function.
LEMMA Recursion ==
  ASSUME NEW D, NEW V, NEW m, NEW N, NEW H, Descends(D, V, m, N, H)
  PROVE  \E f \in [D -> V] : \A k \in D : f[k] = H[<<f, k>>]
<1> USE DEF Descends
<1> DEFINE Upto(n, f) == f \in [D -> V] /\ \A k \in D : m[k] < n => f[k] = H[<<f, k>>]
           S == {n \in Nat : \E f : Upto(n, f)}
<1>1. 0 \in S
  <2> PICK v \in V : TRUE
    OBVIOUS
  <2> Upto(0, [k \in D |-> v])
    OBVIOUS
  <2> QED
    OBVIOUS
<1>2. ASSUME NEW n \in Nat, n \in S PROVE n + 1 \in S
  <2> PICK f : Upto(n, f)
    BY <1>2
  <2> DEFINE g == [k \in D |-> IF m[k] = n THEN H[<<f, k>>] ELSE f[k]]
  <2>1. g \in [D -> V]
    OBVIOUS
  <2>2. ASSUME NEW k \in D, m[k] < n + 1 PROVE g[k] = H[<<g, k>>]
    <3>1. \A j \in D : m[j] < m[k] => g[j] = f[j]
      BY <2>2
    <3>2. H[<<g, k>>] = H[<<f, k>>]
      <4> HIDE DEF g
      <4> QED
        BY <2>1, <3>1
    <3> QED
      BY <2>2, <3>2
  <2>3. Upto(n + 1, g)
    <3> HIDE DEF g
    <3> QED
      BY <2>1, <2>2
  <2>4. \E f1 : Upto(n + 1, f1)
    <3> HIDE DEF Upto, g
    <3> QED
      BY <2>3
  <2> QED
    BY <2>4
<1>3. N \in S
  <2> HIDE DEF S
  <2> QED
    BY <1>1, <1>2, Induction
<1> QED
  BY <1>3

-------------------------------------------------------------------------------
(***************************************************************************)
(* What the scan finds at one position.                                    *)
(***************************************************************************)

\* No telegram starts at k, whatever follows: drain goes on at k + 1.
Dead(s, k) ==
  \/ s[k] # Sync
  \/ HeaderComplete(s, k) /\ (~HeaderOK(s, k) \/ (FrameComplete(s, k) /\ ~BodyOK(s, k)))

\* The scan stops at k.
StopsAt(s, k) == k = Len(s) + 1 \/ IncompleteAt(s, k)

\* A byte is a number of eight bits.
LEMMA ByteType == \A b \in Byte : b \in Nat /\ b <= 255
BY DEF Byte

\* A complete header says how long its telegram is.
LEMMA FrameLenType ==
  ASSUME NEW s \in Seq(Byte), NEW k \in 1..Len(s), HeaderComplete(s, k)
  PROVE  FrameLen(s, k) \in Nat /\ 10 <= FrameLen(s, k) /\ FrameLen(s, k) <= 1540
<1>1. k + 8 \in 1..Len(s)
  BY DEF HeaderComplete, HeaderLen
<1>2. s[k + 8] \in Byte
  BY <1>1
<1>3. s[k + 8] \in Nat /\ s[k + 8] <= 255
  BY <1>2, ByteType
<1> QED
  BY <1>3 DEF FrameLen, HeaderLen, SubFrameLen

\* A position is dead, waits for more bytes or holds a valid telegram.
LEMMA ThreeCases ==
  ASSUME NEW s, NEW k
  PROVE  /\ Dead(s, k) \/ IncompleteAt(s, k) \/ ValidAt(s, k)
         /\ ~(Dead(s, k) /\ IncompleteAt(s, k))
         /\ ~(Dead(s, k) /\ ValidAt(s, k))
         /\ ~(IncompleteAt(s, k) /\ ValidAt(s, k))
BY DEF Dead, IncompleteAt, ValidAt

\* A valid telegram ends within the bytes.
LEMMA ValidEnds ==
  ASSUME NEW s \in Seq(Byte), NEW k \in 1..Len(s), ValidAt(s, k)
  PROVE  /\ FrameLen(s, k) \in Nat /\ 10 <= FrameLen(s, k) /\ FrameLen(s, k) <= 1540
         /\ k + FrameLen(s, k) <= Len(s) + 1
<1>1. HeaderComplete(s, k) /\ FrameComplete(s, k)
  BY DEF ValidAt
<1>2. FrameLen(s, k) \in Nat /\ 10 <= FrameLen(s, k) /\ FrameLen(s, k) <= 1540
  BY <1>1, FrameLenType
<1> QED
  BY <1>1, <1>2 DEF FrameComplete

-------------------------------------------------------------------------------
(***************************************************************************)
(* The scan of drain, unfolded.                                            *)
(***************************************************************************)

\* What a scan of s can return.
Results(s) == [frames : Seq({FrameAt(s, k) : k \in 1..Len(s)}),
               rest   : {Rest(s, k) : k \in 1..(Len(s) + 1)}]

\* One step of the scan at k, when g is what the scan returns further on.
ScanStep(s, g, k) ==
  IF StopsAt(s, k) THEN [frames |-> <<>>, rest |-> Rest(s, k)]
  ELSE IF Dead(s, k) THEN g[k + 1]
  ELSE [frames |-> <<FrameAt(s, k)>> \o g[k + FrameLen(s, k)].frames,
        rest   |-> g[k + FrameLen(s, k)].rest]

\* A step of the scan returns a result.
LEMMA ScanStepType ==
  ASSUME NEW s \in Seq(Byte), NEW g, NEW k \in 1..(Len(s) + 1),
         \A j \in 1..(Len(s) + 1) : j > k => g[j] \in Results(s)
  PROVE  ScanStep(s, g, k) \in Results(s)
<1> DEFINE F == {FrameAt(s, j) : j \in 1..Len(s)}
<1>1. CASE StopsAt(s, k)
  BY <1>1 DEF ScanStep, Results
<1>2. CASE ~StopsAt(s, k) /\ Dead(s, k)
  <2>1. k + 1 \in 1..(Len(s) + 1)
    BY <1>2 DEF StopsAt
  <2> QED
    BY <1>2, <2>1 DEF ScanStep
<1>3. CASE ~StopsAt(s, k) /\ ~Dead(s, k)
  <2>1. k \in 1..Len(s) /\ ValidAt(s, k)
    BY <1>3, ThreeCases DEF StopsAt
  <2>2. k + FrameLen(s, k) \in 1..(Len(s) + 1) /\ k + FrameLen(s, k) > k
    BY <2>1, ValidEnds
  <2>3. g[k + FrameLen(s, k)] \in Results(s)
    BY <2>2
  <2>4. <<FrameAt(s, k)>> \in Seq(F)
    BY <2>1
  <2>5. <<FrameAt(s, k)>> \o g[k + FrameLen(s, k)].frames \in Seq(F)
    <3>1. g[k + FrameLen(s, k)].frames \in Seq(F)
      BY <2>3 DEF Results
    <3> HIDE DEF F
    <3> QED
      BY <3>1, <2>4, ConcatProperties
  <2> QED
    BY <1>3, <2>3, <2>5 DEF ScanStep, Results
<1> QED
  BY <1>1, <1>2, <1>3

\* The scan is what its steps say: the recursion ends, since it only looks further on.
LEMMA ScanUnfolds ==
  ASSUME NEW s \in Seq(Byte)
  PROVE  /\ Scan(s) \in [1..(Len(s) + 1) -> Results(s)]
         /\ \A k \in 1..(Len(s) + 1) : Scan(s)[k] = ScanStep(s, Scan(s), k)
<1> DEFINE D == 1..(Len(s) + 1)
           V == Results(s)
           m == [k \in D |-> Len(s) + 1 - k]
           H == [gk \in [D -> V] \X D |-> ScanStep(s, gk[1], gk[2])]
           Body1(f, k) == 
             LET stop == [frames |-> <<>>, rest |-> Rest(s, k)]
             IN  IF k > Len(s) THEN stop
                 ELSE IF s[k] # Sync THEN f[k + 1]
                 ELSE IF ~HeaderComplete(s, k) THEN stop
                 ELSE IF ~HeaderOK(s, k) THEN f[AfterMismatch(s, k)]
                 ELSE IF ~FrameComplete(s, k) THEN stop
                 ELSE IF ~BodyOK(s, k) THEN f[AfterMismatch(s, k)]
                 ELSE LET later == f[k + FrameLen(s, k)]
                      IN  [frames |-> <<FrameAt(s, k)>> \o later.frames, rest |-> later.rest]
<1>1. \E f \in [D -> V] : \A k \in D : f[k] = H[<<f, k>>]
  <2>1. V # {}
    <3>1. [frames |-> <<>>, rest |-> Rest(s, 1)] \in V
      BY DEF Results
    <3> QED
      BY <3>1
  <2>2. m \in [D -> Nat] /\ Len(s) + 1 \in Nat /\ \A k \in D : m[k] < Len(s) + 1
    OBVIOUS
  <2>3. H \in [[D -> V] \X D -> V]
    BY ScanStepType
  <2>4. ASSUME NEW g \in [D -> V], NEW h \in [D -> V], NEW k \in D,
               \A j \in D : m[j] < m[k] => g[j] = h[j]
        PROVE  H[<<g, k>>] = H[<<h, k>>]
    <3>1. H[<<g, k>>] = ScanStep(s, g, k) /\ H[<<h, k>>] = ScanStep(s, h, k)
      OBVIOUS
    <3>2. CASE StopsAt(s, k)
      BY <3>1, <3>2 DEF ScanStep
    <3>3. CASE ~StopsAt(s, k) /\ Dead(s, k)
      <4>1. k + 1 \in D /\ m[k + 1] < m[k]
        BY <3>3 DEF StopsAt
      <4> QED
        BY <3>1, <3>3, <4>1, <2>4 DEF ScanStep
    <3>4. CASE ~StopsAt(s, k) /\ ~Dead(s, k)
      <4>1. k \in 1..Len(s) /\ ValidAt(s, k)
        BY <3>4, ThreeCases DEF StopsAt
      <4>2. FrameLen(s, k) \in Nat /\ 10 <= FrameLen(s, k) /\ FrameLen(s, k) <= 1540 /\ k + FrameLen(s, k) <= Len(s) + 1
        BY <4>1, ValidEnds
      <4>3. k + FrameLen(s, k) \in D /\ m[k + FrameLen(s, k)] < m[k]
        <5> HIDE DEF V, H
        <5> QED
          BY <4>2
      <4> QED
        BY <3>1, <3>4, <4>3, <2>4 DEF ScanStep
    <3> QED
      BY <3>2, <3>3, <3>4
  <2> HIDE DEF D, V, m, H
  <2>5. Descends(D, V, m, Len(s) + 1, H)
    BY <2>1, <2>2, <2>3, <2>4 DEF Descends
  <2> QED
    BY <2>5, Recursion
<1>2. ASSUME NEW f, NEW k \in D PROVE Body1(f, k) = ScanStep(s, f, k)
  <2>1. k > Len(s) <=> k = Len(s) + 1
    OBVIOUS
  <2> QED
    BY <2>1 DEF ScanStep, StopsAt, Dead, IncompleteAt, AfterMismatch
<1>3. PICK f \in [D -> V] : \A k \in D : f[k] = H[<<f, k>>]
  BY <1>1
<1>4. f = [k \in D |-> Body1(f, k)]
  <2>1. ASSUME NEW k \in D PROVE f[k] = Body1(f, k)
    <3>1. f[k] = ScanStep(s, f, k)
      BY <1>3
    <3> HIDE DEF Body1
    <3> QED
      BY <3>1, <1>2
  <2> HIDE DEF Body1, D, V
  <2> QED
    BY <2>1
<1>5. Scan(s) = [k \in D |-> Body1(Scan(s), k)]
  BY <1>4 DEF Scan
<1>6. \A k \in D : Scan(s)[k] = ScanStep(s, Scan(s), k)
  <2> HIDE DEF Body1, D
  <2> QED
    BY <1>5, <1>2
<1>7. \A k \in D : Scan(s)[k] \in V
  <2> DEFINE S == {n \in Nat : \A k \in D : Len(s) + 1 - k < n => Scan(s)[k] \in V}
  <2>1. 0 \in S
    OBVIOUS
  <2>2. ASSUME NEW n \in Nat, n \in S PROVE n + 1 \in S
    <3>1. ASSUME NEW k \in D, Len(s) + 1 - k < n + 1 PROVE Scan(s)[k] \in V
      <4>1. \A j \in D : j > k => Scan(s)[j] \in V
        BY <2>2, <3>1
      <4>2. ScanStep(s, Scan(s), k) \in V
        BY <4>1, ScanStepType
      <4> QED
        BY <4>2, <1>6
    <3> QED
      BY <3>1
  <2>3. Nat \subseteq S
    <3> HIDE DEF S
    <3> QED
      BY <2>1, <2>2, Induction
  <2>4. Len(s) + 1 \in S
    BY <2>3
  <2> QED
    BY <2>4
<1> QED
  <2> HIDE DEF Body1
  <2>1. Scan(s) \in [D -> V]
    <3> HIDE DEF D, V
    <3> QED
      BY <1>5, <1>7
  <2> QED
    BY <2>1, <1>6

-------------------------------------------------------------------------------
(***************************************************************************)
(* The same bytes at another place: the buffer against the stream it was   *)
(* cut from, and the stream against what it grows into.                    *)
(***************************************************************************)

\* The bytes of s stand in t behind d others.
Aligned(s, t, d) == \A i \in 1..Len(s) : i + d \in 1..Len(t) /\ s[i] = t[i + d]

\* A part of s is the same part of t.
LEMMA SameWindow ==
  ASSUME NEW s \in Seq(Byte), NEW t \in Seq(Byte), NEW d \in Nat, Aligned(s, t, d),
         NEW a \in Nat \ {0}, NEW b \in Int, b <= Len(s)
  PROVE  SubSeq(s, a, b) = SubSeq(t, a + d, b + d)
<1>1. \A i \in a..b : s[i] \in Byte
  OBVIOUS
<1>2. \A i \in (a + d)..(b + d) : t[i] \in Byte /\ t[i] = s[i - d]
  <2> TAKE i \in (a + d)..(b + d)
  <2>1. i - d \in 1..Len(s)
    OBVIOUS
  <2>2. (i - d) + d \in 1..Len(t) /\ s[i - d] = t[(i - d) + d]
    BY <2>1 DEF Aligned
  <2>3. (i - d) + d = i
    OBVIOUS
  <2> QED
    BY <2>1, <2>2, <2>3
<1> DEFINE u == SubSeq(s, a, b)
           v == SubSeq(t, a + d, b + d)
<1>3. /\ u \in Seq(Byte) /\ Len(u) = (IF a <= b THEN b - a + 1 ELSE 0)
      /\ \A i \in 1..(b - a + 1) : u[i] = s[a + i - 1]
  BY <1>1, SubSeqProperties
<1>4. /\ v \in Seq(Byte) /\ Len(v) = (IF a + d <= b + d THEN (b + d) - (a + d) + 1 ELSE 0)
      /\ \A i \in 1..((b + d) - (a + d) + 1) : v[i] = t[(a + d) + i - 1]
  BY <1>2, SubSeqProperties
<1> HIDE DEF u, v
<1>5. Len(u) = Len(v)
  BY <1>3, <1>4
<1>6. \A i \in 1..Len(u) : u[i] = v[i]
  <2> TAKE i \in 1..Len(u)
  <2>1. i \in 1..(b - a + 1) /\ i \in 1..((b + d) - (a + d) + 1)
    BY <1>3
  <2>2. u[i] = s[a + i - 1] /\ v[i] = t[(a + d) + i - 1]
    BY <1>3, <1>4, <2>1
  <2>3. t[(a + d) + i - 1] = s[((a + d) + i - 1) - d]
    <3>1. (a + d) + i - 1 \in (a + d)..(b + d)
      BY <2>1
    <3> QED
      BY <1>2, <3>1
  <2>4. ((a + d) + i - 1) - d = a + i - 1
    OBVIOUS
  <2> QED
    BY <2>2, <2>3, <2>4
<1> QED
  BY <1>3, <1>4, <1>5, <1>6, SeqEqual DEF u, v

\* A telegram with a complete header is the same in both.
LEMMA SameTelegram ==
  ASSUME NEW s \in Seq(Byte), NEW t \in Seq(Byte), NEW d \in Nat, Aligned(s, t, d),
         NEW k \in 1..Len(s), HeaderComplete(s, k)
  PROVE  /\ HeaderComplete(t, k + d)
         /\ HeaderOK(t, k + d) <=> HeaderOK(s, k)
         /\ FrameLen(t, k + d) = FrameLen(s, k)
         /\ FrameComplete(s, k) => /\ FrameComplete(t, k + d)
                                   /\ BodyOK(t, k + d) <=> BodyOK(s, k)
                                   /\ FrameAt(t, k + d) = FrameAt(s, k)
<1>1. k + 9 <= Len(s)
  BY DEF HeaderComplete, HeaderLen
<1>2. /\ s[k + 1] = t[(k + d) + 1] /\ s[k + 2] = t[(k + d) + 2] /\ s[k + 3] = t[(k + d) + 3]
      /\ s[k + 4] = t[(k + d) + 4] /\ s[k + 5] = t[(k + d) + 5] /\ s[k + 6] = t[(k + d) + 6]
      /\ s[k + 7] = t[(k + d) + 7] /\ s[k + 8] = t[(k + d) + 8] /\ s[k + 9] = t[(k + d) + 9]
  <2>1. ASSUME NEW j \in Nat, j <= 9 PROVE s[k + j] = t[(k + d) + j]
    <3>1. k + j \in 1..Len(s)
      BY <1>1, <2>1
    <3>2. s[k + j] = t[(k + j) + d]
      BY <3>1 DEF Aligned
    <3>3. (k + j) + d = (k + d) + j
      OBVIOUS
    <3> QED
      BY <3>2, <3>3
  <2>2. s[k + 1] = t[(k + d) + 1] /\ s[k + 2] = t[(k + d) + 2] /\ s[k + 3] = t[(k + d) + 3]
    BY ONLY <2>1
  <2>3. s[k + 4] = t[(k + d) + 4] /\ s[k + 5] = t[(k + d) + 5] /\ s[k + 6] = t[(k + d) + 6]
    BY ONLY <2>1
  <2>4. s[k + 7] = t[(k + d) + 7] /\ s[k + 8] = t[(k + d) + 8] /\ s[k + 9] = t[(k + d) + 9]
    BY ONLY <2>1
  <2> QED
    BY <2>2, <2>3, <2>4
<1>3. Len(s) + d <= Len(t)
  BY <1>1 DEF Aligned
<1>4. HeaderComplete(t, k + d)
  BY <1>1, <1>3 DEF HeaderComplete, HeaderLen
<1>5. HeaderOK(t, k + d) <=> HeaderOK(s, k)
  <2>1. SubSeq(s, k + 1, k + 8) = SubSeq(t, (k + 1) + d, (k + 8) + d)
    BY <1>1, SameWindow
  <2>2. (k + 1) + d = (k + d) + 1 /\ (k + 8) + d = (k + d) + 8
    OBVIOUS
  <2> QED
    BY <2>1, <2>2, <1>2 DEF HeaderOK
<1>6. FrameLen(t, k + d) = FrameLen(s, k)
  BY <1>2 DEF FrameLen
<1>7. ASSUME FrameComplete(s, k)
      PROVE  /\ FrameComplete(t, k + d)
             /\ BodyOK(t, k + d) <=> BodyOK(s, k)
             /\ FrameAt(t, k + d) = FrameAt(s, k)
  <2> DEFINE n == FrameLen(s, k)
  <2>1. n \in Nat /\ 10 <= n
    BY FrameLenType
  <2>2. k + n - 1 <= Len(s)
    BY <1>7, <2>1 DEF FrameComplete
  <2>3. FrameComplete(t, k + d)
    BY <1>3, <1>6, <2>1, <2>2 DEF FrameComplete
  <2>4. Body(t, k + d) = Body(s, k)
    <3>1. SubSeq(s, k + HeaderLen, k + n - 1) = SubSeq(t, (k + HeaderLen) + d, (k + n - 1) + d)
      <4>1. k + HeaderLen \in Nat \ {0} /\ k + n - 1 \in Int
        BY <2>1 DEF HeaderLen
      <4> HIDE DEF n
      <4> QED
        BY <4>1, <2>2, SameWindow
    <3>2. (k + HeaderLen) + d = (k + d) + HeaderLen /\ (k + n - 1) + d = (k + d) + n - 1
      BY <2>1 DEF HeaderLen
    <3> QED
      BY <3>1, <3>2, <1>6 DEF Body
  <2> QED
    BY <2>3, <2>4, <1>2 DEF BodyOK, FrameAt
<1> QED
  BY <1>4, <1>5, <1>6, <1>7

\* What a position holds for good stays there when bytes are put around it.
LEMMA Stable ==
  ASSUME NEW s \in Seq(Byte), NEW t \in Seq(Byte), NEW d \in Nat, Aligned(s, t, d),
         NEW k \in 1..Len(s)
  PROVE  /\ k + d \in 1..Len(t)
         /\ Dead(s, k) => Dead(t, k + d)
         /\ ValidAt(s, k) => /\ ValidAt(t, k + d)
                             /\ FrameLen(t, k + d) = FrameLen(s, k)
                             /\ FrameAt(t, k + d) = FrameAt(s, k)
<1>1. k + d \in 1..Len(t) /\ s[k] = t[k + d]
  BY DEF Aligned
<1> QED
  BY <1>1, SameTelegram DEF Dead, ValidAt

\* When both end with the same byte, they wait for more bytes at the same places.
LEMMA SameEnd ==
  ASSUME NEW s \in Seq(Byte), NEW t \in Seq(Byte), NEW d \in Nat, Aligned(s, t, d),
         Len(t) = Len(s) + d, NEW k \in 1..(Len(s) + 1)
  PROVE  StopsAt(t, k + d) <=> StopsAt(s, k)
<1>1. k = Len(s) + 1 <=> k + d = Len(t) + 1
  OBVIOUS
<1>2. ASSUME k \in 1..Len(s)
      PROVE  IncompleteAt(t, k + d) <=> IncompleteAt(s, k)
  <2>1. s[k] = t[k + d]
    BY <1>2 DEF Aligned
  <2>2. HeaderComplete(t, k + d) <=> HeaderComplete(s, k)
    BY DEF HeaderComplete, HeaderLen
  <2>3. ASSUME HeaderComplete(s, k)
        PROVE  /\ HeaderOK(t, k + d) <=> HeaderOK(s, k)
               /\ FrameComplete(t, k + d) <=> FrameComplete(s, k)
    <3>1. FrameLen(t, k + d) = FrameLen(s, k) /\ FrameLen(s, k) \in Nat
      BY <1>2, <2>3, SameTelegram, FrameLenType
    <3>2. FrameComplete(t, k + d) <=> FrameComplete(s, k)
      BY <3>1 DEF FrameComplete
    <3> QED
      BY <1>2, <2>3, <3>2, SameTelegram
  <2> QED
    BY <2>1, <2>2, <2>3 DEF IncompleteAt
<1> QED
  BY <1>1, <1>2 DEF StopsAt

-------------------------------------------------------------------------------
(***************************************************************************)
(* A parse of t from a to c: which positions hold its frames.              *)
(***************************************************************************)

\* e lists the starts of the frames between a and c; every other byte is dead.
Parse(t, a, c, e) ==
  /\ e \in Seq(Nat) /\ a <= c /\ c <= Len(t) + 1
  /\ \A i \in 1..Len(e) : a <= e[i] /\ e[i] <= Len(t)
                          /\ ValidAt(t, e[i]) /\ e[i] + FrameLen(t, e[i]) <= c
  /\ \A i, j \in 1..Len(e) : i < j => e[i] + FrameLen(t, e[i]) <= e[j]
  /\ \A p \in a..(c - 1) : Dead(t, p) \/ \E i \in 1..Len(e) : Within(t, e[i], p)

FramesOf(t, e) == [i \in 1..Len(e) |-> FrameAt(t, e[i])]

\* Two parses, one behind the other, are a parse.
LEMMA ParseJoins ==
  ASSUME NEW t \in Seq(Byte), NEW a \in Nat \ {0}, NEW b \in Nat, NEW c \in Nat,
         NEW e, NEW f, Parse(t, a, b, e), Parse(t, b, c, f)
  PROVE  Parse(t, a, c, e \o f)
<1> DEFINE g == e \o f
<1>1. e \in Seq(Nat) /\ f \in Seq(Nat) /\ a <= b /\ b <= c /\ c <= Len(t) + 1
  BY DEF Parse
<1>2. /\ g \in Seq(Nat) /\ Len(g) = Len(e) + Len(f)
      /\ \A i \in 1..(Len(e) + Len(f)) : g[i] = IF i <= Len(e) THEN e[i] ELSE f[i - Len(e)]
  BY <1>1, ConcatProperties
<1>3. Len(e) \in Nat /\ Len(f) \in Nat
  BY <1>1
<1>4. \A i \in 1..Len(e) : /\ a <= e[i] /\ e[i] <= Len(t) /\ e[i] \in Nat
                           /\ ValidAt(t, e[i]) /\ e[i] + FrameLen(t, e[i]) <= b
                           /\ FrameLen(t, e[i]) \in Nat
  BY <1>1, ValidEnds DEF Parse
<1>5. \A i \in 1..Len(f) : /\ b <= f[i] /\ f[i] <= Len(t) /\ f[i] \in Nat
                           /\ ValidAt(t, f[i]) /\ f[i] + FrameLen(t, f[i]) <= c
                           /\ FrameLen(t, f[i]) \in Nat
  BY <1>1, ValidEnds DEF Parse
<1> HIDE DEF g
<1>6. ASSUME NEW i \in 1..Len(g)
      PROVE  \/ i \in 1..Len(e) /\ g[i] = e[i]
             \/ i - Len(e) \in 1..Len(f) /\ g[i] = f[i - Len(e)]
  BY <1>2, <1>3
<1>7. \A i \in 1..Len(g) : /\ a <= g[i] /\ g[i] <= Len(t)
                           /\ ValidAt(t, g[i]) /\ g[i] + FrameLen(t, g[i]) <= c
  <2> TAKE i \in 1..Len(g)
  <2>1. CASE i \in 1..Len(e) /\ g[i] = e[i]
    <3>1. /\ a <= e[i] /\ e[i] <= Len(t) /\ e[i] \in Nat /\ FrameLen(t, e[i]) \in Nat
          /\ ValidAt(t, e[i]) /\ e[i] + FrameLen(t, e[i]) <= b
      BY <2>1, <1>4
    <3> QED
      BY <3>1, <2>1, <1>1
  <2>2. CASE i - Len(e) \in 1..Len(f) /\ g[i] = f[i - Len(e)]
    <3>1. /\ b <= f[i - Len(e)] /\ f[i - Len(e)] <= Len(t) /\ f[i - Len(e)] \in Nat
          /\ ValidAt(t, f[i - Len(e)]) /\ f[i - Len(e)] + FrameLen(t, f[i - Len(e)]) <= c
      BY <2>2, <1>5
    <3> QED
      BY <3>1, <2>2, <1>1
  <2> QED
    BY <2>1, <2>2, <1>6
<1>8. ASSUME NEW i \in 1..Len(g), NEW j \in 1..Len(g), i < j
      PROVE  g[i] + FrameLen(t, g[i]) <= g[j]
  <2>1. CASE i \in 1..Len(e) /\ j \in 1..Len(e)
    <3>1. g[i] = e[i] /\ g[j] = e[j]
      BY <2>1, <1>2, <1>3
    <3> QED
      BY <2>1, <3>1, <1>8, Parse(t, a, b, e) DEF Parse
  <2>2. CASE i \in 1..Len(e) /\ j \notin 1..Len(e)
    <3>1. j - Len(e) \in 1..Len(f) /\ g[j] = f[j - Len(e)]
      BY <2>2, <1>6
    <3>2. g[i] = e[i]
      <4>1. i - Len(e) \notin 1..Len(f)
        BY <2>2
      <4> QED
        BY <4>1, <1>6
    <3>3. e[i] \in Nat /\ FrameLen(t, e[i]) \in Nat /\ e[i] + FrameLen(t, e[i]) <= b
      BY <2>2, <1>4
    <3>4. f[j - Len(e)] \in Nat /\ b <= f[j - Len(e)]
      BY <3>1, <1>5
    <3>5. e[i] + FrameLen(t, e[i]) <= f[j - Len(e)]
      BY <3>3, <3>4
    <3> QED
      BY <3>1, <3>2, <3>5
  <2>3. CASE i \notin 1..Len(e)
    <3>1. i - Len(e) \in 1..Len(f) /\ g[i] = f[i - Len(e)]
      BY <2>3, <1>6
    <3>2. j \notin 1..Len(e) /\ i - Len(e) < j - Len(e)
      BY <2>3, <1>3, <1>8
    <3>3. j - Len(e) \in 1..Len(f) /\ g[j] = f[j - Len(e)]
      BY <3>2, <1>6
    <3> QED
      BY <3>1, <3>2, <3>3, Parse(t, b, c, f) DEF Parse
  <2> QED
    BY <2>1, <2>2, <2>3
<1>9. ASSUME NEW p \in a..(c - 1)
      PROVE  Dead(t, p) \/ \E i \in 1..Len(g) : Within(t, g[i], p)
  <2>1. CASE p < b
    <3>1. Dead(t, p) \/ \E i \in 1..Len(e) : Within(t, e[i], p)
      BY <2>1 DEF Parse
    <3>2. \A i \in 1..Len(e) : i \in 1..Len(g) /\ g[i] = e[i]
      BY <1>2, <1>3
    <3> QED
      BY <3>1, <3>2
  <2>2. CASE b <= p
    <3>1. Dead(t, p) \/ \E i \in 1..Len(f) : Within(t, f[i], p)
      BY <2>2 DEF Parse
    <3>2. ASSUME NEW i \in 1..Len(f) PROVE i + Len(e) \in 1..Len(g) /\ g[i + Len(e)] = f[i]
      <4>1. i + Len(e) \in 1..(Len(e) + Len(f)) /\ ~(i + Len(e) <= Len(e)) /\ (i + Len(e)) - Len(e) = i
        BY <1>3
      <4> QED
        BY <4>1, <1>2
    <3> QED
      BY <3>1, <3>2
  <2> QED
    BY <2>1, <2>2
<1>10. g \in Seq(Nat) /\ a <= c /\ c <= Len(t) + 1
  BY <1>1, <1>2
<1>11. Parse(t, a, c, g)
  BY <1>7, <1>8, <1>9, <1>10 DEF Parse
<1> QED
  BY <1>11 DEF g

\* A function on 1..n is a sequence of that length.
LEMMA FunctionIsSeq ==
  ASSUME NEW V, NEW n \in Nat, NEW q \in [1..n -> V]
  PROVE  q \in Seq(V) /\ Len(q) = n
<1>1. q \in Seq(V)
  BY SeqDef
<1> QED
  BY <1>1, LenProperties

\* The frames of the joined parse.
LEMMA FramesJoin ==
  ASSUME NEW t, NEW e \in Seq(Nat), NEW f \in Seq(Nat)
  PROVE  FramesOf(t, e \o f) = FramesOf(t, e) \o FramesOf(t, f)
<1> DEFINE V == {FrameAt(t, k) : k \in Nat}
           x == FramesOf(t, e \o f)
           y == FramesOf(t, e)
           z == FramesOf(t, f)
<1>1. /\ e \o f \in Seq(Nat) /\ Len(e \o f) = Len(e) + Len(f)
      /\ \A i \in 1..(Len(e) + Len(f)) : (e \o f)[i] = IF i <= Len(e) THEN e[i] ELSE f[i - Len(e)]
  BY ConcatProperties
<1>2. ASSUME NEW h \in Seq(Nat)
      PROVE  /\ FramesOf(t, h) \in Seq(V) /\ Len(FramesOf(t, h)) = Len(h)
             /\ \A i \in 1..Len(h) : FramesOf(t, h)[i] = FrameAt(t, h[i])
  <2>1. Len(h) \in Nat /\ \A i \in 1..Len(h) : h[i] \in Nat
    OBVIOUS
  <2>2. FramesOf(t, h) \in [1..Len(h) -> V]
    BY <2>1 DEF FramesOf
  <2>3. FramesOf(t, h) \in Seq(V) /\ Len(FramesOf(t, h)) = Len(h)
    <3> HIDE DEF V
    <3> QED
      BY <2>1, <2>2, FunctionIsSeq
  <2> QED
    BY <2>3 DEF FramesOf
<1>3. /\ x \in Seq(V) /\ Len(x) = Len(e) + Len(f)
      /\ \A i \in 1..(Len(e) + Len(f)) : x[i] = FrameAt(t, (e \o f)[i])
  <2> HIDE DEF V
  <2> QED
    BY <1>1, <1>2
<1>4. y \in Seq(V) /\ Len(y) = Len(e) /\ \A i \in 1..Len(e) : y[i] = FrameAt(t, e[i])
  BY <1>2
<1>5. z \in Seq(V) /\ Len(z) = Len(f) /\ \A i \in 1..Len(f) : z[i] = FrameAt(t, f[i])
  BY <1>2
<1> HIDE DEF V, x, y, z
<1>6. /\ y \o z \in Seq(V) /\ Len(y \o z) = Len(y) + Len(z)
      /\ \A i \in 1..(Len(y) + Len(z)) : (y \o z)[i] = IF i <= Len(y) THEN y[i] ELSE z[i - Len(y)]
  <2>1. y \in Seq(V) /\ z \in Seq(V)
    BY <1>4, <1>5
  <2> QED
    BY <2>1, ConcatProperties
<1>7. ASSUME NEW i \in 1..Len(x) PROVE x[i] = (y \o z)[i]
  <2>1. CASE i <= Len(e)
    BY <2>1, <1>1, <1>3, <1>4, <1>5, <1>6
  <2>2. CASE ~(i <= Len(e))
    <3>1. i - Len(e) \in 1..Len(f)
      BY <2>2, <1>3
    <3> QED
      BY <2>2, <3>1, <1>1, <1>3, <1>4, <1>5, <1>6
  <2> QED
    BY <2>1, <2>2
<1>8. x = y \o z
  BY <1>3, <1>4, <1>5, <1>6, <1>7, SeqEqual
<1> QED
  BY <1>8 DEF x, y, z

\* A parse of no bytes.
LEMMA ParseNothing ==
  ASSUME NEW t \in Seq(Byte), NEW a \in Nat \ {0}, a <= Len(t) + 1
  PROVE  Parse(t, a, a, <<>>) /\ FramesOf(t, <<>>) = <<>>
BY DEF Parse, FramesOf

\* A parse of one dead byte.
LEMMA ParseDead ==
  ASSUME NEW t \in Seq(Byte), NEW a \in 1..Len(t), Dead(t, a)
  PROVE  Parse(t, a, a + 1, <<>>)
<1>1. \A p \in a..((a + 1) - 1) : p = a
  OBVIOUS
<1> QED
  BY <1>1 DEF Parse

\* A parse of one frame.
LEMMA ParseFrame ==
  ASSUME NEW t \in Seq(Byte), NEW a \in 1..Len(t), ValidAt(t, a)
  PROVE  /\ Parse(t, a, a + FrameLen(t, a), <<a>>)
         /\ FramesOf(t, <<a>>) = <<FrameAt(t, a)>>
<1>1. FrameLen(t, a) \in Nat /\ a + FrameLen(t, a) <= Len(t) + 1
  BY ValidEnds
<1> DEFINE n == FrameLen(t, a)
           e == <<a>>
<1>2. e \in Seq(Nat) /\ Len(e) = 1 /\ e[1] = a
  OBVIOUS
<1>3. \A p \in a..((a + n) - 1) : Within(t, e[1], p)
  BY <1>1, <1>2 DEF Within
<1>4. \A i \in 1..Len(e) : i = 1
  BY <1>2
<1>5. Parse(t, a, a + n, e)
  <2> HIDE DEF e
  <2> QED
    BY <1>1, <1>2, <1>3, <1>4 DEF Parse
<1>6. FramesOf(t, e) = <<FrameAt(t, a)>>
  BY DEF FramesOf
<1> QED
  BY <1>5, <1>6

\* The scan of s returns a parse of the stream t that s is the end of, up to
\* the place where it has to stop.
LEMMA ScanParses ==
  ASSUME NEW s \in Seq(Byte), NEW t \in Seq(Byte), NEW d \in Nat, Aligned(s, t, d),
         Len(t) = Len(s) + d
  PROVE  \A k \in 1..(Len(s) + 1) : \E c \in Nat, e \in Seq(Nat) :
           /\ Parse(t, k + d, c, e) /\ StopsAt(t, c)
           /\ Scan(s)[k] = [frames |-> FramesOf(t, e), rest |-> Rest(t, c)]
<1> DEFINE P(k) == \E c \in Nat, e \in Seq(Nat) :
                     /\ Parse(t, k + d, c, e) /\ StopsAt(t, c)
                     /\ Scan(s)[k] = [frames |-> FramesOf(t, e), rest |-> Rest(t, c)]
           S == {n \in Nat : \A k \in 1..(Len(s) + 1) : Len(s) + 1 - k < n => P(k)}
<1>1. 0 \in S
  OBVIOUS
<1>2. ASSUME NEW n \in Nat, n \in S PROVE n + 1 \in S
  <2> SUFFICES ASSUME NEW k \in 1..(Len(s) + 1), Len(s) + 1 - k < n + 1 PROVE P(k)
    <3> HIDE DEF P
    <3> QED
      OBVIOUS
  <2>1. ASSUME NEW j \in 1..(Len(s) + 1), j > k PROVE P(j)
    <3>1. Len(s) + 1 - j < n
      BY <2>1
    <3> HIDE DEF P
    <3> QED
      BY <1>2, <3>1
  <2>2. Scan(s)[k] = ScanStep(s, Scan(s), k)
    BY ScanUnfolds
  <2>3. k + d \in Nat \ {0} /\ k + d <= Len(t) + 1
    OBVIOUS
  <2>4. CASE StopsAt(s, k)
    <3>1. Parse(t, k + d, k + d, <<>>) /\ FramesOf(t, <<>>) = <<>>
      BY <2>3, ParseNothing
    <3>2. StopsAt(t, k + d)
      BY <2>4, SameEnd
    <3>3. Rest(s, k) = Rest(t, k + d)
      <4>1. k \in Nat \ {0} /\ Len(s) \in Int /\ Len(s) <= Len(s)
        OBVIOUS
      <4>2. SubSeq(s, k, Len(s)) = SubSeq(t, k + d, Len(s) + d)
        BY <4>1, SameWindow
      <4> QED
        BY <4>2 DEF Rest
    <3>4. Scan(s)[k] = [frames |-> <<>>, rest |-> Rest(s, k)]
      BY <2>2, <2>4 DEF ScanStep
    <3>5. <<>> \in Seq(Nat) /\ k + d \in Nat
      BY <2>3
    <3>6. Scan(s)[k] = [frames |-> FramesOf(t, <<>>), rest |-> Rest(t, k + d)]
      BY <3>1, <3>3, <3>4
    <3> QED
      BY <3>1, <3>2, <3>5, <3>6
  <2>5. CASE ~StopsAt(s, k) /\ Dead(s, k)
    <3>1. k \in 1..Len(s) /\ k + 1 \in 1..(Len(s) + 1)
      BY <2>5 DEF StopsAt
    <3>2. Scan(s)[k] = Scan(s)[k + 1]
      BY <2>2, <2>5 DEF ScanStep
    <3>3. PICK c \in Nat, e \in Seq(Nat) :
            /\ Parse(t, (k + 1) + d, c, e) /\ StopsAt(t, c)
            /\ Scan(s)[k + 1] = [frames |-> FramesOf(t, e), rest |-> Rest(t, c)]
      <4>1. P(k + 1)
        <5> HIDE DEF P
        <5> QED
          BY <2>1, <3>1
      <4> QED
        BY <4>1
    <3>4. k + d \in 1..Len(t) /\ Dead(t, k + d)
      BY <2>5, <3>1, Stable
    <3>5. Parse(t, k + d, (k + d) + 1, <<>>)
      BY <3>4, ParseDead
    <3>6. (k + d) + 1 = (k + 1) + d /\ (k + 1) + d \in Nat
      OBVIOUS
    <3>7. Parse(t, k + d, c, <<>> \o e)
      <4>1. Parse(t, k + d, (k + 1) + d, <<>>)
        BY <3>5, <3>6
      <4> QED
        BY <2>3, <3>3, <3>6, <4>1, ParseJoins
    <3>8. <<>> \o e = e
      BY ConcatEmptySeq
    <3> QED
      BY <3>2, <3>3, <3>7, <3>8
  <2>6. CASE ~StopsAt(s, k) /\ ~Dead(s, k)
    <3> DEFINE w == FrameLen(s, k)
    <3>1. k \in 1..Len(s) /\ ValidAt(s, k)
      BY <2>6, ThreeCases DEF StopsAt
    <3>2. w \in Nat /\ k + w \in 1..(Len(s) + 1) /\ k + w > k
      BY <3>1, ValidEnds
    <3>3. Scan(s)[k] = [frames |-> <<FrameAt(s, k)>> \o Scan(s)[k + w].frames,
                        rest   |-> Scan(s)[k + w].rest]
      BY <2>2, <2>6 DEF ScanStep
    <3>4. /\ k + d \in 1..Len(t) /\ ValidAt(t, k + d)
          /\ FrameLen(t, k + d) = w /\ FrameAt(t, k + d) = FrameAt(s, k)
      BY <3>1, Stable
    <3> HIDE DEF w
    <3>5. PICK c \in Nat, e \in Seq(Nat) :
            /\ Parse(t, (k + w) + d, c, e) /\ StopsAt(t, c)
            /\ Scan(s)[k + w] = [frames |-> FramesOf(t, e), rest |-> Rest(t, c)]
      BY <2>1, <3>2
    <3>6. /\ Parse(t, k + d, (k + d) + w, <<k + d>>)
          /\ FramesOf(t, <<k + d>>) = <<FrameAt(s, k)>>
      BY <3>4, ParseFrame
    <3>7. (k + d) + w = (k + w) + d /\ (k + w) + d \in Nat
      BY <3>2
    <3>8. Parse(t, k + d, c, <<k + d>> \o e)
      <4>1. Parse(t, k + d, (k + w) + d, <<k + d>>)
        BY <3>6, <3>7
      <4> QED
        BY <2>3, <3>5, <3>7, <4>1, ParseJoins
    <3>9. <<k + d>> \in Seq(Nat) /\ <<k + d>> \o e \in Seq(Nat)
      OBVIOUS
    <3>10. FramesOf(t, <<k + d>> \o e) = <<FrameAt(s, k)>> \o FramesOf(t, e)
      <4>1. FramesOf(t, <<k + d>> \o e) = FramesOf(t, <<k + d>>) \o FramesOf(t, e)
        BY ONLY <3>9, e \in Seq(Nat), FramesJoin
      <4> QED
        BY <4>1, <3>6
    <3>11. Scan(s)[k] = [frames |-> FramesOf(t, <<k + d>> \o e), rest |-> Rest(t, c)]
      <4>1. Scan(s)[k + w].frames = FramesOf(t, e) /\ Scan(s)[k + w].rest = Rest(t, c)
        BY <3>5
      <4> QED
        BY <3>3, <3>10, <4>1
    <3> QED
      BY <3>5, <3>8, <3>9, <3>11
  <2> QED
    BY <2>4, <2>5, <2>6
<1>3. Nat \subseteq S
  <2> HIDE DEF S
  <2> QED
    BY <1>1, <1>2, Induction
<1>4. Len(s) + 1 \in S
  <2> HIDE DEF S
  <2> QED
    BY <1>3
<1>5. \A k \in 1..(Len(s) + 1) : P(k)
  <2> HIDE DEF P
  <2> QED
    BY <1>4
<1> QED
  BY <1>5

\* A parse stays one when bytes follow.
LEMMA ParseExtends ==
  ASSUME NEW s \in Seq(Byte), NEW t \in Seq(Byte), Aligned(s, t, 0),
         NEW a \in Nat \ {0}, NEW c \in Nat, NEW e \in Seq(Nat), Parse(s, a, c, e)
  PROVE  Parse(t, a, c, e) /\ FramesOf(t, e) = FramesOf(s, e)
<1>1. ASSUME NEW k \in 1..Len(s)
      PROVE  /\ k \in 1..Len(t)
             /\ Dead(s, k) => Dead(t, k)
             /\ ValidAt(s, k) => /\ ValidAt(t, k)
                                 /\ FrameLen(t, k) = FrameLen(s, k)
                                 /\ FrameAt(t, k) = FrameAt(s, k)
  <2>1. k + 0 = k
    OBVIOUS
  <2> QED
    BY <2>1, Stable
<1>2. a <= c /\ c <= Len(s) + 1 /\ Len(s) <= Len(t)
  <2>1. Len(s) \in 1..Len(s) => Len(s) + 0 \in 1..Len(t)
    BY DEF Aligned
  <2> QED
    BY <2>1 DEF Parse
<1>3. \A i \in 1..Len(e) : /\ e[i] \in Nat /\ a <= e[i] /\ e[i] <= Len(s) /\ ValidAt(s, e[i])
                           /\ e[i] + FrameLen(s, e[i]) <= c
  BY DEF Parse
<1>4. \A i \in 1..Len(e) : /\ e[i] <= Len(t) /\ ValidAt(t, e[i])
                           /\ FrameLen(t, e[i]) = FrameLen(s, e[i])
                           /\ FrameAt(t, e[i]) = FrameAt(s, e[i])
  <2> TAKE i \in 1..Len(e)
  <2>1. e[i] \in 1..Len(s) /\ ValidAt(s, e[i])
    BY <1>3
  <2> QED
    BY <1>1, <2>1
<1>5. ASSUME NEW p \in a..(c - 1)
      PROVE  Dead(t, p) \/ \E i \in 1..Len(e) : Within(t, e[i], p)
  <2>1. CASE Dead(s, p)
    <3>1. p \in 1..Len(s)
      BY <1>2
    <3> QED
      BY <1>1, <2>1, <3>1
  <2>2. CASE \E i \in 1..Len(e) : Within(s, e[i], p)
    BY <2>2, <1>4 DEF Within
  <2> QED
    BY <2>1, <2>2 DEF Parse
<1>6. \A i, j \in 1..Len(e) : i < j => e[i] + FrameLen(t, e[i]) <= e[j]
  BY <1>4 DEF Parse
<1>7. Parse(t, a, c, e)
  BY <1>2, <1>3, <1>4, <1>5, <1>6 DEF Parse
<1>8. FramesOf(t, e) = FramesOf(s, e)
  BY <1>4 DEF FramesOf
<1> QED
  BY <1>7, <1>8

-------------------------------------------------------------------------------
(***************************************************************************)
(* The invariant: what was returned and what is kept are a parse of the    *)
(* bytes seen.                                                             *)
(***************************************************************************)

\* The frames returned are those of a parse that reaches the place where the
\* scan must wait, and the buffer holds what follows.
ParserInv ==
  /\ input \in Inputs
  /\ fed \in 0..Len(input.bytes)
  /\ \E c \in Nat, e \in Seq(Nat) :
       /\ Parse(Seen, 1, c, e) /\ StopsAt(Seen, c)
       /\ buf = Rest(Seen, c)
       /\ frames = FramesOf(Seen, e)

\* The beginning of a stream.
LEMMA Beginning ==
  ASSUME NEW b \in Seq(Byte), NEW n \in 0..Len(b)
  PROVE  /\ SubSeq(b, 1, n) \in Seq(Byte)
         /\ Len(SubSeq(b, 1, n)) = n
         /\ \A i \in 1..n : SubSeq(b, 1, n)[i] = b[i]
<1>1. n \in Int /\ \A i \in 1..n : b[i] \in Byte
  OBVIOUS
<1>2. /\ SubSeq(b, 1, n) \in Seq(Byte)
      /\ Len(SubSeq(b, 1, n)) = (IF 1 <= n THEN n - 1 + 1 ELSE 0)
      /\ \A i \in 1..(n - 1 + 1) : SubSeq(b, 1, n)[i] = b[1 + i - 1]
  BY <1>1, SubSeqProperties
<1>3. \A i \in 1..n : i \in 1..(n - 1 + 1) /\ 1 + i - 1 = i
  OBVIOUS
<1> QED
  BY <1>2, <1>3

\* The stream begins with nothing read, kept or returned.
LEMMA ParserInit == Init => ParserInv
<1> SUFFICES ASSUME Init PROVE ParserInv
  OBVIOUS
<1>1. input \in Inputs /\ input.bytes \in Seq(Byte) /\ fed = 0 /\ buf = <<>> /\ frames = <<>>
  BY StreamAssumption DEF Init
<1>2. fed \in 0..Len(input.bytes)
  BY <1>1
<1>3. Seen \in Seq(Byte) /\ Len(Seen) = 0
  BY <1>1, <1>2, Beginning DEF Seen
<1>4. Parse(Seen, 1, 1, <<>>) /\ FramesOf(Seen, <<>>) = <<>>
  <2>1. 1 \in Nat \ {0} /\ 1 <= Len(Seen) + 1
    BY <1>3
  <2> QED
    BY <1>3, <2>1, ParseNothing
<1>5. StopsAt(Seen, 1)
  BY <1>3 DEF StopsAt
<1>6. Rest(Seen, 1) = <<>>
  BY <1>3 DEF Rest
<1>7. 1 \in Nat /\ <<>> \in Seq(Nat)
  OBVIOUS
<1> QED
  BY <1>1, <1>2, <1>4, <1>5, <1>6, <1>7 DEF ParserInv

\* One read: the scan of the buffer and the new bytes continues the parse.
LEMMA ParserFeed ==
  ASSUME ParserInv, Feed
  PROVE  ParserInv'
<1> DEFINE b == input.bytes
           u == SubSeq(b, 1, fed)
<1>1. input \in Inputs /\ b \in Seq(Byte) /\ fed \in 0..Len(b)
  BY StreamAssumption DEF ParserInv
<1>2. PICK n \in 1..MaxRead :
        /\ fed + n <= Len(b) /\ fed' = fed + n
        /\ buf' = Drain(buf \o SubSeq(b, fed + 1, fed + n)).rest
        /\ frames' = frames \o Drain(buf \o SubSeq(b, fed + 1, fed + n)).frames
  BY DEF Feed
<1>3. input' = input /\ n \in Nat \ {0}
  BY StreamAssumption DEF Feed
<1> DEFINE t == SubSeq(b, 1, fed + n)
           new == SubSeq(b, fed + 1, fed + n)
           s == buf \o new
<1>4. PICK c \in Nat, e \in Seq(Nat) :
        Parse(u, 1, c, e) /\ StopsAt(u, c) /\ buf = Rest(u, c) /\ frames = FramesOf(u, e)
  BY DEF ParserInv, Seen
<1>5. u \in Seq(Byte) /\ Len(u) = fed /\ \A i \in 1..fed : u[i] = b[i]
  BY <1>1, Beginning
<1>6. fed + n \in 0..Len(b)
  BY <1>1, <1>2, <1>3
<1>7. t \in Seq(Byte) /\ Len(t) = fed + n /\ \A i \in 1..(fed + n) : t[i] = b[i]
  BY <1>1, <1>6, Beginning
<1>8. /\ new \in Seq(Byte) /\ Len(new) = n /\ \A i \in 1..n : new[i] = b[fed + i]
  <2>1. \A i \in (fed + 1)..(fed + n) : b[i] \in Byte
    BY <1>1, <1>6
  <2>2. /\ new \in Seq(Byte)
        /\ Len(new) = (IF fed + 1 <= fed + n THEN (fed + n) - (fed + 1) + 1 ELSE 0)
        /\ \A i \in 1..((fed + n) - (fed + 1) + 1) : new[i] = b[(fed + 1) + i - 1]
    <3>1. fed + 1 \in Int /\ fed + n \in Int
      BY <1>1, <1>3
    <3> QED
      BY <2>1, <3>1, SubSeqProperties
  <2>3. \A i \in 1..n : i \in 1..((fed + n) - (fed + 1) + 1) /\ (fed + 1) + i - 1 = fed + i
    BY <1>1, <1>3
  <2> HIDE DEF new, b
  <2> QED
    BY <2>2, <2>3, <1>1, <1>3
<1>9. 1 <= c /\ c <= fed + 1
  BY <1>4, <1>5 DEF Parse
<1>10. /\ buf \in Seq(Byte) /\ Len(buf) = fed - c + 1
       /\ \A i \in 1..(fed - c + 1) : buf[i] = u[c + i - 1]
  <2>1. \A i \in c..fed : u[i] \in Byte
    BY <1>1, <1>5, <1>9
  <2>2. buf = SubSeq(u, c, fed)
    BY <1>4, <1>5 DEF Rest
  <2>3. /\ SubSeq(u, c, fed) \in Seq(Byte)
        /\ Len(SubSeq(u, c, fed)) = (IF c <= fed THEN fed - c + 1 ELSE 0)
        /\ \A i \in 1..(fed - c + 1) : SubSeq(u, c, fed)[i] = u[c + i - 1]
    <3>1. fed \in Int /\ c \in Int
      BY <1>1
    <3> HIDE DEF u
    <3> QED
      BY <2>1, <3>1, SubSeqProperties
  <2> HIDE DEF u
  <2> QED
    BY <2>2, <2>3, <1>1, <1>9
<1> HIDE DEF u, t, new, b
<1>11. /\ s \in Seq(Byte) /\ Len(s) = (fed - c + 1) + n
       /\ \A i \in 1..((fed - c + 1) + n) :
            s[i] = IF i <= fed - c + 1 THEN buf[i] ELSE new[i - (fed - c + 1)]
  <2>1. buf \in Seq(Byte) /\ new \in Seq(Byte)
    BY <1>8, <1>10
  <2>2. /\ s \in Seq(Byte) /\ Len(s) = Len(buf) + Len(new)
        /\ \A i \in 1..(Len(buf) + Len(new)) :
             s[i] = IF i <= Len(buf) THEN buf[i] ELSE new[i - Len(buf)]
    BY <2>1, ConcatProperties
  <2> QED
    BY <2>2, <1>8, <1>10
<1> HIDE DEF s
<1>12. Aligned(s, t, c - 1)
  <2> SUFFICES ASSUME NEW i \in 1..Len(s)
               PROVE  i + (c - 1) \in 1..Len(t) /\ s[i] = t[i + (c - 1)]
    BY DEF Aligned
  <2>1. i \in 1..((fed - c + 1) + n) /\ i + (c - 1) \in 1..(fed + n)
    BY <1>1, <1>3, <1>9, <1>11
  <2>2. CASE i <= fed - c + 1
    <3>1. s[i] = buf[i]
      BY <2>1, <2>2, <1>11
    <3>2. buf[i] = u[c + i - 1] /\ c + i - 1 = i + (c - 1) /\ c + i - 1 \in 1..fed
      BY <2>1, <2>2, <1>1, <1>9, <1>10
    <3>3. u[c + i - 1] = b[c + i - 1]
      BY <3>2, <1>5
    <3> QED
      BY <2>1, <3>1, <3>2, <3>3, <1>7
  <2>3. CASE ~(i <= fed - c + 1)
    <3>1. s[i] = new[i - (fed - c + 1)] /\ i - (fed - c + 1) \in 1..n
      BY <2>1, <2>3, <1>1, <1>3, <1>9, <1>11
    <3>2. new[i - (fed - c + 1)] = b[fed + (i - (fed - c + 1))]
      BY <3>1, <1>8
    <3>3. fed + (i - (fed - c + 1)) = i + (c - 1)
      BY <1>1, <1>9
    <3> QED
      BY <2>1, <3>1, <3>2, <3>3, <1>7
  <2> QED
    BY <2>2, <2>3
<1>13. PICK c2 \in Nat, e2 \in Seq(Nat) :
         /\ Parse(t, c, c2, e2) /\ StopsAt(t, c2)
         /\ Drain(s) = [frames |-> FramesOf(t, e2), rest |-> Rest(t, c2)]
  <2>1. c - 1 \in Nat /\ Len(t) = Len(s) + (c - 1) /\ 1 \in 1..(Len(s) + 1) /\ 1 + (c - 1) = c
    BY <1>1, <1>3, <1>7, <1>9, <1>11
  <2>2. \E c2 \in Nat, e2 \in Seq(Nat) :
          /\ Parse(t, 1 + (c - 1), c2, e2) /\ StopsAt(t, c2)
          /\ Scan(s)[1] = [frames |-> FramesOf(t, e2), rest |-> Rest(t, c2)]
    BY <2>1, <1>7, <1>11, <1>12, ScanParses
  <2> QED
    BY <2>1, <2>2 DEF Drain
<1>14. Parse(t, 1, c, e) /\ FramesOf(t, e) = FramesOf(u, e)
  <2>1. Aligned(u, t, 0)
    <3> SUFFICES ASSUME NEW i \in 1..Len(u) PROVE i + 0 \in 1..Len(t) /\ u[i] = t[i + 0]
      BY DEF Aligned
    <3>1. i \in 1..fed /\ i \in 1..(fed + n) /\ i + 0 = i
      BY <1>1, <1>3, <1>5
    <3> QED
      BY <3>1, <1>5, <1>7
  <2> QED
    BY <2>1, <1>4, <1>5, <1>7, ParseExtends
<1>15. Parse(t, 1, c2, e \o e2)
  BY <1>7, <1>13, <1>14, ParseJoins
<1>16. buf' = Rest(t, c2) /\ frames' = FramesOf(u, e) \o FramesOf(t, e2)
  <2>1. Drain(s).rest = Rest(t, c2) /\ Drain(s).frames = FramesOf(t, e2)
    BY <1>13
  <2> QED
    BY <2>1, <1>2, <1>4 DEF s, new
<1>17. frames' = FramesOf(t, e \o e2) /\ e \o e2 \in Seq(Nat)
  BY <1>14, <1>16, FramesJoin
<1>18. Seen' = t
  BY <1>2, <1>3 DEF Seen, t, b
<1>19. fed' \in 0..Len(input'.bytes) /\ input' \in Inputs
  BY <1>1, <1>2, <1>3, <1>6 DEF b
<1> QED
  BY <1>13, <1>15, <1>16, <1>17, <1>18, <1>19 DEF ParserInv

\* ParserInv holds of every behaviour of the parser.
THEOREM ParserInvariant == Spec => []ParserInv
<1>1. ParserInv /\ [Feed]_vars => ParserInv'
  <2>1. ASSUME ParserInv, UNCHANGED vars PROVE ParserInv'
    BY <2>1 DEF ParserInv, vars, Seen
  <2> QED
    BY <2>1, ParserFeed
<1> QED
  BY <1>1, ParserInit, PTL DEF Spec

-------------------------------------------------------------------------------
(***************************************************************************)
(* What follows for the buffer and for single telegrams.                   *)
(***************************************************************************)

\* What stays in the buffer is the end of the stream.
LEMMA RestAligned ==
  ASSUME NEW t \in Seq(Byte), NEW c \in Nat \ {0}, c <= Len(t) + 1
  PROVE  /\ Rest(t, c) \in Seq(Byte)
         /\ Len(t) = Len(Rest(t, c)) + (c - 1)
         /\ Aligned(Rest(t, c), t, c - 1)
<1>1. \A i \in c..Len(t) : t[i] \in Byte
  OBVIOUS
<1>2. c \in Int /\ Len(t) \in Int
  OBVIOUS
<1>3. /\ SubSeq(t, c, Len(t)) \in Seq(Byte)
      /\ Len(SubSeq(t, c, Len(t))) = (IF c <= Len(t) THEN Len(t) - c + 1 ELSE 0)
      /\ \A i \in 1..(Len(t) - c + 1) : SubSeq(t, c, Len(t))[i] = t[c + i - 1]
  BY <1>1, <1>2, SubSeqProperties
<1> DEFINE r == SubSeq(t, c, Len(t))
<1> HIDE DEF r
<1>4. r \in Seq(Byte) /\ Len(r) = Len(t) - c + 1
  BY <1>3 DEF r
<1>5. ASSUME NEW i \in 1..Len(r) PROVE i + (c - 1) \in 1..Len(t) /\ r[i] = t[i + (c - 1)]
  <2>1. i \in 1..(Len(t) - c + 1) /\ i + (c - 1) = c + i - 1 /\ i + (c - 1) \in 1..Len(t)
    BY <1>4
  <2>2. r[i] = t[c + i - 1]
    BY <1>3, <2>1 DEF r
  <2> QED
    BY <2>1, <2>2
<1> QED
  BY <1>4, <1>5 DEF Rest, Aligned, r

\* Seen is a sequence of bytes of which fed were read.
LEMMA SeenType ==
  ASSUME ParserInv
  PROVE  Seen \in Seq(Byte) /\ Len(Seen) = fed /\ fed \in Nat
<1>1. input.bytes \in Seq(Byte) /\ fed \in 0..Len(input.bytes)
  BY StreamAssumption DEF ParserInv
<1> QED
  BY <1>1, Beginning DEF Seen

\* The buffer is empty or holds one incomplete telegram and its followers.
LEMMA BufferWaits ==
  ASSUME ParserInv
  PROVE  buf \in Seq(Byte) /\ (buf = <<>> \/ IncompleteAt(buf, 1))
<1>1. PICK c \in Nat, e \in Seq(Nat) :
        Parse(Seen, 1, c, e) /\ StopsAt(Seen, c) /\ buf = Rest(Seen, c)
  BY DEF ParserInv
<1>2. Seen \in Seq(Byte)
  BY SeenType
<1>3. c \in Nat \ {0} /\ c <= Len(Seen) + 1
  BY <1>1 DEF Parse
<1>4. /\ buf \in Seq(Byte) /\ Len(Seen) = Len(buf) + (c - 1)
      /\ Aligned(buf, Seen, c - 1)
  BY <1>1, <1>2, <1>3, RestAligned
<1>5. c - 1 \in Nat /\ 1 \in 1..(Len(buf) + 1) /\ 1 + (c - 1) = c
  BY <1>3, <1>4
<1>6. StopsAt(Seen, 1 + (c - 1)) <=> StopsAt(buf, 1)
  BY <1>2, <1>4, <1>5, SameEnd
<1>7. StopsAt(buf, 1)
  BY <1>1, <1>5, <1>6
<1>8. 1 = Len(buf) + 1 => buf = <<>>
  BY <1>4, EmptySeq
<1> QED
  BY <1>4, <1>7, <1>8 DEF StopsAt

\* HoldsOneTelegram: however long the stream, drain keeps no complete telegram
\* and no noise in the buffer.
THEOREM BufferIsOneTelegram == Spec => []HoldsOneTelegram
<1>1. ParserInv => HoldsOneTelegram
  BY BufferWaits DEF HoldsOneTelegram
<1> QED
  BY <1>1, ParserInvariant, PTL

\* So the buffer stays below the longest telegram, 10 + 255 * 6 bytes (Parser.buf
\* is never cut or limited otherwise).
THEOREM BufferIsBounded == Spec => [](Len(buf) < 1540)
<1>1. ParserInv => Len(buf) < 1540
  <2> SUFFICES ASSUME ParserInv PROVE Len(buf) < 1540
    OBVIOUS
  <2>1. buf \in Seq(Byte) /\ (buf = <<>> \/ IncompleteAt(buf, 1))
    BY BufferWaits
  <2>2. CASE buf = <<>>
    BY <2>2
  <2>3. CASE buf # <<>> /\ ~HeaderComplete(buf, 1)
    BY <2>1, <2>3 DEF HeaderComplete, HeaderLen
  <2>4. CASE buf # <<>> /\ HeaderComplete(buf, 1)
    <3>1. ~FrameComplete(buf, 1)
      BY <2>1, <2>4 DEF IncompleteAt
    <3>2. 1 \in 1..Len(buf)
      BY <2>1, <2>4 DEF HeaderComplete, HeaderLen
    <3>3. FrameLen(buf, 1) \in Nat /\ FrameLen(buf, 1) <= 1540
      BY <2>1, <2>4, <3>2, FrameLenType
    <3> QED
      BY <2>1, <3>1, <3>3 DEF FrameComplete
  <2> QED
    BY <2>2, <2>3, <2>4
<1> QED
  BY <1>1, ParserInvariant, PTL

-------------------------------------------------------------------------------
(***************************************************************************)
(* The reference of ParsesStream: where the frames of a stream start.      *)
(***************************************************************************)

\* Position p is inside a telegram that starts earlier, by the starts in g.
InsideOf(s, g, p) == \E q \in 1..(p - 1) : g[q] /\ p < q + FrameLen(s, q)

\* Position k holds a frame, by the starts in g before it.
StartStep(s, g, k) ==
  /\ ValidAt(s, k)
  /\ ~InsideOf(s, g, k)
  /\ ~\E p \in 1..(k - 1) : IncompleteAt(s, p) /\ ~InsideOf(s, g, p)

\* Whether a position holds a frame depends on the positions before it only.
LEMMA StartStepLocal ==
  ASSUME NEW s, NEW g, NEW h, NEW k \in Nat, \A j \in 1..(k - 1) : g[j] = h[j]
  PROVE  StartStep(s, g, k) <=> StartStep(s, h, k)
<1>1. ASSUME NEW p \in 1..k PROVE InsideOf(s, g, p) <=> InsideOf(s, h, p)
  <2>1. \A q \in 1..(p - 1) : q \in 1..(k - 1)
    OBVIOUS
  <2>2. \A q \in 1..(p - 1) : g[q] = h[q]
    BY <2>1
  <2> QED
    BY <2>2 DEF InsideOf
<1>2. \A p \in 1..(k - 1) : p \in 1..k
  OBVIOUS
<1>3. \A p \in 1..(k - 1) : InsideOf(s, g, p) <=> InsideOf(s, h, p)
  BY <1>1, <1>2
<1>4. InsideOf(s, g, k) <=> InsideOf(s, h, k)
  <2>1. CASE k = 0
    <3>1. 1..(k - 1) = {}
      BY <2>1
    <3> QED
      BY <3>1 DEF InsideOf
  <2>2. CASE k # 0
    <3>1. k \in 1..k
      BY <2>2
    <3> QED
      BY <1>1, <3>1
  <2> QED
    BY <2>1, <2>2
<1> QED
  BY <1>3, <1>4 DEF StartStep

\* The reference is what its steps say.
LEMMA StartUnfolds ==
  ASSUME NEW s \in Seq(Byte)
  PROVE  \A k \in 1..Len(s) : Start(s)[k] = StartStep(s, Start(s), k)
<1> DEFINE D == 1..Len(s)
           m == [k \in D |-> k]
           H == [gk \in [D -> BOOLEAN] \X D |-> StartStep(s, gk[1], gk[2])]
           Body1(g, k) ==
             LET Inside(p) == \E q \in 1..(p - 1) : g[q] /\ p < q + FrameLen(s, q)
             IN  /\ ValidAt(s, k)
                 /\ ~Inside(k)
                 /\ ~\E p \in 1..(k - 1) : IncompleteAt(s, p) /\ ~Inside(p)
<1>1. Descends(D, BOOLEAN, m, Len(s) + 1, H)
  <2>1. m \in [D -> Nat] /\ Len(s) + 1 \in Nat /\ \A k \in D : m[k] < Len(s) + 1
    OBVIOUS
  <2>2. ASSUME NEW g, NEW k PROVE StartStep(s, g, k) \in BOOLEAN
    BY DEF StartStep
  <2>3. H \in [[D -> BOOLEAN] \X D -> BOOLEAN]
    BY <2>2
  <2>4. ASSUME NEW g \in [D -> BOOLEAN], NEW k \in D
        PROVE  H[<<g, k>>] = StartStep(s, g, k)
    OBVIOUS
  <2>5. ASSUME NEW g \in [D -> BOOLEAN], NEW h \in [D -> BOOLEAN], NEW k \in D,
               \A j \in D : m[j] < m[k] => g[j] = h[j]
        PROVE  H[<<g, k>>] = H[<<h, k>>]
    <3>1. \A j \in 1..(k - 1) : j \in D /\ m[j] < m[k]
      OBVIOUS
    <3>2. \A j \in 1..(k - 1) : g[j] = h[j]
      BY <3>1, <2>5
    <3>3. k \in Nat
      OBVIOUS
    <3>4. StartStep(s, g, k) <=> StartStep(s, h, k)
      BY <3>2, <3>3, StartStepLocal
    <3> HIDE DEF D, m, H
    <3>5. StartStep(s, g, k) = StartStep(s, h, k)
      BY <3>4, <2>2
    <3> QED
      BY <3>5, <2>4
  <2>6. BOOLEAN # {}
    OBVIOUS
  <2> HIDE DEF D, m, H
  <2> QED
    BY <2>1, <2>3, <2>5, <2>6 DEF Descends
<1>2. PICK f \in [D -> BOOLEAN] : \A k \in D : f[k] = H[<<f, k>>]
  <2> HIDE DEF D, m, H
  <2> QED
    BY <1>1, Recursion
<1>3. ASSUME NEW g, NEW k PROVE Body1(g, k) = StartStep(s, g, k)
  BY DEF StartStep, InsideOf
<1>4. ASSUME NEW k \in D PROVE f[k] = Body1(f, k)
  <2>1. f[k] = StartStep(s, f, k)
    BY <1>2
  <2> HIDE DEF Body1
  <2> QED
    BY <2>1, <1>3
<1>5. f = [k \in D |-> Body1(f, k)]
  <2> HIDE DEF Body1, D
  <2> QED
    BY <1>4
<1>6. Start(s) = [k \in D |-> Body1(Start(s), k)]
  BY <1>5 DEF Start
<1>7. \A k \in D : Start(s)[k] = Body1(Start(s), k)
  <2> HIDE DEF Body1, D
  <2> QED
    BY <1>6
<1> QED
  <2> HIDE DEF Body1
  <2> QED
    BY <1>7, <1>3

\* A parse up to the place where the scan waits lists exactly the starts of the
\* reference.
LEMMA ParseIsReference ==
  ASSUME NEW s \in Seq(Byte), NEW c \in Nat, NEW e \in Seq(Nat), Parse(s, 1, c, e), StopsAt(s, c)
  PROVE  \A k \in 1..Len(s) : Start(s)[k] <=> \E i \in 1..Len(e) : e[i] = k
<1> DEFINE IsStart(k) == \E i \in 1..Len(e) : e[i] = k
           G == Start(s)
           S == {n \in Nat : \A k \in 1..Len(s) : k < n => (G[k] <=> IsStart(k))}
<1> HIDE DEF G
<1>1. /\ 1 <= c /\ c <= Len(s) + 1
      /\ \A i \in 1..Len(e) : /\ e[i] \in Nat /\ 1 <= e[i] /\ e[i] <= Len(s)
                              /\ ValidAt(s, e[i]) /\ e[i] + FrameLen(s, e[i]) <= c
      /\ \A i, j \in 1..Len(e) : i < j => e[i] + FrameLen(s, e[i]) <= e[j]
      /\ \A p \in 1..(c - 1) : Dead(s, p) \/ \E i \in 1..Len(e) : Within(s, e[i], p)
  BY DEF Parse
<1>2. \A i \in 1..Len(e) : FrameLen(s, e[i]) \in Nat /\ 10 <= FrameLen(s, e[i])
  <2> TAKE i \in 1..Len(e)
  <2>1. e[i] \in 1..Len(s) /\ ValidAt(s, e[i])
    BY <1>1
  <2> QED
    BY <2>1, ValidEnds
<1>3. 0 \in S
  OBVIOUS
<1>4. ASSUME NEW n \in Nat, n \in S PROVE n + 1 \in S
  <2> SUFFICES ASSUME NEW k \in 1..Len(s), k < n + 1 PROVE G[k] <=> IsStart(k)
    <3> HIDE DEF IsStart
    <3> QED
      OBVIOUS
  <2>1. ASSUME NEW q \in 1..(k - 1) PROVE G[q] <=> IsStart(q)
    <3>1. q \in 1..Len(s) /\ q < n
      OBVIOUS
    <3> HIDE DEF IsStart
    <3> QED
      BY <1>4, <3>1
  <2>2. G[k] = StartStep(s, G, k)
    BY StartUnfolds DEF G
  \* Inside an earlier frame of the parse is inside by the reference.
  <2>3. ASSUME NEW p \in 1..k, NEW i \in 1..Len(e), e[i] < p, p < e[i] + FrameLen(s, e[i])
        PROVE  InsideOf(s, G, p)
    <3>1. e[i] \in 1..(p - 1) /\ e[i] \in 1..(k - 1)
      BY <1>1, <2>3
    <3>2. G[e[i]]
      BY <2>1, <3>1
    <3> QED
      BY <3>1, <3>2, <2>3 DEF InsideOf
  <2>4. ASSUME NEW p \in 1..k, InsideOf(s, G, p)
        PROVE  \E i \in 1..Len(e) : e[i] < p /\ p < e[i] + FrameLen(s, e[i])
    <3>1. PICK q \in 1..(p - 1) : G[q] /\ p < q + FrameLen(s, q)
      BY <2>4 DEF InsideOf
    <3>2. q \in 1..(k - 1)
      OBVIOUS
    <3>3. PICK i \in 1..Len(e) : e[i] = q
      BY <2>1, <3>1, <3>2
    <3> QED
      BY <3>1, <3>3
  <2>5. ASSUME NEW i \in 1..Len(e), e[i] = k PROVE StartStep(s, G, k)
    <3>1. ValidAt(s, k)
      BY <1>1, <2>5
    <3>2. ~InsideOf(s, G, k)
      <4> SUFFICES ASSUME InsideOf(s, G, k) PROVE FALSE
        OBVIOUS
      <4>1. PICK j \in 1..Len(e) : e[j] < k /\ k < e[j] + FrameLen(s, e[j])
        <5>1. k \in 1..k
          OBVIOUS
        <5> QED
          BY <2>4, <5>1
      <4>2. CASE j < i
        <5>1. e[j] + FrameLen(s, e[j]) <= e[i]
          BY <4>2, <1>1
        <5>2. e[j] + FrameLen(s, e[j]) <= k
          BY <5>1, <2>5
        <5>3. e[j] \in Nat /\ FrameLen(s, e[j]) \in Nat
          BY <1>1, <1>2
        <5> QED
          BY <5>2, <5>3, <4>1
      <4>3. CASE i < j
        <5>1. e[i] + FrameLen(s, e[i]) <= e[j]
          BY <4>3, <1>1
        <5>2. k + FrameLen(s, k) <= e[j] /\ FrameLen(s, k) \in Nat /\ e[j] \in Nat
          BY <5>1, <1>1, <1>2, <2>5
        <5> QED
          BY <5>2, <4>1
      <4>4. CASE i = j
        BY <4>1, <4>4, <2>5
      <4> QED
        BY <4>2, <4>3, <4>4
    <3>3. ASSUME NEW p \in 1..(k - 1), IncompleteAt(s, p) PROVE InsideOf(s, G, p)
      <4>1. p \in 1..(c - 1)
        BY <1>1, <1>2, <2>5
      <4>2. ~Dead(s, p) /\ ~ValidAt(s, p)
        BY <3>3, ThreeCases
      <4>3. PICK j \in 1..Len(e) : Within(s, e[j], p)
        BY <4>1, <4>2, <1>1
      <4>4. e[j] # p
        BY <4>2, <1>1
      <4>5. e[j] < p /\ p < e[j] + FrameLen(s, e[j])
        BY <4>3, <4>4, <1>1 DEF Within
      <4>6. p \in 1..k
        OBVIOUS
      <4> QED
        BY <4>5, <4>6, <2>3
    <3> QED
      BY <3>1, <3>2, <3>3 DEF StartStep
  <2>6. ASSUME StartStep(s, G, k) PROVE IsStart(k)
    <3>1. ValidAt(s, k) /\ ~InsideOf(s, G, k) /\ k \in 1..k
      BY <2>6 DEF StartStep
    <3>2. CASE k < c
      <4>1. k \in 1..(c - 1) /\ ~Dead(s, k)
        BY <3>1, <3>2, <1>1, ThreeCases
      <4>2. PICK j \in 1..Len(e) : Within(s, e[j], k)
        BY <4>1, <1>1
      <4>3. e[j] = k \/ (e[j] < k /\ k < e[j] + FrameLen(s, e[j]))
        BY <4>2, <1>1 DEF Within
      <4>4. ~(e[j] < k /\ k < e[j] + FrameLen(s, e[j]))
        BY <3>1, <2>3
      <4> QED
        BY <4>3, <4>4
    <3>3. CASE ~(k < c)
      <4>1. IncompleteAt(s, c)
        BY <3>3, <1>1 DEF StopsAt
      <4>2. c # k
        BY <4>1, <3>1, ThreeCases
      <4>3. c \in 1..(k - 1) /\ c \in 1..k
        BY <4>2, <3>3, <1>1
      <4>4. InsideOf(s, G, c)
        BY <2>6, <4>1, <4>3 DEF StartStep
      <4>5. PICK i \in 1..Len(e) : e[i] < c /\ c < e[i] + FrameLen(s, e[i])
        BY <4>3, <4>4, <2>4
      <4> QED
        BY <4>5, <1>1, <1>2
    <3> QED
      BY <3>2, <3>3
  <2>7. IsStart(k) => StartStep(s, G, k)
    BY <2>5
  <2> HIDE DEF IsStart
  <2> QED
    BY <2>2, <2>6, <2>7
<1>5. Nat \subseteq S
  <2> HIDE DEF S
  <2> QED
    BY <1>3, <1>4, Induction
<1>6. Len(s) + 1 \in S
  <2> HIDE DEF S
  <2> QED
    BY <1>5
<1>7. \A k \in 1..Len(s) : G[k] <=> IsStart(k)
  <2> HIDE DEF IsStart
  <2> QED
    BY <1>6
<1> QED
  BY <1>7 DEF G

\* The members of an increasing sequence, counted from its beginning.
LEMMA CountIncreasing ==
  ASSUME NEW e \in Seq(Nat), \A i, j \in 1..Len(e) : i < j => e[i] < e[j],
         NEW n \in 0..Len(e)
  PROVE  Cardinality({e[i] : i \in 1..n}) = n
<1> DEFINE f == [i \in 1..n |-> e[i]]
           T == {e[i] : i \in 1..n}
<1>0. n \in Nat
  OBVIOUS
<1>1. \A i \in 1..n : i \in 1..Len(e) /\ e[i] \in Nat
  OBVIOUS
<1>2. \A i, j \in 1..n : e[i] = e[j] => i = j
  BY <1>1
<1>3. f \in Bijection(1..n, T)
  BY <1>2 DEF Bijection, Injection, Surjection, IsInjective
<1> HIDE DEF f, T
<1>4. ExistsBijection(1..n, T)
  BY <1>3 DEF ExistsBijection
<1>5. Cardinality(T) = n
  BY ONLY <1>0, <1>4, FS_CountingElements, Zenon
<1> QED
  BY <1>5 DEF T

\* The scans that drain makes end at the frames of the reference, counted from the
\* beginning of the stream.
LEMMA ParseRanks ==
  ASSUME NEW s \in Seq(Byte), NEW c \in Nat, NEW e \in Seq(Nat), Parse(s, 1, c, e), StopsAt(s, c)
  PROVE  /\ Starts(s) = {e[i] : i \in 1..Len(e)}
         /\ Cardinality(Starts(s)) = Len(e)
         /\ \A j \in 1..Len(e) : e[j] \in Starts(s) /\ Rank(s, e[j]) = j
<1>1. \A k \in 1..Len(s) : Start(s)[k] <=> \E i \in 1..Len(e) : e[i] = k
  BY ParseIsReference
<1>2. \A i \in 1..Len(e) : /\ e[i] \in 1..Len(s) /\ ValidAt(s, e[i])
                           /\ FrameLen(s, e[i]) \in Nat /\ 10 <= FrameLen(s, e[i])
  <2> TAKE i \in 1..Len(e)
  <2>1. e[i] \in 1..Len(s) /\ ValidAt(s, e[i])
    BY DEF Parse
  <2> QED
    BY <2>1, ValidEnds
<1>3. \A i, j \in 1..Len(e) : i < j => e[i] < e[j]
  <2> TAKE i, j \in 1..Len(e)
  <2>1. i < j => e[i] + FrameLen(s, e[i]) <= e[j]
    BY DEF Parse
  <2> QED
    BY <1>2, <2>1
<1>4. Starts(s) = {e[i] : i \in 1..Len(e)}
  BY <1>1, <1>2 DEF Starts
<1>5. ASSUME NEW j \in 1..Len(e) PROVE Rank(s, e[j]) = j
  <2>1. {q \in Starts(s) : q <= e[j]} = {e[i] : i \in 1..j}
    <3>1. \A i \in 1..Len(e) : e[i] <= e[j] <=> i \in 1..j
      BY <1>2, <1>3
    <3> QED
      BY <3>1, <1>4
  <2>2. j \in 0..Len(e)
    OBVIOUS
  <2> QED
    BY <1>3, <2>1, <2>2, CountIncreasing DEF Rank
<1>6. Cardinality(Starts(s)) = Len(e)
  <2>1. Len(e) \in 0..Len(e)
    OBVIOUS
  <2> QED
    BY <1>3, <1>4, <2>1, CountIncreasing
<1> QED
  BY <1>4, <1>5, <1>6

\* ParsesStream: for streams and reads of any length, the frames returned are
\* those of the reference (Feed, drain).
THEOREM StreamIsParsed == Spec => []ParsesStream
<1>1. ParserInv => ParsesStream
  <2> SUFFICES ASSUME ParserInv PROVE ParsesStream
    OBVIOUS
  <2> DEFINE s == Seen
  <2>1. s \in Seq(Byte)
    BY SeenType
  <2> HIDE DEF s
  <2>2. PICK c \in Nat, e \in Seq(Nat) :
          Parse(s, 1, c, e) /\ StopsAt(s, c) /\ frames = FramesOf(s, e)
    BY DEF ParserInv, s
  <2>3. /\ Starts(s) = {e[i] : i \in 1..Len(e)} /\ Cardinality(Starts(s)) = Len(e)
        /\ \A j \in 1..Len(e) : Rank(s, e[j]) = j
    BY <2>1, <2>2, ParseRanks
  <2>4. Len(frames) = Len(e) /\ \A i \in 1..Len(e) : frames[i] = FrameAt(s, e[i])
    BY <2>2 DEF FramesOf
  <2> QED
    BY <2>3, <2>4 DEF ParsesStream, s
<1> QED
  BY <1>1, ParserInvariant, PTL

\* DamageIsLocal: a valid telegram is lost only to a valid one that overlaps it or
\* while an earlier header waits for its bytes (the skip by one byte in drain).
THEOREM OnlyOverlapLosesTelegrams == Spec => []DamageIsLocal
<1>1. ParserInv => DamageIsLocal
  <2> SUFFICES ASSUME ParserInv, NEW k \in 1..fed, ValidAt(Seen, k)
               PROVE  \/ Returned(k)
                      \/ \E p \in 1..(k - 1) : \/ ValidAt(Seen, p) /\ k < p + FrameLen(Seen, p)
                                               \/ IncompleteAt(Seen, p)
    BY DEF DamageIsLocal
  <2>1. PICK c \in Nat, e \in Seq(Nat) :
          Parse(Seen, 1, c, e) /\ StopsAt(Seen, c) /\ frames = FramesOf(Seen, e)
    BY DEF ParserInv
  <2>2. fed \in Nat /\ Len(Seen) = fed
    BY SeenType
  <2>3. CASE k < c
    <3>1. k \in 1..(c - 1) /\ ~Dead(Seen, k)
      BY <2>2, <2>3, ThreeCases
    <3>2. PICK i \in 1..Len(e) : Within(Seen, e[i], k)
      BY <2>1, <3>1 DEF Parse
    <3>3. ValidAt(Seen, e[i]) /\ 1 <= e[i] /\ e[i] \in Nat
      BY <2>1 DEF Parse
    <3>4. CASE e[i] = k
      <4>1. i \in DOMAIN frames /\ frames[i] = FrameAt(Seen, k)
        BY <2>1, <3>4 DEF FramesOf
      <4>2. k \in Starts(Seen) /\ Rank(Seen, k) = i
        BY <2>1, <3>4, SeenType, ParseRanks
      <4> QED
        BY <4>1, <4>2 DEF Returned
    <3>5. CASE e[i] # k
      <4>1. e[i] \in 1..(k - 1) /\ k < e[i] + FrameLen(Seen, e[i])
        BY <3>2, <3>3, <3>5, <2>2 DEF Within
      <4> QED
        BY <3>3, <4>1
    <3> QED
      BY <3>4, <3>5
  <2>4. CASE ~(k < c)
    <3>1. c # Len(Seen) + 1
      BY <2>2, <2>4
    <3>2. IncompleteAt(Seen, c)
      BY <2>1, <3>1 DEF StopsAt
    <3>3. c # k
      BY <3>2, ThreeCases
    <3>4. c \in 1..(k - 1)
      BY <2>1, <2>2, <2>4, <3>3 DEF Parse
    <3> QED
      BY <3>2, <3>4
  <2> QED
    BY <2>3, <2>4
<1> QED
  BY <1>1, ParserInvariant, PTL

\* The body of a complete telegram: its sub-frames, six bytes each, one behind the
\* other.
LEMMA BodyParts ==
  ASSUME NEW s \in Seq(Byte), NEW k \in 1..Len(s), HeaderComplete(s, k), FrameComplete(s, k)
  PROVE  /\ s[k + 8] \in Byte /\ s[k + 8] \in Nat
         /\ Body(s, k) = [i \in 1..s[k + 8] |-> SubSeq(s, k + 10 + 6 * (i - 1), k + 9 + 6 * i)]
         /\ \A i \in 1..s[k + 8] : Body(s, k)[i] \in Seq(Byte) /\ Len(Body(s, k)[i]) = 6
<1> DEFINE n == s[k + 8]
           body == SubSeq(s, k + HeaderLen, k + FrameLen(s, k) - 1)
           Part(i) == SubSeq(s, k + 10 + 6 * (i - 1), k + 9 + 6 * i)
<1>1. k + 8 \in 1..Len(s)
  BY DEF HeaderComplete, HeaderLen
<1>2. n \in Byte /\ n \in Nat
  BY <1>1, ByteType
<1>3. FrameLen(s, k) = 10 + 6 * n /\ HeaderLen = 10
  BY <1>2 DEF FrameLen, HeaderLen, SubFrameLen
<1> HIDE DEF n
<1>4. k + 10 + 6 * n <= Len(s) + 1
  BY <1>2, <1>3 DEF FrameComplete
<1>5. body = SubSeq(s, k + 10, k + 9 + 6 * n)
  <2>1. k + FrameLen(s, k) - 1 = k + 9 + 6 * n
    BY <1>2, <1>3
  <2> QED
    BY <1>3, <2>1
<1>6. Len(body) \div 6 = n
  <2>1. \A i \in (k + 10)..(k + 9 + 6 * n) : s[i] \in Byte
    BY <1>2, <1>4
  <2>2. k + 10 \in Int /\ k + 9 + 6 * n \in Int
    BY <1>2
  <2>3. Len(SubSeq(s, k + 10, k + 9 + 6 * n))
          = IF k + 10 <= k + 9 + 6 * n THEN (k + 9 + 6 * n) - (k + 10) + 1 ELSE 0
    BY <2>1, <2>2, SubSeqProperties
  <2> HIDE DEF body
  <2>4. Len(body) = 6 * n
    BY <2>3, <1>2, <1>5
  <2> QED
    BY <2>4, <1>2
<1>7. ASSUME NEW i \in 1..n PROVE SubSeq(body, (i - 1) * 6 + 1, i * 6) = Part(i)
  <2>1. /\ k + 10 \in 1..Len(s) /\ k + 9 + 6 * n \in 1..Len(s)
        /\ (i - 1) * 6 + 1 \in 1..((k + 9 + 6 * n) - (k + 10) + 1)
        /\ i * 6 \in 1..((k + 9 + 6 * n) - (k + 10) + 1)
    BY <1>2, <1>4
  <2>2. SubSeq(SubSeq(s, k + 10, k + 9 + 6 * n), (i - 1) * 6 + 1, i * 6)
          = SubSeq(s, (k + 10) + ((i - 1) * 6 + 1) - 1, (k + 10) + i * 6 - 1)
    BY <2>1, SubSeqOfSubSeq
  <2>3. /\ (k + 10) + ((i - 1) * 6 + 1) - 1 = k + 10 + 6 * (i - 1)
        /\ (k + 10) + i * 6 - 1 = k + 9 + 6 * i
    OBVIOUS
  <2> HIDE DEF body
  <2> QED
    BY <2>2, <2>3, <1>5
<1>8. Body(s, k) = [i \in 1..n |-> Part(i)]
  <2>1. Body(s, k) = [i \in 1..(Len(body) \div 6) |-> SubSeq(body, (i - 1) * 6 + 1, i * 6)]
    BY DEF Body, SubFrames, SubFrameLen
  <2> HIDE DEF body, Part
  <2> QED
    BY <2>1, <1>6, <1>7
<1>9. ASSUME NEW i \in 1..n PROVE Part(i) \in Seq(Byte) /\ Len(Part(i)) = 6
  <2>1. \A j \in (k + 10 + 6 * (i - 1))..(k + 9 + 6 * i) : s[j] \in Byte
    BY <1>2, <1>4
  <2>2. /\ k + 10 + 6 * (i - 1) \in Int /\ k + 9 + 6 * i \in Int
        /\ k + 10 + 6 * (i - 1) <= k + 9 + 6 * i
        /\ (k + 9 + 6 * i) - (k + 10 + 6 * (i - 1)) + 1 = 6
    OBVIOUS
  <2>3. /\ Part(i) \in Seq(Byte)
        /\ Len(Part(i)) = IF k + 10 + 6 * (i - 1) <= k + 9 + 6 * i
                          THEN (k + 9 + 6 * i) - (k + 10 + 6 * (i - 1)) + 1 ELSE 0
    BY <2>1, <2>2, SubSeqProperties
  <2> HIDE DEF Part
  <2> QED
    BY <2>2, <2>3
<1>10. \A i \in 1..n : Body(s, k)[i] = Part(i)
  <2> HIDE DEF Part
  <2> QED
    BY <1>8
<1> QED
  BY <1>2, <1>8, <1>9, <1>10 DEF n

-------------------------------------------------------------------------------
(***************************************************************************)
(* Telegrams that arrive as they were sent.                                *)
(***************************************************************************)

\* A sub-frame gives back the four bytes that were sent (decodeSubFrames).
LEMMA Bit7Restored ==
  ASSUME NEW four \in [1..4 -> Byte]
  PROVE  SubFramePayload(SentSubFrame(four)) = four
<1> DEFINE sub == SentSubFrame(four)
           b(j) == four[j] \div 128
<1>1. ASSUME NEW x \in Byte
      PROVE  /\ x \in Nat /\ x \div 128 \in {0, 1} /\ x % 128 \in Nat /\ x % 128 < 128
             /\ x = (x % 128) + 128 * (x \div 128)
  <2>1. x \in Nat /\ x <= 255
    BY ByteType
  <2> QED
    BY <2>1
<1>2. \A j \in 1..4 : four[j] \in Byte
  OBVIOUS
<1>3. /\ sub[1] = four[1] % 128 /\ sub[2] = four[2] % 128
      /\ sub[3] = four[3] % 128 /\ sub[4] = four[4] % 128
      /\ sub[5] = Septett(four)
  BY DEF SentSubFrame, Covered
<1>4. /\ b(1) \in {0, 1} /\ b(2) \in {0, 1} /\ b(3) \in {0, 1} /\ b(4) \in {0, 1}
  BY <1>1, <1>2
<1>5. Septett(four) = b(1) + 2 * b(2) + 4 * b(3) + 8 * b(4)
  BY DEF Septett
<1>6. /\ (Septett(four) \div 1) % 2 = b(1)
      /\ (Septett(four) \div 2) % 2 = b(2)
      /\ (Septett(four) \div 4) % 2 = b(3)
      /\ (Septett(four) \div 8) % 2 = b(4)
  <2> HIDE DEF b
  <2> QED
    BY <1>4, <1>5
<1>7. Bit[1] = 1 /\ Bit[2] = 2 /\ Bit[3] = 4 /\ Bit[4] = 8
  BY DEF Bit
<1>8. ASSUME NEW j \in 1..4
      PROVE  (IF (sub[5] \div Bit[j]) % 2 = 1 /\ sub[j] < 128 THEN sub[j] + 128 ELSE sub[j]) = four[j]
  <2>1. sub[j] = four[j] % 128 /\ (sub[5] \div Bit[j]) % 2 = four[j] \div 128
    BY <1>3, <1>6, <1>7
  <2>2. /\ four[j] \div 128 \in {0, 1} /\ four[j] % 128 < 128
        /\ four[j] = (four[j] % 128) + 128 * (four[j] \div 128)
        /\ four[j] % 128 \in Nat
    BY <1>1
  <2> HIDE DEF sub
  <2> QED
    BY <2>1, <2>2
<1>9. SubFramePayload(sub) = [j \in 1..4 |-> four[j]]
  <2> HIDE DEF sub
  <2> QED
    BY <1>8 DEF SubFramePayload
<1> QED
  BY <1>9

\* A sequence is the function of its elements.
LEMMA SeqAsFunction ==
  ASSUME NEW S, NEW q \in Seq(S)
  PROVE  q = [i \in 1..Len(q) |-> q[i]]
<1>1. PICK n \in Nat : q \in [1..n -> S]
  BY SeqDef
<1>2. Len(q) = n
  BY <1>1, LenProperties
<1> QED
  BY <1>1, <1>2

\* A telegram as it was sent is valid, and its frame holds what was sent
\* (drain, decodeSubFrames).
LEMMA IntactTelegram ==
  ASSUME NEW s \in Seq(Byte), NEW k \in 1..Len(s), NEW tg \in Telegram, Carries(s, k, tg)
  PROVE  ValidAt(s, k) /\ FrameAt(s, k) = FrameOf(tg)
<1> DEFINE n == Len(tg.fours)
<1>1. n \in Nat /\ tg.fours \in Seq([1..4 -> Byte]) /\ \A i \in 1..n : tg.fours[i] \in [1..4 -> Byte]
  BY DEF Telegram
<1> HIDE DEF n
<1>2. /\ k + 10 + 6 * n <= Len(s) + 1
      /\ s[k] = Sync /\ HeaderOK(s, k) /\ s[k + 8] = n
      /\ \A i \in 1..n : SubSeq(s, k + 10 + 6 * (i - 1), k + 10 + 6 * i - 1) = SentSubFrame(tg.fours[i])
  BY DEF Carries, HeaderLen, SubFrameLen, n
<1>3. FrameLen(s, k) = 10 + 6 * n
  BY <1>1, <1>2 DEF FrameLen, HeaderLen, SubFrameLen
<1>4. HeaderComplete(s, k) /\ FrameComplete(s, k)
  BY <1>1, <1>2, <1>3 DEF HeaderComplete, FrameComplete, HeaderLen
<1>5. ASSUME NEW i \in 1..n
      PROVE  SubSeq(s, k + 10 + 6 * (i - 1), k + 9 + 6 * i) = SentSubFrame(tg.fours[i])
  <2>1. k + 10 + 6 * i - 1 = k + 9 + 6 * i
    BY <1>1
  <2> QED
    BY <2>1, <1>2
<1>6. Body(s, k) = [i \in 1..n |-> SentSubFrame(tg.fours[i])]
  <2>1. Body(s, k) = [i \in 1..n |-> SubSeq(s, k + 10 + 6 * (i - 1), k + 9 + 6 * i)]
    BY <1>2, <1>4, BodyParts
  <2> QED
    BY <2>1, <1>5
<1>7. BodyOK(s, k)
  <2>1. ASSUME NEW i \in 1..n
        PROVE  LET sub == SentSubFrame(tg.fours[i]) IN sub[6] = Checksum(SubSeq(sub, 1, 5))
    <3> DEFINE c == Covered(tg.fours[i])
               x == Checksum(c)
    <3>1. \E V : c \in Seq(V) /\ x \in V /\ Len(c) = 5
      <4> DEFINE V == {c[1], c[2], c[3], c[4], c[5], x}
      <4>1. c \in Seq(V) /\ x \in V /\ Len(c) = 5
        BY DEF Covered
      <4> QED
        BY <4>1
    <3> HIDE DEF c, x
    <3>2. (c \o <<x>>)[6] = x /\ SubSeq(c \o <<x>>, 1, 5) = c
      <4>1. PICK V : c \in Seq(V) /\ x \in V /\ Len(c) = 5
        BY <3>1
      <4>2. <<x>> \in Seq(V)
        BY <4>1
      <4>3. SubSeq(c \o <<x>>, 1, 5) = SubSeq(c, 1, 5)
        <5>1. 1 \in 1..Len(c) /\ 5 \in 1..Len(c)
          BY <4>1
        <5> QED
          BY <4>1, <4>2, <5>1, SubSeqOfConcat1
      <4>4. SubSeq(c, 1, 5) = c
        BY <4>1, SubSeqFull
      <4>5. (c \o <<x>>)[6] = x
        <5>1. \A j \in 1..(Len(c) + Len(<<x>>)) :
                (c \o <<x>>)[j] = IF j <= Len(c) THEN c[j] ELSE <<x>>[j - Len(c)]
          BY <4>1, <4>2, ConcatProperties
        <5>2. 6 \in 1..(Len(c) + Len(<<x>>)) /\ ~(6 <= Len(c)) /\ 6 - Len(c) = 1
          BY <4>1
        <5>3. (c \o <<x>>)[6] = <<x>>[6 - Len(c)]
          BY <5>1, <5>2
        <5> QED
          BY <5>2, <5>3
      <4> QED
        BY <4>3, <4>4, <4>5
    <3> QED
      BY <3>2 DEF SentSubFrame, c, x
  <2> QED
    BY <1>6, <2>1 DEF BodyOK
<1>8. [i \in DOMAIN Body(s, k) |-> SubFramePayload(Body(s, k)[i])] = tg.fours
  <2>1. ASSUME NEW i \in 1..n PROVE SubFramePayload(SentSubFrame(tg.fours[i])) = tg.fours[i]
    BY <1>1, Bit7Restored
  <2>2. [i \in DOMAIN Body(s, k) |-> SubFramePayload(Body(s, k)[i])] = [i \in 1..n |-> tg.fours[i]]
    BY <1>6, <2>1
  <2>3. tg.fours = [i \in 1..n |-> tg.fours[i]]
    BY <1>1, SeqAsFunction DEF n
  <2> QED
    BY <2>2, <2>3
<1>9. FrameAt(s, k) = FrameOf(tg)
  BY <1>8 DEF FrameAt, FrameOf, Carries
<1> QED
  BY <1>2, <1>4, <1>7, <1>9 DEF ValidAt

\* However the stream is cut into reads, a telegram that arrives as it was sent is
\* returned as it was sent and in its place, once its last byte was read, unless a valid telegram
\* overlaps it or an earlier header still waits for its bytes.
THEOREM IntactTelegramsArrive ==
  Spec => [](\A k \in 1..fed, tg \in Telegram : Carries(Seen, k, tg) =>
               \/ LET i == Rank(Seen, k)
                  IN k \in Starts(Seen) /\ i \in DOMAIN frames /\ frames[i] = FrameOf(tg)
               \/ \E p \in 1..(k - 1) : \/ ValidAt(Seen, p) /\ k < p + FrameLen(Seen, p)
                                        \/ IncompleteAt(Seen, p))
<1> DEFINE Arrives(k, tg) ==
             \/ LET i == Rank(Seen, k)
                IN k \in Starts(Seen) /\ i \in DOMAIN frames /\ frames[i] = FrameOf(tg)
             \/ \E p \in 1..(k - 1) : \/ ValidAt(Seen, p) /\ k < p + FrameLen(Seen, p)
                                      \/ IncompleteAt(Seen, p)
<1>1. ParserInv /\ DamageIsLocal => \A k \in 1..fed, tg \in Telegram : Carries(Seen, k, tg) => Arrives(k, tg)
  <2> SUFFICES ASSUME ParserInv, DamageIsLocal, NEW k \in 1..fed, NEW tg \in Telegram, Carries(Seen, k, tg)
               PROVE  Arrives(k, tg)
    OBVIOUS
  <2>1. Seen \in Seq(Byte) /\ k \in 1..Len(Seen)
    BY SeenType
  <2>2. ValidAt(Seen, k) /\ FrameAt(Seen, k) = FrameOf(tg)
    BY <2>1, IntactTelegram
  <2> QED
    BY <2>2 DEF DamageIsLocal, Returned
<1> QED
  BY <1>1, ParserInvariant, OnlyOverlapLosesTelegrams, PTL

-------------------------------------------------------------------------------
(***************************************************************************)
(* Cutting the stream into reads.                                          *)
(***************************************************************************)

\* An increasing sequence is determined by its members.
LEMMA SameMembers ==
  ASSUME NEW e \in Seq(Nat), NEW f \in Seq(Nat),
         \A i, j \in 1..Len(e) : i < j => e[i] < e[j],
         \A i, j \in 1..Len(f) : i < j => f[i] < f[j],
         {e[i] : i \in 1..Len(e)} = {f[i] : i \in 1..Len(f)}
  PROVE  e = f
<1>1. Len(e) = Len(f)
  <2>1. Len(e) \in 0..Len(e) /\ Len(f) \in 0..Len(f)
    OBVIOUS
  <2>2. Cardinality({e[i] : i \in 1..Len(e)}) = Len(e)
    BY <2>1, CountIncreasing
  <2>3. Cardinality({f[i] : i \in 1..Len(f)}) = Len(f)
    BY <2>1, CountIncreasing
  <2> QED
    BY <2>2, <2>3
<1>2. ASSUME NEW j \in 1..Len(e) PROVE e[j] = f[j]
  <2>1. PICK k \in 1..Len(f) : f[k] = e[j]
    OBVIOUS
  <2> DEFINE A == {e[i] : i \in 1..j}
             B == {f[i] : i \in 1..k}
  <2>2. j \in 0..Len(e) /\ k \in 0..Len(f)
    OBVIOUS
  <2>3. \A i \in 1..Len(e) : e[i] <= e[j] <=> i \in 1..j
    OBVIOUS
  <2>4. \A i \in 1..Len(f) : f[i] <= f[k] <=> i \in 1..k
    OBVIOUS
  <2>5. A = {x \in {e[i] : i \in 1..Len(e)} : x <= e[j]}
    <3>1. \A i \in 1..j : i \in 1..Len(e)
      OBVIOUS
    <3> QED
      BY <2>3, <3>1
  <2>6. B = {x \in {f[i] : i \in 1..Len(f)} : x <= f[k]}
    <3>1. \A i \in 1..k : i \in 1..Len(f)
      OBVIOUS
    <3> QED
      BY <2>4, <3>1
  <2>7. A = B
    BY <2>1, <2>5, <2>6
  <2>8. Cardinality(A) = j /\ Cardinality(B) = k
    BY <2>2, CountIncreasing
  <2> QED
    BY <2>1, <2>7, <2>8
<1> QED
  BY <1>1, <1>2, SeqEqual

\* The starts of a parse increase.
LEMMA ParseIncreases ==
  ASSUME NEW s \in Seq(Byte), NEW c \in Nat, NEW e \in Seq(Nat), Parse(s, 1, c, e)
  PROVE  \A i, j \in 1..Len(e) : i < j => e[i] < e[j]
<1> TAKE i, j \in 1..Len(e)
<1>1. e[i] \in 1..Len(s) /\ ValidAt(s, e[i]) /\ e[j] \in Nat
  BY DEF Parse
<1>2. i < j => e[i] + FrameLen(s, e[i]) <= e[j]
  BY DEF Parse
<1>3. FrameLen(s, e[i]) \in Nat /\ 10 <= FrameLen(s, e[i])
  BY <1>1, ValidEnds
<1> QED
  BY <1>1, <1>2, <1>3

\* No parse goes past a place where the scan waits.
LEMMA ParseStops ==
  ASSUME NEW s \in Seq(Byte),
         NEW c \in Nat, NEW e \in Seq(Nat), Parse(s, 1, c, e), StopsAt(s, c),
         NEW d \in Nat, NEW f \in Seq(Nat), Parse(s, 1, d, f), StopsAt(s, d)
  PROVE  d <= c
<1> SUFFICES ASSUME c < d PROVE FALSE
  OBVIOUS
<1>1. c \in 1..(d - 1) /\ c \in 1..Len(s)
  BY DEF Parse
<1>2. IncompleteAt(s, c)
  BY <1>1 DEF StopsAt
<1>3. ~Dead(s, c) /\ ~ValidAt(s, c)
  BY <1>2, ThreeCases
<1>4. PICK i \in 1..Len(f) : Within(s, f[i], c)
  BY <1>1, <1>3 DEF Parse
<1>5. f[i] \in 1..Len(s) /\ ValidAt(s, f[i])
  BY DEF Parse
<1>6. Start(s)[f[i]]
  BY <1>5, ParseIsReference
<1>7. PICK j \in 1..Len(e) : e[j] = f[i]
  <2>1. \A k \in 1..Len(s) : Start(s)[k] <=> \E j \in 1..Len(e) : e[j] = k
    BY ParseIsReference
  <2> QED
    BY <1>5, <1>6, <2>1, Zenon
<1>8. e[j] + FrameLen(s, e[j]) <= c /\ FrameLen(s, e[j]) \in Nat
  BY <1>5, <1>7, ValidEnds DEF Parse
<1> QED
  BY <1>4, <1>5, <1>7, <1>8 DEF Within

\* So there is one parse that ends where the scan waits.
LEMMA OneParse ==
  ASSUME NEW s \in Seq(Byte),
         NEW c \in Nat, NEW e \in Seq(Nat), Parse(s, 1, c, e), StopsAt(s, c),
         NEW d \in Nat, NEW f \in Seq(Nat), Parse(s, 1, d, f), StopsAt(s, d)
  PROVE  c = d /\ e = f
<1>1. c <= d /\ d <= c
  BY ParseStops
<1>2. \A k \in 1..Len(s) : (\E i \in 1..Len(e) : e[i] = k) <=> (\E i \in 1..Len(f) : f[i] = k)
  <2>1. \A k \in 1..Len(s) : Start(s)[k] <=> \E i \in 1..Len(e) : e[i] = k
    BY ParseIsReference
  <2>2. \A k \in 1..Len(s) : Start(s)[k] <=> \E i \in 1..Len(f) : f[i] = k
    BY ParseIsReference
  <2> QED
    BY <2>1, <2>2
<1>3. /\ \A i \in 1..Len(e) : e[i] \in 1..Len(s)
      /\ \A i \in 1..Len(f) : f[i] \in 1..Len(s)
  BY DEF Parse
<1>4. {e[i] : i \in 1..Len(e)} = {f[i] : i \in 1..Len(f)}
  BY <1>2, <1>3
<1>5. /\ \A i, j \in 1..Len(e) : i < j => e[i] < e[j]
      /\ \A i, j \in 1..Len(f) : i < j => f[i] < f[j]
  BY ParseIncreases
<1>6. e = f
  BY <1>4, <1>5, SameMembers
<1> QED
  BY <1>1, <1>6

\* ReadsDoNotMatter: a stream that is read in pieces gives what it gives when
\* it is read at once, whatever the pieces (Feed, drain).
THEOREM CutsDoNotMatter == Spec => []ReadsDoNotMatter
<1>1. ParserInv => ReadsDoNotMatter
  <2> SUFFICES ASSUME ParserInv PROVE ReadsDoNotMatter
    OBVIOUS
  <2> DEFINE s == Seen
  <2>1. s \in Seq(Byte) /\ Len(s) \in Nat
    BY SeenType
  <2>2. PICK c \in Nat, e \in Seq(Nat) :
          Parse(s, 1, c, e) /\ StopsAt(s, c) /\ buf = Rest(s, c) /\ frames = FramesOf(s, e)
    BY DEF ParserInv
  <2> HIDE DEF s
  <2>3. Aligned(s, s, 0)
    BY <2>1 DEF Aligned
  <2>4. PICK d \in Nat, f \in Seq(Nat) :
          /\ Parse(s, 1 + 0, d, f) /\ StopsAt(s, d)
          /\ Scan(s)[1] = [frames |-> FramesOf(s, f), rest |-> Rest(s, d)]
    <3>1. 1 \in 1..(Len(s) + 1) /\ Len(s) = Len(s) + 0 /\ 0 \in Nat
      BY <2>1
    <3> QED
      BY <2>1, <2>3, <3>1, ScanParses
  <2>5. c = d /\ e = f
    <3>1. Parse(s, 1, d, f)
      BY <2>4
    <3> QED
      BY <2>1, <2>2, <2>4, <3>1, OneParse
  <2> QED
    BY <2>2, <2>4, <2>5 DEF ReadsDoNotMatter, Drain, s
<1> QED
  BY <1>1, ParserInvariant, PTL

-------------------------------------------------------------------------------
(***************************************************************************)
(* The stream as a whole.                                                  *)
(***************************************************************************)

\* A place inside a telegram is not behind it, nor does another telegram that
\* starts there end before it.
LEMMA NotApart ==
  ASSUME NEW x \in Nat, NEW y \in Nat, NEW a \in Nat, NEW b \in Nat, x <= y, y < x + a, 10 <= b
  PROVE  ~(x + a <= y) /\ ~(y + b <= x)
OBVIOUS

LEMMA NotBefore ==
  ASSUME NEW x \in Nat, NEW y \in Nat, NEW z \in Nat, NEW a \in Nat, x <= y, y <= z, 10 <= a
  PROVE  ~(z + a <= x)
OBVIOUS

\* A parse of the whole stream finds the telegrams at the places f, when they
\* stand one behind the other and whatever else is valid lies inside them.
LEMMA WholeParse ==
  ASSUME NEW s \in Seq(Byte), NEW e \in Seq(Nat), Parse(s, 1, Len(s) + 1, e), NEW f \in Seq(Nat),
         \A i \in 1..Len(f) : f[i] \in 1..Len(s) /\ ValidAt(s, f[i]),
         \A i, j \in 1..Len(f) : i < j => f[i] + FrameLen(s, f[i]) <= f[j],
         \A k \in 1..Len(s) : ValidAt(s, k) => \E i \in 1..Len(f) : Within(s, f[i], k)
  PROVE  e = f
<1> DEFINE Found(i) == \E j \in 1..Len(e) : e[j] = f[i]
           S == {n \in Nat : \A i \in 1..Len(f) : i <= n => Found(i)}
<1>1. /\ \A i \in 1..Len(e) : e[i] \in 1..Len(s) /\ ValidAt(s, e[i])
      /\ \A i, j \in 1..Len(e) : i < j => e[i] + FrameLen(s, e[i]) <= e[j]
      /\ \A p \in 1..Len(s) : Dead(s, p) \/ \E i \in 1..Len(e) : Within(s, e[i], p)
  BY DEF Parse
<1>2. /\ \A i \in 1..Len(e) : e[i] \in Nat /\ FrameLen(s, e[i]) \in Nat /\ 10 <= FrameLen(s, e[i])
      /\ \A i \in 1..Len(f) : f[i] \in Nat /\ FrameLen(s, f[i]) \in Nat /\ 10 <= FrameLen(s, f[i])
  BY <1>1, ValidEnds
\* Two telegrams of one list that share a byte are the same.
<1>3. ASSUME NEW i \in 1..Len(e), NEW j \in 1..Len(e), Within(s, e[i], e[j])
      PROVE  e[i] = e[j]
  <2>1. /\ e[i] \in Nat /\ e[j] \in Nat /\ FrameLen(s, e[i]) \in Nat /\ FrameLen(s, e[j]) \in Nat
        /\ e[i] <= e[j] /\ e[j] < e[i] + FrameLen(s, e[i]) /\ 10 <= FrameLen(s, e[j])
    BY <1>2, <1>3 DEF Within
  <2>2. /\ i < j => e[i] + FrameLen(s, e[i]) <= e[j]
        /\ j < i => e[j] + FrameLen(s, e[j]) <= e[i]
    BY <1>1
  <2>3. ~(e[i] + FrameLen(s, e[i]) <= e[j]) /\ ~(e[j] + FrameLen(s, e[j]) <= e[i])
    BY <2>1, NotApart
  <2>4. i = j
    BY <2>2, <2>3
  <2> QED
    BY <2>4
<1>4. ASSUME NEW i \in 1..Len(f), NEW j \in 1..Len(f), Within(s, f[i], f[j])
      PROVE  f[i] = f[j]
  <2>1. /\ f[i] \in Nat /\ f[j] \in Nat /\ FrameLen(s, f[i]) \in Nat /\ FrameLen(s, f[j]) \in Nat
        /\ f[i] <= f[j] /\ f[j] < f[i] + FrameLen(s, f[i]) /\ 10 <= FrameLen(s, f[j])
    BY <1>2, <1>4 DEF Within
  <2>2. /\ i < j => f[i] + FrameLen(s, f[i]) <= f[j]
        /\ j < i => f[j] + FrameLen(s, f[j]) <= f[i]
    OBVIOUS
  <2>3. ~(f[i] + FrameLen(s, f[i]) <= f[j]) /\ ~(f[j] + FrameLen(s, f[j]) <= f[i])
    BY <2>1, NotApart
  <2>4. i = j
    BY <2>2, <2>3
  <2> QED
    BY <2>4
<1>5. ASSUME NEW n \in Nat, \A i \in 1..Len(f) : i <= n => Found(i), NEW i \in 1..Len(f), i = n + 1
      PROVE  Found(i)
  <2>1. PICK j \in 1..Len(e) : Within(s, e[j], f[i])
    <3>1. ~Dead(s, f[i])
      BY ThreeCases
    <3> QED
      BY <1>1, <3>1
  <2>2. PICK m \in 1..Len(f) : Within(s, f[m], e[j])
    BY <1>1
  <2>3. CASE m < i
    <3>1. PICK l \in 1..Len(e) : e[l] = f[m]
      <4>1. m <= n
        BY <1>5, <2>3
      <4> QED
        BY <1>5, <4>1
    <3>2. e[l] = e[j]
      BY <1>3, <2>2, <3>1
    <3>3. Within(s, f[m], f[i])
      BY <2>1, <3>1, <3>2
    <3> QED
      BY <1>4, <3>1, <3>3
  <2>4. CASE i <= m
    <3>1. f[m] <= e[j] /\ e[j] <= f[i]
      BY <2>1, <2>2 DEF Within
    <3>2. i < m => f[i] + FrameLen(s, f[i]) <= f[m]
      OBVIOUS
    <3>3. /\ f[i] \in Nat /\ f[m] \in Nat /\ e[j] \in Nat
          /\ FrameLen(s, f[i]) \in Nat /\ 10 <= FrameLen(s, f[i])
      BY <1>2
    <3>4. ~(f[i] + FrameLen(s, f[i]) <= f[m])
      BY <3>1, <3>3, NotBefore
    <3>5. i = m
      BY <2>4, <3>2, <3>4
    <3>6. e[j] = f[i]
      BY <3>1, <3>3, <3>5
    <3> QED
      BY <3>6
  <2>5. m < i \/ i <= m
    OBVIOUS
  <2> QED
    BY <2>3, <2>4, <2>5
<1>6. \A i \in 1..Len(f) : Found(i)
  <2> HIDE DEF Found
  <2>1. 0 \in S
    OBVIOUS
  <2>2. ASSUME NEW n \in Nat, n \in S PROVE n + 1 \in S
    <3>1. ASSUME NEW i \in 1..Len(f), i <= n + 1 PROVE Found(i)
      <4>1. \A h \in 1..Len(f) : h <= n => Found(h)
        BY <2>2
      <4>2. i <= n \/ i = n + 1
        BY <3>1
      <4> QED
        BY <1>5, <4>1, <4>2
    <3> QED
      BY <3>1
  <2>3. Nat \subseteq S
    <3> HIDE DEF S
    <3> QED
      BY <2>1, <2>2, Induction
  <2>4. ASSUME NEW i \in 1..Len(f) PROVE Found(i)
    <3>1. i \in Nat /\ i <= i
      OBVIOUS
    <3> QED
      BY <2>3, <3>1
  <2> QED
    BY <2>4
<1>7. ASSUME NEW j \in 1..Len(e) PROVE \E i \in 1..Len(f) : f[i] = e[j]
  <2>1. PICK m \in 1..Len(f) : Within(s, f[m], e[j])
    BY <1>1
  <2>2. PICK l \in 1..Len(e) : e[l] = f[m]
    BY <1>6
  <2> QED
    BY <1>3, <2>1, <2>2
<1>8. {e[i] : i \in 1..Len(e)} = {f[i] : i \in 1..Len(f)}
  <2>1. \A i \in 1..Len(f) : \E j \in 1..Len(e) : e[j] = f[i]
    BY <1>6
  <2>2. \A j \in 1..Len(e) : \E i \in 1..Len(f) : f[i] = e[j]
    BY <1>7
  <2> DEFINE E == {e[i] : i \in 1..Len(e)}
             F == {f[i] : i \in 1..Len(f)}
  <2>3. E \subseteq F
    BY <2>2, Zenon
  <2>4. F \subseteq E
    BY <2>1, Zenon
  <2> HIDE DEF E, F
  <2>5. E = F
    BY <2>3, <2>4
  <2> QED
    BY <2>5 DEF E, F
<1>9. \A i, j \in 1..Len(e) : i < j => e[i] < e[j]
  <2>1. Len(s) + 1 \in Nat
    OBVIOUS
  <2> QED
    BY <2>1, ParseIncreases
<1>10. ASSUME NEW i \in 1..Len(f), NEW j \in 1..Len(f), i < j PROVE f[i] < f[j]
  <2>1. /\ f[i] \in Nat /\ f[j] \in Nat /\ FrameLen(s, f[i]) \in Nat /\ 10 <= FrameLen(s, f[i])
        /\ f[i] + FrameLen(s, f[i]) <= f[j]
    BY <1>2, <1>10
  <2> QED
    BY <2>1
<1> QED
  BY <1>8, <1>9, <1>10, SameMembers

\* At the end of a stream in which noise and damage did not forge a telegram, and
\* with nothing pending, Feed has returned what the senders sent and arrived
\* intact: all of it, in order, bit 7 restored, and nothing else, however the
\* stream was cut into reads (drain, decodeSubFrames).
THEOREM IntactAreDelivered == Spec => []IntactDelivered
<1>1. ParserInv => IntactDelivered
  <2> SUFFICES ASSUME ParserInv, fed = Len(input.bytes), buf = <<>>, Clean(input)
               PROVE  frames = [i \in DOMAIN input.sent |-> FrameOf(input.sent[i].tg)]
    BY DEF IntactDelivered
  <2> DEFINE s == input.bytes
             q == input.sent
             f == [i \in 1..Len(q) |-> q[i].at]
  <2>1. s \in Seq(Byte) /\ q \in Seq([at : Nat, tg : Telegram]) /\ Len(s) \in Nat
    <3>1. input \in Inputs
      BY DEF ParserInv
    <3>2. input.bytes \in Seq(Byte) /\ input.sent \in Seq([at : Nat, tg : Telegram])
      BY <3>1, StreamAssumption
    <3> QED
      BY <3>2
  <2>2. Seen = s
    BY <2>1, SubSeqFull DEF Seen
  <2>3. PICK c \in Nat, e \in Seq(Nat) : Parse(s, 1, c, e) /\ buf = Rest(s, c) /\ frames = FramesOf(s, e)
    BY <2>2 DEF ParserInv
  <2>4. /\ DOMAIN q = 1..Len(q) /\ Len(q) \in Nat
        /\ \A i \in 1..Len(q) : q[i].at \in Nat /\ q[i].tg \in Telegram
    <3> HIDE DEF q
    <3>1. DOMAIN q = 1..Len(q) /\ Len(q) \in Nat /\ \A i \in 1..Len(q) : q[i] \in [at : Nat, tg : Telegram]
      <4> DEFINE R == [at : Nat, tg : Telegram]
      <4>1. q \in Seq(R)
        BY <2>1
      <4> HIDE DEF R
      <4>2. DOMAIN q = 1..Len(q) /\ Len(q) \in Nat /\ \A i \in 1..Len(q) : q[i] \in R
        BY <4>1
      <4> QED
        BY <4>2 DEF R
    <3> QED
      BY <3>1
  <2>5. /\ \A i \in 1..Len(q) : q[i].at \in 1..Len(s) /\ Carries(s, q[i].at, q[i].tg)
        /\ \A i, j \in 1..Len(q) : i < j => q[i].at + FrameLen(s, q[i].at) <= q[j].at
        /\ \A k \in 1..Len(s) : ValidAt(s, k) => \E i \in 1..Len(q) : Within(s, q[i].at, k)
    BY <2>4 DEF Clean
  <2> HIDE DEF s, q
  <2>6. \A i \in 1..Len(q) : ValidAt(s, q[i].at) /\ FrameAt(s, q[i].at) = FrameOf(q[i].tg)
    BY <2>1, <2>4, <2>5, IntactTelegram
  <2>7. f \in Seq(Nat) /\ Len(f) = Len(q) /\ \A i \in 1..Len(q) : f[i] = q[i].at
    <3>1. f \in [1..Len(q) -> Nat]
      BY <2>4
    <3> QED
      BY <2>4, <3>1, FunctionIsSeq
  <2> HIDE DEF f
  <2>8. c = Len(s) + 1
    <3>1. c \in Nat \ {0} /\ c <= Len(s) + 1
      BY <2>3 DEF Parse
    <3>2. Len(s) = Len(Rest(s, c)) + (c - 1) /\ Len(Rest(s, c)) = 0
      BY <2>1, <2>3, <3>1, RestAligned
    <3> QED
      BY <2>1, <3>1, <3>2
  <2>9. e = f
    <3>1. Parse(s, 1, Len(s) + 1, e)
      BY <2>3, <2>8
    <3>2. /\ \A i \in 1..Len(f) : f[i] \in 1..Len(s) /\ ValidAt(s, f[i])
          /\ \A i, j \in 1..Len(f) : i < j => f[i] + FrameLen(s, f[i]) <= f[j]
          /\ \A k \in 1..Len(s) : ValidAt(s, k) => \E i \in 1..Len(f) : Within(s, f[i], k)
      BY <2>5, <2>6, <2>7
    <3> QED
      BY <2>1, <2>7, <3>1, <3>2, WholeParse
  <2>10. FramesOf(s, f) = [i \in 1..Len(q) |-> FrameOf(q[i].tg)]
    BY <2>6, <2>7 DEF FramesOf
  <2> QED
    BY <2>3, <2>4, <2>9, <2>10 DEF q
<1> QED
  BY <1>1, ParserInvariant, PTL

-------------------------------------------------------------------------------
(***************************************************************************)
(* The type of the frames.                                                 *)
(***************************************************************************)

\* The payload of a sub-frame.
Block == [1..4 -> Byte]

\* A block is a sequence of four bytes.
LEMMA BlockIsSeq ==
  ASSUME NEW b \in Block
  PROVE  b \in Seq(Byte) /\ Len(b) = 4
<1>1. b \in [1..4 -> Byte] /\ 4 \in Nat
  BY DEF Block
<1>2. b \in Seq(Byte)
  BY <1>1, SeqDef
<1> QED
  BY <1>1, <1>2, LenProperties

\* The payload is the blocks put together.
LEMMA FlattenType ==
  ASSUME NEW q \in Seq(Block)
  PROVE  FlattenSeq(q) \in Seq(Byte) /\ Len(FlattenSeq(q)) = 4 * Len(q)
<1>1. CASE Len(q) = 0
  <2>1. q = <<>> /\ FlattenSeq(q) = <<>>
    BY <1>1 DEF FlattenSeq
  <2>2. <<>> \in Seq(Byte) /\ Len(<<>>) = 0
    BY EmptySeq
  <2>3. FlattenSeq(q) \in Seq(Byte) /\ Len(FlattenSeq(q)) = 0
    BY <2>1, <2>2
  <2> QED
    BY <1>1, <2>3
<1>2. CASE Len(q) # 0
  <2> DEFINE D == 1..Len(q)
             m == [k \in D |-> k]
             At(g, k) == IF k = 1 THEN q[k] ELSE g[k - 1] \o q[k]
             H == [gk \in [D -> Seq(Byte)] \X D |-> At(gk[1], gk[2])]
             Solves(f) == f = [k \in D |-> IF k = 1 THEN q[k] ELSE f[k - 1] \o q[k]]
  <2>1. \A k \in D : q[k] \in Block /\ q[k] \in Seq(Byte) /\ Len(q[k]) = 4
    BY BlockIsSeq
  <2>2. \E f : Solves(f)
    <3>1. m \in [D -> Nat] /\ Len(q) + 1 \in Nat /\ \A k \in D : m[k] < Len(q) + 1
      OBVIOUS
    <3>2. ASSUME NEW g \in [D -> Seq(Byte)], NEW k \in D
          PROVE  At(g, k) \in Seq(Byte) /\ H[<<g, k>>] = At(g, k)
      <4>1. CASE k = 1
        BY <2>1, <4>1
      <4>2. CASE k # 1
        <5>1. k - 1 \in D
          BY <4>2
        <5>2. g[k - 1] \in Seq(Byte) /\ q[k] \in Seq(Byte)
          BY <5>1, <2>1
        <5>3. g[k - 1] \o q[k] \in Seq(Byte)
          BY <5>2, ConcatProperties
        <5> QED
          BY <4>2, <5>3
      <4> QED
        BY <4>1, <4>2
    <3>3. H \in [[D -> Seq(Byte)] \X D -> Seq(Byte)]
      <4>1. \A gk \in [D -> Seq(Byte)] \X D : At(gk[1], gk[2]) \in Seq(Byte)
        <5> HIDE DEF At, D
        <5> QED
          BY <3>2
      <4> HIDE DEF At, D
      <4> QED
        BY <4>1
    <3>4. ASSUME NEW g \in [D -> Seq(Byte)], NEW h \in [D -> Seq(Byte)], NEW k \in D,
                 \A j \in D : m[j] < m[k] => g[j] = h[j]
          PROVE  H[<<g, k>>] = H[<<h, k>>]
      <4>1. k # 1 => k - 1 \in D /\ m[k - 1] < m[k]
        OBVIOUS
      <4>2. At(g, k) = At(h, k)
        BY <3>4, <4>1
      <4> HIDE DEF At, H
      <4> QED
        BY <3>2, <4>2
    <3>5. Seq(Byte) # {}
      <4>1. <<>> \in Seq(Byte)
        OBVIOUS
      <4> QED
        BY <4>1
    <3>6. Descends(D, Seq(Byte), m, Len(q) + 1, H)
      <4> HIDE DEF D, m, H
      <4> QED
        BY <3>1, <3>3, <3>4, <3>5 DEF Descends
    <3>7. PICK f \in [D -> Seq(Byte)] : \A k \in D : f[k] = H[<<f, k>>]
      <4> HIDE DEF D, m, H
      <4> QED
        BY <3>6, Recursion
    <3>8. \A k \in D : f[k] = At(f, k)
      <4> HIDE DEF D, At, H
      <4> QED
        BY <3>2, <3>7
    <3>9. Solves(f)
      <4> HIDE DEF D
      <4> QED
        BY <3>7, <3>8
    <3> QED
      BY <3>9
  <2> DEFINE fl == CHOOSE f : Solves(f)
  <2>3. Solves(fl)
    <3> HIDE DEF Solves
    <3> QED
      BY <2>2
  <2>4. FlattenSeq(q) = fl[Len(q)]
    BY <1>2 DEF FlattenSeq
  <2> HIDE DEF fl
  <2>5. \A k \in D : fl[k] = IF k = 1 THEN q[k] ELSE fl[k - 1] \o q[k]
    BY <2>3
  <2> DEFINE S == {n \in Nat : n \in D => fl[n] \in Seq(Byte) /\ Len(fl[n]) = 4 * n}
  <2>6. 0 \in S
    OBVIOUS
  <2>7. ASSUME NEW n \in Nat, n \in S PROVE n + 1 \in S
    <3> SUFFICES ASSUME n + 1 \in D PROVE fl[n + 1] \in Seq(Byte) /\ Len(fl[n + 1]) = 4 * (n + 1)
      OBVIOUS
    <3>1. CASE n = 0
      BY <3>1, <2>1, <2>5
    <3>2. CASE n # 0
      <4>1. fl[n] \in Seq(Byte) /\ Len(fl[n]) = 4 * n
        BY <2>7, <3>2
      <4>2. fl[n + 1] = fl[n] \o q[n + 1]
        <5>1. n + 1 # 1 /\ (n + 1) - 1 = n
          BY <3>2
        <5> QED
          BY <5>1, <2>5
      <4>3. q[n + 1] \in Seq(Byte) /\ Len(q[n + 1]) = 4
        BY <2>1
      <4>4. fl[n] \o q[n + 1] \in Seq(Byte) /\ Len(fl[n] \o q[n + 1]) = Len(fl[n]) + Len(q[n + 1])
        BY <4>1, <4>3, ConcatProperties
      <4> QED
        BY <4>1, <4>2, <4>3, <4>4
    <3> QED
      BY <3>1, <3>2
  <2>8. Nat \subseteq S
    <3> HIDE DEF S
    <3> QED
      BY <2>6, <2>7, Induction
  <2>9. Len(q) \in S /\ Len(q) \in D
    <3>1. Len(q) \in Nat
      OBVIOUS
    <3> HIDE DEF S
    <3> QED
      BY <2>8, <3>1, <1>2
  <2> QED
    BY <2>4, <2>9
<1> QED
  BY <1>1, <1>2

\* The payload of a sub-frame of bytes is a block of bytes: bit 7 is set, never
\* added to a byte that has it (decodeSubFrames).
LEMMA PayloadType ==
  ASSUME NEW sub \in Seq(Byte), Len(sub) = 6
  PROVE  SubFramePayload(sub) \in Block
<1>1. ASSUME NEW b \in Byte PROVE b < 128 => b + 128 \in Byte
  BY DEF Byte
<1>2. ASSUME NEW j \in 1..4
      PROVE  (IF (sub[5] \div Bit[j]) % 2 = 1 /\ sub[j] < 128 THEN sub[j] + 128 ELSE sub[j]) \in Byte
  <2>1. sub[j] \in Byte
    OBVIOUS
  <2> QED
    BY <2>1, <1>1
<1> QED
  BY <1>2 DEF SubFramePayload, Block

\* Two bytes make a number of sixteen bits (binary.LittleEndian.Uint16).
LEMMA SixteenBits ==
  ASSUME NEW x \in Nat, NEW y \in Nat, x <= 255, y <= 255
  PROVE  x + 256 * y \in Uint16
<1>1. x + 256 * y \in Int
  OBVIOUS
<1>2. 0 <= x + 256 * y /\ x + 256 * y < 65536
  OBVIOUS
<1>3. \A z \in Int : 0 <= z /\ z < 65536 => z \in Uint16
  BY DEF Uint16
<1> QED
  BY ONLY <1>1, <1>2, <1>3

LEMMA Uint16Type == \A lo, hi \in Byte : Uint16LE(lo, hi) \in Uint16
BY ByteType, SixteenBits DEF Uint16LE

\* A valid telegram gives a frame, with four bytes for each sub-frame.
LEMMA FrameType ==
  ASSUME NEW s \in Seq(Byte), NEW k \in 1..Len(s), ValidAt(s, k)
  PROVE  /\ FrameAt(s, k) \in Frame
         /\ \E n \in Byte : Len(FrameAt(s, k).payload) = 4 * n
<1> DEFINE n == s[k + 8]
           q == [i \in DOMAIN Body(s, k) |-> SubFramePayload(Body(s, k)[i])]
<1>1. /\ n \in Byte /\ n \in Nat
      /\ DOMAIN Body(s, k) = 1..n
      /\ \A i \in 1..n : Body(s, k)[i] \in Seq(Byte) /\ Len(Body(s, k)[i]) = 6
  BY BodyParts DEF ValidAt
<1>2. q \in [1..n -> Block]
  <2> HIDE DEF n
  <2> QED
    BY <1>1, PayloadType
<1>3. q \in Seq(Block) /\ Len(q) = n
  <2> HIDE DEF q, n
  <2> QED
    BY <1>1, <1>2, FunctionIsSeq
<1>4. FlattenSeq(q) \in Seq(Byte) /\ Len(FlattenSeq(q)) = 4 * n
  <2> HIDE DEF q, n
  <2> QED
    BY <1>3, FlattenType
<1>5. k + 1 \in 1..Len(s) /\ k + 2 \in 1..Len(s) /\ k + 3 \in 1..Len(s) /\ k + 4 \in 1..Len(s)
      /\ k + 6 \in 1..Len(s) /\ k + 7 \in 1..Len(s)
  BY DEF ValidAt, HeaderComplete, HeaderLen
<1>6. /\ Uint16LE(s[k + 1], s[k + 2]) \in Uint16 /\ Uint16LE(s[k + 3], s[k + 4]) \in Uint16
      /\ Uint16LE(s[k + 6], s[k + 7]) \in Uint16
  BY <1>5, Uint16Type
<1>7. FrameAt(s, k) = [dst |-> Uint16LE(s[k + 1], s[k + 2]), src |-> Uint16LE(s[k + 3], s[k + 4]),
                       cmd |-> Uint16LE(s[k + 6], s[k + 7]), payload |-> FlattenSeq(q)]
  BY DEF FrameAt
<1> HIDE DEF q, n
<1> QED
  BY <1>1, <1>4, <1>6, <1>7 DEF Frame

\* Type correctness: whatever bytes arrive, the frames are of the type Decode reads,
\* their payload a multiple of four bytes of at most 1020 (Feed, decodeSubFrames).
THEOREM ParserTypeCorrect == Spec => []ParserTypeOK
<1>1. ParserInv => ParserTypeOK
  <2> SUFFICES ASSUME ParserInv PROVE ParserTypeOK
    OBVIOUS
  <2>1. PICK c \in Nat, e \in Seq(Nat) : Parse(Seen, 1, c, e) /\ frames = FramesOf(Seen, e)
    BY DEF ParserInv
  <2>2. ASSUME NEW i \in 1..Len(e)
        PROVE  FrameAt(Seen, e[i]) \in Frame /\ \E n \in Byte : Len(FrameAt(Seen, e[i]).payload) = 4 * n
    <3>1. e[i] \in 1..Len(Seen) /\ ValidAt(Seen, e[i])
      BY <2>1 DEF Parse
    <3> QED
      BY <3>1, SeenType, FrameType
  <2>3. frames \in [1..Len(e) -> Frame] /\ Len(e) \in Nat
    BY <2>1, <2>2 DEF FramesOf
  <2>4. frames \in Seq(Frame)
    BY <2>3, FunctionIsSeq
  <2>5. \A i \in DOMAIN frames : \E n \in Byte : Len(frames[i].payload) = 4 * n
    BY <2>1, <2>2 DEF FramesOf
  <2>6. input \in Inputs /\ fed \in 0..Len(input.bytes) /\ buf \in Seq(Byte)
    BY BufferWaits DEF ParserInv
  <2> QED
    BY <2>4, <2>5, <2>6 DEF ParserTypeOK
<1> QED
  BY <1>1, ParserInvariant, PTL
===============================================================================
