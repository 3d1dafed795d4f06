---------------------------- MODULE RxPathProofs ----------------------------
(***************************************************************************)
(* Proofs about RxPath, for every size of the ring, every low-water mark    *)
(* and every limit of the DPC, of an adapter that starts the MAC only when  *)
(* NDIS has returned all its frames (WaitForNdis).                         *)
(***************************************************************************)
EXTENDS RxPath, RingLemmas, SequenceTheorems, FiniteSetTheorems

USE RingAssumption

-----------------------------------------------------------------------------
(* The invariant *)

\* The variables of the control flow and of the MAC.
ControlTyped ==
    /\ EnetStarted \in BOOLEAN
    /\ dpc \in {"idle", "queued", "receive", "errors", "async", "sync", "return", "end"}
    /\ MoreNblsPending \in BOOLEAN /\ InterruptFlags \in BOOLEAN
    /\ mac \in Slots /\ rxf \in BOOLEAN /\ eimr \in BOOLEAN
    /\ received \in 0..MaxReceived /\ stops \in 0..MaxStops
RingTyped ==
    /\ SwExt \in [Slots -> Slots \cup {NULL}] /\ buffer \in [Slots -> Slots]
    /\ E \in [Slots -> BOOLEAN] /\ bad \in [Slots -> BOOLEAN]
    /\ Rx_EnetFreeBDIdx \in Slots /\ Rx_EnetPendingBDIdx \in Slots
    /\ Rx_DmaBDT_DmaOwnedBDsCount \in Nat /\ Rx_NdisOwnedBDsCount \in Nat
ListsTyped ==
    /\ errors \in Seq(Slots) /\ async \in Seq(Slots) /\ sync \in Seq(Slots) /\ held \subseteq Slots

\* The frames the DPC works on, and the steps of the DPC at which it has some.
ListsInv ==
    /\ dpc # "errors" => errors = <<>>
    /\ dpc \notin {"errors", "async"} => async = <<>>
    /\ dpc \notin {"errors", "async", "sync", "return"} => sync = <<>>

\* No frame is twice outside of the ring.
Apart(e, a, s, h) ==
    /\ IsInjective(e) /\ IsInjective(a) /\ IsInjective(s)
    /\ ToSet(e) \cap ToSet(a) = {} /\ ToSet(e) \cap ToSet(s) = {} /\ ToSet(a) \cap ToSet(s) = {}
    /\ h \cap ToSet(e) = {} /\ h \cap ToSet(a) = {} /\ h \cap ToSet(s) = {}

Out == held \cup InDpc

\* The counts of the frames in the ring and outside of it.
CountsInv ==
    /\ Rx_NdisOwnedBDsCount = Cardinality(held) + Len(errors) + Len(async) + Len(sync)
    /\ Rx_DmaBDT_DmaOwnedBDsCount + Rx_NdisOwnedBDsCount = Ring

\* How far slot i is from Rx_EnetPendingBDIdx.
Place(i) == (i - Rx_EnetPendingBDIdx) % Ring

\* A ring of the running MAC has the frames that are not outside of it, each once,
\* in the Rx_DmaBDT_DmaOwnedBDsCount descriptors from Rx_EnetPendingBDIdx on.
WindowInv ==
    EnetStarted =>
        /\ Rx_EnetFreeBDIdx = (Rx_EnetPendingBDIdx + Rx_DmaBDT_DmaOwnedBDsCount) % Ring
        /\ \A i \in Slots :
              IF Place(i) < Rx_DmaBDT_DmaOwnedBDsCount
              THEN SwExt[i] \in Slots \ Out /\ buffer[i] = SwExt[i]
              ELSE SwExt[i] = NULL /\ ~E[i]
        /\ \A f \in Slots \ Out : \E i \in Slots : SwExt[i] = f
        /\ \A i, j \in Slots : SwExt[i] # NULL /\ SwExt[i] = SwExt[j] => i = j

FramesInv ==
    /\ ControlTyped /\ RingTyped /\ ListsTyped
    /\ ListsInv /\ Apart(errors, async, sync, held) /\ CountsInv /\ WindowInv

\* The MAC fills the window from its start: the descriptors before mac are full,
\* those from it on are empty.
MacAt(m) ==
    /\ m \in 0..Rx_DmaBDT_DmaOwnedBDsCount
    /\ mac = (Rx_EnetPendingBDIdx + m) % Ring
    /\ \A i \in Slots : Place(i) < Rx_DmaBDT_DmaOwnedBDsCount => (E[i] <=> Place(i) >= m)
Full(i) == Place(i) < Rx_DmaBDT_DmaOwnedBDsCount /\ ~E[i]

\* The frames that are yet to be indicated.
Due == ToSet(async) \cup (IF dpc = "return" THEN {} ELSE ToSet(sync))

\* A list of frames in the order in which they arrived.
Ascending(s) == \A i, j \in DOMAIN s : i < j => number[s[i]] < number[s[j]]

\* Indicated frames, those of the DPC's lists and those in the ring are numbered in
\* the order in which they arrived.
IndicatedInv ==
    /\ number \in [Slots -> 0..MaxReceived] /\ indicated \in Seq(1..MaxReceived)
    /\ InOrder /\ \A i \in DOMAIN indicated : indicated[i] <= received
DueInv ==
    /\ \A f \in ToSet(async) \cup ToSet(sync) : number[f] \in 1..received
    /\ \A i \in DOMAIN indicated : \A f \in Due : indicated[i] < number[f]
    /\ Ascending(async) /\ Ascending(sync)
    /\ \A f \in ToSet(async), g \in ToSet(sync) : number[f] < number[g]

\* The frame of a full descriptor arrived after all that left the ring, and after
\* those of the descriptors before it.
FullAfter(i) ==
    /\ number[SwExt[i]] \in 1..received
    /\ \A j \in DOMAIN indicated : indicated[j] < number[SwExt[i]]
    /\ \A f \in ToSet(async) \cup ToSet(sync) : number[f] < number[SwExt[i]]
    /\ \A j \in Slots : Full(j) /\ Place(i) < Place(j) => number[SwExt[i]] < number[SwExt[j]]
FilledInv ==
    EnetStarted => /\ \E m \in 0..Ring : MacAt(m)
                   /\ \A i \in Slots : Full(i) => FullAfter(i)

OrderInv == IndicatedInv /\ DueInv /\ FilledInv

-----------------------------------------------------------------------------
(* The ring of descriptors. *)

LEMMA SlotPlus ==
    ASSUME NEW p \in Slots, NEW m \in 0..Ring
    PROVE  /\ (p + m) % Ring = IF p + m < Ring THEN p + m ELSE p + m - Ring
           /\ (p + m) % Ring \in Slots
  BY PlacesAfter DEF Slots

LEMMA SlotMinus ==
    ASSUME NEW i \in Slots, NEW p \in Slots
    PROVE  (i - p) % Ring \in Slots /\ (i - p) % Ring \in 0..Ring - 1
  BY PlacesBetween DEF Slots

\* The places of the n descriptors that start c places after p.
LEMMA PlacesBehind ==
    ASSUME NEW p \in Slots, NEW c \in Nat, NEW n \in Nat, c + n <= Ring, NEW i \in Slots
    PROVE  LET k == (i - ((p + c) % Ring)) % Ring
               m == (i - p) % Ring
           IN  /\ k < n <=> c <= m /\ m < c + n
               /\ k < n => k = m - c
<1> DEFINE k == (i - ((p + c) % Ring)) % Ring
           m == (i - p) % Ring
<1>1. c \in 0..Ring /\ Ring \in Nat \ {0} /\ p \in 0..Ring - 1 /\ i \in 0..Ring - 1
  BY DEF Slots
<1>2. k = IF m >= c THEN m - c ELSE m - c + Ring
  BY <1>1, PlacesShift
<1>3. m \in 0..Ring - 1
  BY SlotMinus
<1> HIDE DEF k, m
<1>4. (k < n <=> c <= m /\ m < c + n) /\ (k < n => k = m - c)
  BY <1>1, <1>2, <1>3
<1> QED
  BY <1>4 DEF k, m

\* A list of frames, each there once, is as long as it has frames.
LEMMA ListSize ==
    ASSUME NEW s \in Seq(Slots)
    PROVE  /\ IsFiniteSet(ToSet(s)) /\ ToSet(s) \subseteq Slots
           /\ IsInjective(s) => Cardinality(ToSet(s)) = Len(s)
           /\ \A f \in ToSet(s) : \E j \in 1..Len(s) : s[j] = f
           /\ \A j \in 1..Len(s) : s[j] \in ToSet(s) /\ s[j] \in Slots
<1>1. Len(s) \in Nat /\ DOMAIN s = 1..Len(s) /\ s \in [1..Len(s) -> Slots]
  BY LenProperties
<1>2. ToSet(s) \subseteq Slots /\ \A j \in 1..Len(s) : s[j] \in ToSet(s) /\ s[j] \in Slots
  BY <1>1 DEF ToSet
<1>3. \A f \in ToSet(s) : \E j \in 1..Len(s) : s[j] = f
  BY <1>1 DEF ToSet
<1>4. IsFiniteSet(Slots)
  BY FS_Interval DEF Slots
<1>5. IsFiniteSet(ToSet(s))
  BY <1>2, <1>4, FS_Subset
<1>6. ASSUME IsInjective(s) PROVE Cardinality(ToSet(s)) = Len(s)
  <2>1. s \in Bijection(1..Len(s), ToSet(s))
    <3>1. s \in [1..Len(s) -> ToSet(s)]
      BY <1>1, <1>2
    <3> QED
      BY <1>3, <1>6, <3>1 DEF Bijection, Injection, Surjection
  <2>2. IsFiniteSet(1..Len(s)) /\ Cardinality(1..Len(s)) = Len(s)
    <3>1. \A n \in Nat : IsFiniteSet(1..n) /\ Cardinality(1..n) = n
      BY FS_Interval
    <3> QED
      BY <1>1, <3>1
  <2> QED
    BY <2>1, <2>2, FS_Bijection DEF ExistsBijection
<1> QED
  BY <1>2, <1>3, <1>5, <1>6

\* The frames NDIS returns, as a list.
LEMMA ReturnedList ==
    ASSUME NEW S, S \subseteq Slots
    PROVE  /\ SetToSeq(S) \in Seq(Slots) /\ IsInjective(SetToSeq(S))
           /\ ToSet(SetToSeq(S)) = S /\ Len(SetToSeq(S)) = Cardinality(S)
<1> DEFINE n == Cardinality(S)
           s == SetToSeq(S)
<1>1. IsFiniteSet(S) /\ n \in Nat /\ ExistsBijection(1..n, S)
  <2>1. IsFiniteSet(Slots)
    BY FS_Interval DEF Slots
  <2> QED
    BY <2>1, FS_Subset, FS_CardinalityType
<1>2. \E f \in [1..n -> S] : IsInjective(f)
  BY <1>1 DEF ExistsBijection, Bijection, Injection
<1>3. s \in [1..n -> S] /\ IsInjective(s)
  BY <1>2 DEF SetToSeq
<1> HIDE DEF s
<1>4. s \in Injection(1..n, S)
  BY <1>3 DEF Injection
<1>5. IsFiniteSet(1..n) /\ Cardinality(1..n) = n
  BY <1>1, FS_Interval
<1> HIDE DEF n
<1>6. s \in Surjection(1..n, S)
  <2>1. Cardinality(1..n) = Cardinality(S)
    BY <1>5 DEF n
  <2> QED
    BY <1>1, <1>4, <1>5, <2>1, FS_Injection
<1>7. s \in Seq(Slots) /\ Len(s) = n /\ DOMAIN s = 1..n
  BY <1>1, <1>3
<1>8. ToSet(s) = S
  BY <1>3, <1>6, <1>7 DEF ToSet, Surjection
<1> QED
  BY <1>3, <1>7, <1>8 DEF s, n

\* Frames from outside the ring go back to it: behind the window, where there is
\* room for them, and the window grows by as many descriptors.
LEMMA ReturnWindow ==
    ASSUME RingTyped, WindowInv, Rx_DmaBDT_DmaOwnedBDsCount + Rx_NdisOwnedBDsCount = Ring,
           NEW s \in Seq(Slots), IsInjective(s), ToSet(s) \subseteq Out, Len(s) <= Rx_NdisOwnedBDsCount,
           MpReturnNetBufferLists(s), Out' = Out \ ToSet(s), UNCHANGED EnetStarted
    PROVE  /\ RingTyped' /\ WindowInv'
           /\ Rx_DmaBDT_DmaOwnedBDsCount' + Rx_NdisOwnedBDsCount' = Ring
           /\ Rx_NdisOwnedBDsCount' = Rx_NdisOwnedBDsCount - Len(s)
<1> DEFINE n == Len(s)
           c == Rx_DmaBDT_DmaOwnedBDsCount
           p == Rx_EnetPendingBDIdx
           F == Rx_EnetFreeBDIdx
           k(i) == (i - F) % Ring
<1>0. /\ n \in Nat /\ c \in Nat /\ p \in Slots /\ F \in Slots /\ c + n <= Ring
      /\ \A i \in Slots : k(i) \in 0..Ring - 1
      /\ \A j \in 1..n : s[j] \in Slots /\ s[j] \in ToSet(s)
  BY LenProperties, ListSize, SlotMinus DEF RingTyped
<1>1. /\ c' = c + n /\ Rx_NdisOwnedBDsCount' = Rx_NdisOwnedBDsCount - n /\ p' = p
      /\ SwExt' = [i \in Slots |-> IF EnetStarted /\ k(i) < n THEN s[k(i) + 1] ELSE SwExt[i]]
      /\ buffer' = [i \in Slots |-> IF EnetStarted /\ k(i) < n THEN s[k(i) + 1] ELSE buffer[i]]
      /\ E' = [i \in Slots |-> (EnetStarted /\ k(i) < n) \/ E[i]]
      /\ bad' = [i \in Slots |-> ~(EnetStarted /\ k(i) < n) /\ bad[i]]
      /\ F' = IF EnetStarted THEN (F + n) % Ring ELSE F
  BY DEF MpReturnNetBufferLists
<1>2. Rx_DmaBDT_DmaOwnedBDsCount' + Rx_NdisOwnedBDsCount' = Ring /\ Rx_NdisOwnedBDsCount' \in Nat
  <2>1. \A a, b, d \in Nat : a + b = Ring /\ d <= b => (a + d) + (b - d) = Ring /\ b - d \in Nat
    OBVIOUS
  <2>2. Rx_NdisOwnedBDsCount \in Nat
    BY DEF RingTyped
  <2>3. (c + n) + (Rx_NdisOwnedBDsCount - n) = Ring /\ Rx_NdisOwnedBDsCount - n \in Nat
    <3>1. n \in Nat /\ c \in Nat /\ c + Rx_NdisOwnedBDsCount = Ring /\ n <= Rx_NdisOwnedBDsCount
      BY <1>0
    <3> HIDE DEF n, c
    <3> QED
      BY <2>1, <2>2, <3>1
  <2> QED
    BY <1>1, <2>3
<1>3. RingTyped'
  <2>1. \A i \in Slots : k(i) < n => s[k(i) + 1] \in Slots
    BY <1>0
  <2>2. SwExt' \in [Slots -> Slots \cup {NULL}] /\ buffer' \in [Slots -> Slots]
    BY <1>1, <2>1 DEF RingTyped
  <2>3. E' \in [Slots -> BOOLEAN] /\ bad' \in [Slots -> BOOLEAN]
    BY <1>1, Zenon
  <2>4. F' \in Slots
    <3>1. n \in 0..Ring
      BY <1>0
    <3> QED
      BY <1>0, <1>1, <3>1, SlotPlus
  <2> QED
    BY <1>0, <1>1, <1>2, <2>2, <2>3, <2>4, SMTT(30) DEF RingTyped
<1>4. ASSUME EnetStarted
      PROVE  /\ F' = (p + c') % Ring
             /\ \A i \in Slots :
                   IF Place(i)' < c'
                   THEN SwExt'[i] \in Slots \ Out' /\ buffer'[i] = SwExt'[i]
                   ELSE SwExt'[i] = NULL /\ ~E'[i]
             /\ \A f \in Slots \ Out' : \E i \in Slots : SwExt'[i] = f
             /\ \A i, j \in Slots : SwExt'[i] # NULL /\ SwExt'[i] = SwExt'[j] => i = j
  <2>0. /\ F = (p + c) % Ring
        /\ \A i \in Slots : Place(i)' = (i - p) % Ring /\ Place(i) = (i - p) % Ring
        /\ \A i \in Slots : (i - p) % Ring \in 0..Ring - 1
    BY <1>0, <1>1, <1>4, SlotMinus DEF WindowInv, Place
  <2>1. ASSUME NEW i \in Slots
        PROVE  LET m == (i - p) % Ring
               IN  (k(i) < n <=> c <= m /\ m < c + n) /\ (k(i) < n => k(i) = m - c)
    BY <1>0, <2>0, PlacesBehind
  <2>2. F' = (p + c') % Ring
    <3>1. /\ Ring \in Nat \ {0} /\ p \in 0..Ring - 1 /\ c \in 0..Ring /\ n \in 0..Ring /\ c + n <= Ring
      BY <1>0 DEF Slots
    <3>2. (((p + c) % Ring) + n) % Ring = (p + (c + n)) % Ring
      <4>1. \A a \in 0..Ring - 1, b, d \in 0..Ring : b + d <= Ring =>
               (((a + b) % Ring) + d) % Ring = (a + (b + d)) % Ring
        BY <3>1, PlacesAdd
      <4> HIDE DEF n, c, p
      <4>2. \A b, d \in 0..Ring : b + d <= Ring =>
               (((p + b) % Ring) + d) % Ring = (p + (b + d)) % Ring
        BY <3>1, <4>1, Zenon
      <4>3. \A d \in 0..Ring : c + d <= Ring => (((p + c) % Ring) + d) % Ring = (p + (c + d)) % Ring
        BY <3>1, <4>2, Zenon
      <4> QED
        BY <3>1, <4>3, Zenon
    <3> QED
      BY <1>1, <1>4, <2>0, <3>2
  <2> HIDE DEF n, c, p, F, k
  <2>3. ASSUME NEW i \in Slots
        PROVE  IF k(i) < n
               THEN /\ k(i) + 1 \in 1..n /\ SwExt'[i] = s[k(i) + 1] /\ buffer'[i] = SwExt'[i]
                    /\ SwExt[i] = NULL
               ELSE SwExt'[i] = SwExt[i] /\ buffer'[i] = buffer[i] /\ E'[i] = E[i]
    <3>1. CASE k(i) < n
      <4>1. k(i) + 1 \in 1..n
        BY <1>0, <3>1
      <4>2. ~((i - p) % Ring < c)
        BY <1>0, <2>0, <2>1, <3>1
      <4>3. SwExt[i] = NULL
        BY <1>4, <2>0, <4>2 DEF WindowInv, c
      <4> QED
        BY <1>1, <1>4, <3>1, <4>1, <4>3
    <3>2. CASE ~(k(i) < n)
      <4>1. E[i] \in BOOLEAN
        BY DEF RingTyped
      <4> QED
        BY <1>1, <3>2, <4>1
    <3> QED
      BY <3>1, <3>2
  <2>4. ASSUME NEW i \in Slots
        PROVE  IF Place(i)' < c'
               THEN SwExt'[i] \in Slots \ Out' /\ buffer'[i] = SwExt'[i]
               ELSE SwExt'[i] = NULL /\ ~E'[i]
    <3> DEFINE m == (i - p) % Ring
    <3>1. m \in 0..Ring - 1 /\ Place(i)' = m /\ Place(i) = m
      BY <2>0
    <3>2. IF m < c THEN SwExt[i] \in Slots \ Out /\ buffer[i] = SwExt[i] ELSE SwExt[i] = NULL /\ ~E[i]
      BY <1>4, <3>1 DEF WindowInv, c
    <3>3. (k(i) < n <=> c <= m /\ m < c + n)
      BY <2>1
    <3> HIDE DEF m
    <3>4. CASE k(i) < n
      <4>1. SwExt'[i] \in Slots \ Out' /\ buffer'[i] = SwExt'[i]
        BY <1>0, <2>3, <3>4
      <4> QED
        BY <1>0, <1>1, <3>1, <3>3, <3>4, <4>1
    <3>5. CASE m < c
      <4>1. ~(k(i) < n) /\ m < c'
        BY <1>0, <1>1, <3>1, <3>3, <3>5
      <4> QED
        BY <2>3, <3>1, <3>2, <3>5, <4>1
    <3>6. CASE ~(m < c) /\ ~(k(i) < n)
      <4>1. ~(m < c')
        BY <1>0, <1>1, <3>1, <3>3, <3>6
      <4> QED
        BY <2>3, <3>1, <3>2, <3>6, <4>1
    <3> QED
      BY <3>4, <3>5, <3>6
  <2>5. ASSUME NEW f \in Slots \ Out' PROVE \E i \in Slots : SwExt'[i] = f
    <3>1. CASE f \notin Out
      <4>1. PICK i \in Slots : SwExt[i] = f
        BY <1>4, <3>1 DEF WindowInv
      <4>2. f # NULL
        BY DEF Slots
      <4> QED
        BY <2>3, <4>1, <4>2
    <3>2. CASE f \in ToSet(s)
      <4>1. PICK j \in 1..n : s[j] = f
        BY <3>2, ListSize DEF n
      <4> DEFINE i == (F + (j - 1)) % Ring
      <4>2. j - 1 \in 0..Ring - 1 /\ j - 1 \in 0..Ring /\ j - 1 < n /\ (j - 1) + 1 = j
        BY <1>0, <4>1, SMTT(30)
      <4>3. i \in Slots
        BY <1>0, <4>2, SlotPlus
      <4>4. k(i) = j - 1
        <5>1. Ring \in Nat \ {0} /\ F \in 0..Ring - 1
          BY <1>0 DEF Slots
        <5> QED
          BY <4>2, <5>1, PlaceAt DEF k
      <4> HIDE DEF i
      <4>5. SwExt'[i] = f
        BY <2>3, <4>1, <4>2, <4>3, <4>4
      <4> QED
        BY <4>3, <4>5
    <3> QED
      BY <3>1, <3>2
  <2>6. ASSUME NEW i \in Slots, NEW j \in Slots, SwExt'[i] # NULL, SwExt'[i] = SwExt'[j]
        PROVE  i = j
    <3>0. \A a \in Slots : ~(k(a) < n) /\ SwExt'[a] # NULL => SwExt[a] = SwExt'[a] /\ SwExt[a] \notin Out
      <4> SUFFICES ASSUME NEW a \in Slots, ~(k(a) < n), SwExt'[a] # NULL
                   PROVE  SwExt[a] = SwExt'[a] /\ SwExt[a] \notin Out
        OBVIOUS
      <4>1. SwExt[a] = SwExt'[a]
        BY <2>3
      <4>2. SwExt[a] \in Slots \ Out
        BY <1>4, <4>1 DEF WindowInv
      <4> QED
        BY <4>1, <4>2
    <3>1. CASE k(i) < n /\ k(j) < n
      <4>1. s[k(i) + 1] = s[k(j) + 1] /\ k(i) + 1 \in 1..n /\ k(j) + 1 \in 1..n
        BY <2>3, <2>6, <3>1
      <4>2. k(i) + 1 = k(j) + 1
        BY <4>1, LenProperties DEF IsInjective, n
      <4>3. k(i) \in Int /\ k(j) \in Int /\ F \in 0..Ring - 1 /\ i \in 0..Ring - 1 /\ j \in 0..Ring - 1
        BY <1>0 DEF Slots
      <4>4. k(i) = k(j)
        BY <4>2, <4>3
      <4>5. (F + k(i)) % Ring = i /\ (F + k(j)) % Ring = j
        BY <4>3, PlaceOf DEF k
      <4> QED
        BY <4>4, <4>5
    <3>2. CASE k(i) < n /\ ~(k(j) < n)
      BY <1>0, <2>3, <2>6, <3>0, <3>2
    <3>3. CASE ~(k(i) < n) /\ k(j) < n
      BY <1>0, <2>3, <2>6, <3>0, <3>3
    <3>4. CASE ~(k(i) < n) /\ ~(k(j) < n)
      BY <1>4, <2>6, <3>0, <3>4 DEF WindowInv
    <3> QED
      BY <3>1, <3>2, <3>3, <3>4
  <2> QED
    BY <2>2, <2>4, <2>5, <2>6
<1>5. WindowInv'
  BY <1>1, <1>4 DEF WindowInv
<1> QED
  BY <1>1, <1>2, <1>3, <1>5
-----------------------------------------------------------------------------
(* The frames MpHandleRecvInterrupt takes. *)

\* The frame in the k-th descriptor of the window.
At(k) == SwExt[SlotAt(k)]

\* The loop takes the frames of the first descriptors of the window, which the MAC
\* has filled.
LEMMA TakenFromWindow ==
    ASSUME RingTyped, WindowInv, EnetStarted, Rx_DmaBDT_DmaOwnedBDsCount <= Ring
    PROVE  /\ Taken \in 0..Rx_DmaBDT_DmaOwnedBDsCount
           /\ \A k \in 0..Taken - 1 :
                 /\ SlotAt(k) \in Slots /\ Place(SlotAt(k)) = k
                 /\ ~E[SlotAt(k)] /\ At(k) \in Slots \ Out
           /\ \A k, m \in 0..Taken - 1 : At(k) = At(m) => k = m
<1> DEFINE c == Rx_DmaBDT_DmaOwnedBDsCount
           T == {n \in 0..Ring : \A k \in 0..n - 1 : Readable(k) /\ Good(k) < MaxNbls}
           t == Taken
<1>0. c \in Nat /\ c <= Ring /\ Rx_EnetPendingBDIdx \in Slots
  BY DEF RingTyped
<1>1. t \in T
  <2>1. 0 \in T /\ T \subseteq 0..Ring /\ Ring \in Nat
    OBVIOUS
  <2>2. t = Max(T)
    BY DEF Taken
  <2> HIDE DEF T, t
  <2>3. T # {}
    BY <2>1
  <2> QED
    BY <2>1, <2>2, <2>3, MaxOfBounded
<1>2. t \in 0..Ring /\ \A k \in 0..t - 1 : ~E[SlotAt(k)] /\ c # k
  <2> HIDE DEF t
  <2> QED
    BY <1>1 DEF Readable
<1> HIDE DEF T, c, t
<1>3. t <= c
  BY <1>0, <1>2
<1>4. ASSUME NEW k \in 0..t - 1
      PROVE  /\ SlotAt(k) \in Slots /\ Place(SlotAt(k)) = k
             /\ ~E[SlotAt(k)] /\ At(k) \in Slots \ Out
  <2>1. k \in 0..Ring /\ k \in 0..Ring - 1 /\ k < c
    BY <1>0, <1>2, <1>3
  <2>2. SlotAt(k) \in Slots
    BY <1>0, <2>1, SlotPlus DEF SlotAt
  <2>3. Place(SlotAt(k)) = k
    <3>1. Ring \in Nat \ {0} /\ Rx_EnetPendingBDIdx \in 0..Ring - 1
      BY <1>0 DEF Slots
    <3> QED
      BY <2>1, <3>1, PlaceAt DEF SlotAt, Place
  <2>4. At(k) \in Slots \ Out
    BY <2>1, <2>2, <2>3 DEF WindowInv, At, c
  <2> QED
    BY <1>2, <2>2, <2>3, <2>4
<1>5. ASSUME NEW k \in 0..t - 1, NEW m \in 0..t - 1, At(k) = At(m) PROVE k = m
  <2>1. At(k) # NULL
    BY <1>4 DEF Slots
  <2>2. SlotAt(k) = SlotAt(m)
    BY <1>4, <1>5, <2>1 DEF WindowInv, At
  <2> QED
    BY <1>4, <2>2
<1>6. t \in 0..c
  BY <1>0, <1>2, <1>3
<1> QED
  BY <1>4, <1>5, <1>6 DEF t, c

\* A list of frames taken at the steps of S is in the order of the ring.
InRingOrder(s, S) ==
    \A a, b \in DOMAIN s : a < b => \E k, m \in S : k < m /\ s[a] = At(k) /\ s[b] = At(m)

\* A list of them has each once, in the order of the ring.
LEMMA ListOfTaken ==
    ASSUME NEW n \in 0..Ring, NEW S, S \subseteq 0..n - 1,
           \A k \in 0..n - 1 : At(k) \in Slots,
           \A k, m \in 0..n - 1 : At(k) = At(m) => k = m
    PROVE  /\ FramesTaken(S) \in Seq(Slots) /\ IsInjective(FramesTaken(S))
           /\ ToSet(FramesTaken(S)) = {At(k) : k \in S}
           /\ IsFiniteSet(S) /\ Len(FramesTaken(S)) = Cardinality(S)
           /\ InRingOrder(FramesTaken(S), S)
<1> DEFINE l == Cardinality(S)
           p == ByRank(S)
           F == FramesTaken(S)
<1>1. S \subseteq 0..Ring /\ Ring \in Nat
  OBVIOUS
<1>2. /\ IsFiniteSet(S) /\ l \in Nat
      /\ p \in Bijection(1..l, S)
      /\ \A a, b \in 1..l : a < b => p[a] < p[b]
  BY <1>1, InOrderOfRank
<1>3. F = [j \in 1..l |-> At(p[j])]
  BY DEF FramesTaken, At, ByRank
<1> HIDE DEF p, l, F
<1>4. /\ \A j \in 1..l : p[j] \in S
      /\ \A a, b \in 1..l : p[a] = p[b] => a = b
      /\ \A k \in S : \E j \in 1..l : p[j] = k
  <2>1. p \in [1..l -> S] /\ IsInjective(p)
    BY <1>2 DEF Bijection, Injection
  <2>2. \A k \in S : \E j \in 1..l : p[j] = k
    BY <1>2 DEF Bijection, Surjection
  <2> QED
    BY <2>1, <2>2 DEF IsInjective
<1>5. F \in [1..l -> Slots] /\ DOMAIN F = 1..l
  BY <1>3, <1>4
<1>6. F \in Seq(Slots) /\ Len(F) = l
  BY <1>2, <1>5
<1>7. IsInjective(F)
  <2> SUFFICES ASSUME NEW a \in 1..l, NEW b \in 1..l, F[a] = F[b] PROVE a = b
    BY <1>5 DEF IsInjective
  <2>1. At(p[a]) = At(p[b]) /\ p[a] \in 0..n - 1 /\ p[b] \in 0..n - 1
    BY <1>3, <1>4
  <2> QED
    BY <1>4, <2>1
<1>8. ToSet(F) = {At(k) : k \in S}
  <2>1. \A j \in 1..l : F[j] = At(p[j])
    BY <1>3
  <2>2. ToSet(F) = {F[j] : j \in 1..l}
    BY <1>5 DEF ToSet
  <2>3. ASSUME NEW j \in 1..l PROVE F[j] \in {At(k) : k \in S}
    BY <1>4, <2>1
  <2>4. ASSUME NEW k \in S PROVE At(k) \in ToSet(F)
    <3>1. PICK j \in 1..l : p[j] = k
      BY <1>4
    <3>2. F[j] = At(k)
      BY <2>1, <3>1, Zenon
    <3> QED
      BY <2>2, <3>2
  <2> QED
    BY <2>2, <2>3, <2>4
<1>9. ASSUME NEW a \in 1..l, NEW b \in 1..l, a < b
      PROVE  \E k, m \in S : k < m /\ F[a] = At(k) /\ F[b] = At(m)
  BY <1>2, <1>3, <1>4, <1>9
<1>10. InRingOrder(F, S)
  BY <1>5, <1>9 DEF InRingOrder
<1> QED
  BY <1>2, <1>5, <1>6, <1>7, <1>8, <1>10 DEF F, l

\* The list of bad frames is in reverse.
LEMMA ReversedList ==
    ASSUME NEW s \in Seq(Slots), IsInjective(s)
    PROVE  /\ Reverse(s) \in Seq(Slots) /\ IsInjective(Reverse(s))
           /\ ToSet(Reverse(s)) = ToSet(s) /\ Len(Reverse(s)) = Len(s)
<1> DEFINE l == Len(s)
           r == Reverse(s)
<1>1. l \in Nat /\ DOMAIN s = 1..l /\ s \in [1..l -> Slots]
  BY LenProperties
<1>2. r = [i \in 1..l |-> s[(l - i) + 1]]
  BY DEF Reverse
<1> HIDE DEF l, r
<1>3. \A i \in 1..l : (l - i) + 1 \in 1..l /\ (l - ((l - i) + 1)) + 1 = i
  BY <1>1
<1>4. r \in [1..l -> Slots] /\ DOMAIN r = 1..l
  BY <1>1, <1>2, <1>3
<1>5. r \in Seq(Slots) /\ Len(r) = l
  BY <1>1, <1>4
<1>6. IsInjective(r)
  <2> SUFFICES ASSUME NEW a \in 1..l, NEW b \in 1..l, r[a] = r[b] PROVE a = b
    BY <1>4 DEF IsInjective
  <2>1. (l - a) + 1 = (l - b) + 1
    BY <1>1, <1>2, <1>3 DEF IsInjective
  <2> QED
    BY <1>1, <2>1
<1>7. ToSet(r) = ToSet(s)
  <2>1. \A i \in 1..l : r[i] \in ToSet(s)
    BY <1>1, <1>2, <1>3 DEF ToSet
  <2>2. \A i \in 1..l : s[i] = r[(l - i) + 1]
    BY <1>2, <1>3
  <2>3. \A i \in 1..l : s[i] \in ToSet(r)
    BY <1>3, <1>4, <2>2 DEF ToSet
  <2> QED
    BY <1>1, <1>4, <2>1, <2>3 DEF ToSet
<1> QED
  BY <1>5, <1>6, <1>7 DEF r, l
\* The three lists of MpHandleRecvInterrupt have the frames it takes, each once.
LEMMA ListsOfTaken ==
    ASSUME NEW n \in 0..Ring, NEW B, B \subseteq 0..n - 1, NEW L, L \subseteq (0..n - 1) \ B,
           \A k \in 0..n - 1 : At(k) \in Slots \ held,
           \A k, m \in 0..n - 1 : At(k) = At(m) => k = m,
           errors' = Reverse(FramesTaken(B)), async' = FramesTaken(L),
           sync' = FramesTaken(((0..n - 1) \ B) \ L), held' = held, held \subseteq Slots
    PROVE  /\ ListsTyped' /\ Apart(errors, async, sync, held)'
           /\ Len(errors') + Len(async') + Len(sync') = n
           /\ Out' = held \cup {At(k) : k \in 0..n - 1}
<1> DEFINE s1 == FramesTaken(B)
           s2 == FramesTaken(L)
           M == ((0..n - 1) \ B) \ L
           s3 == FramesTaken(M)
<1>0. n \in Nat /\ M \subseteq 0..n - 1 /\ L \subseteq 0..n - 1
  OBVIOUS
<1>1. /\ s1 \in Seq(Slots) /\ IsInjective(s1) /\ ToSet(s1) = {At(k) : k \in B}
      /\ IsFiniteSet(B) /\ Len(s1) = Cardinality(B)
  BY ListOfTaken
<1>2. /\ s2 \in Seq(Slots) /\ IsInjective(s2) /\ ToSet(s2) = {At(k) : k \in L}
      /\ IsFiniteSet(L) /\ Len(s2) = Cardinality(L)
  BY <1>0, ListOfTaken
<1>3. /\ s3 \in Seq(Slots) /\ IsInjective(s3) /\ ToSet(s3) = {At(k) : k \in M}
      /\ IsFiniteSet(M) /\ Len(s3) = Cardinality(M)
  <2> HIDE DEF M
  <2> QED
    BY <1>0, ListOfTaken
<1>4. /\ errors' \in Seq(Slots) /\ IsInjective(errors') /\ ToSet(errors') = ToSet(s1)
      /\ Len(errors') = Len(s1)
  <2> HIDE DEF s1
  <2> QED
    BY <1>1, ReversedList DEF s1
<1>5. Cardinality(B) + Cardinality(L) + Cardinality(M) = n
  <2>1. IsFiniteSet(0..n - 1) /\ Cardinality(0..n - 1) = n
    BY <1>0, FS_Interval
  <2> DEFINE U == (0..n - 1) \ B
  <2>2. IsFiniteSet(U) /\ Cardinality(U) = n - Cardinality(B)
    <3>1. (0..n - 1) \cap B = B
      OBVIOUS
    <3> QED
      BY <2>1, <3>1, FS_Difference
  <2>3. Cardinality(M) = Cardinality(U) - Cardinality(L)
    <3>1. U \cap L = L /\ M = U \ L
      OBVIOUS
    <3> HIDE DEF U, M
    <3> QED
      BY <2>2, <3>1, FS_Difference
  <2>4. Cardinality(B) \in Nat /\ Cardinality(L) \in Nat
    BY <1>1, <1>2, FS_CardinalityType
  <2> HIDE DEF U, M
  <2> QED
    BY <1>0, <2>2, <2>3, <2>4
<1>6. B \cap L = {} /\ B \cap M = {} /\ L \cap M = {} /\ B \cup L \cup M = 0..n - 1
  OBVIOUS
<1> HIDE DEF s1, s2, s3, M
<1>7. ListsTyped'
  BY <1>2, <1>3, <1>4 DEF ListsTyped, s2, s3, M
<1>8. \A k, m \in 0..n - 1 : k # m => At(k) # At(m)
  OBVIOUS
<1>9. ToSet(errors') = {At(k) : k \in B} /\ ToSet(async') = {At(k) : k \in L}
      /\ ToSet(sync') = {At(k) : k \in M}
  BY <1>1, <1>2, <1>3, <1>4 DEF s2, s3, M
<1>10. /\ ToSet(errors') \cap ToSet(async') = {} /\ ToSet(errors') \cap ToSet(sync') = {}
       /\ ToSet(async') \cap ToSet(sync') = {}
  <2>1. ASSUME NEW X, NEW Y, X \subseteq 0..n - 1, Y \subseteq 0..n - 1, X \cap Y = {}
        PROVE  {At(k) : k \in X} \cap {At(k) : k \in Y} = {}
    BY <1>8, <2>1
  <2> QED
    BY <1>0, <1>6, <1>9, <2>1
<1>11. ToSet(errors') \cup ToSet(async') \cup ToSet(sync') = {At(k) : k \in 0..n - 1}
  <2>1. ASSUME NEW X, NEW Y, NEW Z, X \cup Y \cup Z = 0..n - 1
        PROVE  {At(k) : k \in X} \cup {At(k) : k \in Y} \cup {At(k) : k \in Z}
                  = {At(k) : k \in 0..n - 1}
    BY <2>1, Zenon
  <2>2. {At(k) : k \in B} \cup {At(k) : k \in L} \cup {At(k) : k \in M}
           = {At(k) : k \in 0..n - 1}
    BY <1>6, <2>1, SMTT(30)
  <2> QED
    BY <1>9, <2>2, Zenon
<1>12. Apart(errors, async, sync, held)'
  <2>1. held \cap {At(k) : k \in 0..n - 1} = {}
    OBVIOUS
  <2>2. IsInjective(async') /\ IsInjective(sync')
    BY <1>2, <1>3 DEF s2, s3, M
  <2>3. held' \cap ToSet(errors') = {} /\ held' \cap ToSet(async') = {} /\ held' \cap ToSet(sync') = {}
    BY <1>11, <2>1
  <2> QED
    BY <1>4, <1>10, <2>2, <2>3 DEF Apart
<1>13. Len(errors') + Len(async') + Len(sync') = n
  BY <1>1, <1>2, <1>3, <1>4, <1>5 DEF s2, s3, M
<1>14. Out' = held \cup {At(k) : k \in 0..n - 1}
  BY <1>11 DEF Out, InDpc
<1> QED
  BY <1>7, <1>12, <1>13, <1>14
\* When MpHandleRecvInterrupt takes n frames, the window shrinks by as many
\* descriptors at its start.
LEMMA TakeWindow ==
    ASSUME RingTyped, WindowInv, EnetStarted,
           NEW n \in 0..Rx_DmaBDT_DmaOwnedBDsCount, Rx_DmaBDT_DmaOwnedBDsCount <= Ring,
           \A k \in 0..n - 1 : SlotAt(k) \in Slots /\ Place(SlotAt(k)) = k /\ ~E[SlotAt(k)],
           SwExt' = [i \in Slots |-> IF Place(i) < n THEN NULL ELSE SwExt[i]],
           Rx_EnetPendingBDIdx' = (Rx_EnetPendingBDIdx + n) % Ring,
           Rx_DmaBDT_DmaOwnedBDsCount' = Rx_DmaBDT_DmaOwnedBDsCount - n,
           UNCHANGED <<EnetStarted, buffer, E, Rx_EnetFreeBDIdx>>,
           Out' = Out \cup {At(k) : k \in 0..n - 1}
    PROVE  WindowInv'
<1> DEFINE c == Rx_DmaBDT_DmaOwnedBDsCount
           p == Rx_EnetPendingBDIdx
<1>0. c \in Nat /\ p \in Slots /\ p \in 0..Ring - 1 /\ n \in Nat /\ n \in 0..Ring /\ n <= c /\ c <= Ring
  BY DEF RingTyped, Slots
<1>1. ASSUME NEW i \in Slots
      PROVE  /\ Place(i) \in 0..Ring - 1
             /\ Place(i)' = IF Place(i) >= n THEN Place(i) - n ELSE Place(i) - n + Ring
  <2>1. i \in 0..Ring - 1 /\ Ring \in Nat \ {0}
    BY DEF Slots
  <2>2. Place(i) \in 0..Ring - 1
    BY <1>0, SlotMinus DEF Place
  <2>3. Place(i)' = (i - ((p + n) % Ring)) % Ring
    BY DEF Place
  <2> QED
    BY <1>0, <2>1, <2>2, <2>3, PlacesShift DEF Place
<1>2. ASSUME NEW i \in Slots, Place(i) < n
      PROVE  Place(i) \in 0..n - 1 /\ SlotAt(Place(i)) = i /\ At(Place(i)) = SwExt[i] /\ ~E[i]
  <2>1. Place(i) \in 0..n - 1
    BY <1>0, <1>1, <1>2
  <2>2. SlotAt(Place(i)) = i
    <3>1. i \in 0..Ring - 1 /\ Ring \in Nat \ {0}
      BY DEF Slots
    <3> QED
      BY <1>0, <3>1, PlaceOf DEF SlotAt, Place
  <2> QED
    BY <2>1, <2>2 DEF At
<1>3. (Rx_EnetFreeBDIdx = (p + c) % Ring)' 
  <2>1. Rx_EnetFreeBDIdx = (p + c) % Ring
    BY DEF WindowInv
  <2>2. c - n \in 0..Ring /\ n + (c - n) <= Ring /\ n + (c - n) = c /\ Ring \in Nat \ {0}
    BY <1>0
  <2>3. (((p + n) % Ring) + (c - n)) % Ring = (p + (n + (c - n))) % Ring
    BY <1>0, <2>2, PlacesAdd
  <2> QED
    BY <2>1, <2>2, <2>3
<1>4. ASSUME NEW i \in Slots
      PROVE  IF Place(i) < c THEN SwExt[i] \in Slots \ Out /\ buffer[i] = SwExt[i]
             ELSE SwExt[i] = NULL /\ ~E[i]
  BY DEF WindowInv
<1>5. ASSUME NEW i \in Slots, NEW j \in Slots, SwExt[i] # NULL, SwExt[i] = SwExt[j] PROVE i = j
  BY <1>5 DEF WindowInv
<1>6. c' = c - n
  OBVIOUS
<1> HIDE DEF c, p
<1>7. ASSUME NEW i \in Slots
      PROVE  IF Place(i)' < c'
             THEN SwExt'[i] \in Slots \ Out' /\ buffer'[i] = SwExt'[i]
             ELSE SwExt'[i] = NULL /\ ~E'[i]
  <2>1. CASE Place(i) < n
    <3>1. ~(Place(i)' < c')
      BY <1>0, <1>1, <1>6, <2>1
    <3> QED
      BY <1>2, <2>1, <3>1
  <2>2. CASE ~(Place(i) < n) /\ Place(i) < c
    <3>1. SwExt'[i] = SwExt[i] /\ SwExt[i] \in Slots \ Out /\ buffer[i] = SwExt[i]
      BY <1>4, <2>2
    <3>2. ASSUME NEW k \in 0..n - 1, SwExt[i] = At(k) PROVE FALSE
      <4>1. SwExt[i] # NULL
        BY <3>1 DEF Slots
      <4>2. i = SlotAt(k)
        BY <1>5, <3>2, <4>1 DEF At
      <4> QED
        BY <1>0, <2>2, <4>2
    <3>3. SwExt'[i] \in Slots \ Out'
      BY <3>1, <3>2
    <3>4. Place(i)' < c'
      BY <1>0, <1>1, <1>6, <2>2
    <3> QED
      BY <3>1, <3>3, <3>4
  <2>3. CASE ~(Place(i) < n) /\ ~(Place(i) < c)
    <3>1. ~(Place(i)' < c')
      BY <1>0, <1>1, <1>6, <2>3
    <3> QED
      BY <1>4, <2>3, <3>1
  <2> QED
    BY <2>1, <2>2, <2>3
<1>8. ASSUME NEW f \in Slots \ Out' PROVE \E i \in Slots : SwExt'[i] = f
  <2>1. PICK i \in Slots : SwExt[i] = f
    BY DEF WindowInv
  <2>2. ~(Place(i) < n)
    BY <1>2, <2>1
  <2> QED
    BY <2>1, <2>2
<1>9. ASSUME NEW i \in Slots, NEW j \in Slots, SwExt'[i] # NULL, SwExt'[i] = SwExt'[j] PROVE i = j
  BY <1>5, <1>9
<1> QED
  BY <1>3, <1>7, <1>8, <1>9 DEF WindowInv, c, p

LEMMA ReceiveKeepsFrames ==
    ASSUME FramesInv, MpHandleRecvInterrupt
    PROVE  FramesInv'
<1> DEFINE n == Taken
           good == {k \in 0..n - 1 : ~bad[SlotAt(k)]}
           lent == {k \in good : IsAsync(k)}
           B == (0..n - 1) \ good
           c == Rx_DmaBDT_DmaOwnedBDsCount
<1>1. /\ dpc = "receive" /\ EnetStarted /\ dpc' = "errors"
      /\ errors = <<>> /\ async = <<>> /\ sync = <<>>
      /\ RingTyped /\ WindowInv /\ ListsTyped /\ CountsInv /\ ControlTyped
  BY DEF FramesInv, ListsInv, MpHandleRecvInterrupt
<1>2. /\ errors' = Reverse(FramesTaken(B)) /\ async' = FramesTaken(lent)
      /\ sync' = FramesTaken(good \ lent)
      /\ MoreNblsPending' = (n < Ring /\ Readable(n) /\ Good(n) >= MaxNbls)
      /\ SwExt' = [i \in Slots |-> IF Place(i) < n THEN NULL ELSE SwExt[i]]
      /\ Rx_EnetPendingBDIdx' = (Rx_EnetPendingBDIdx + n) % Ring
      /\ Rx_DmaBDT_DmaOwnedBDsCount' = Rx_DmaBDT_DmaOwnedBDsCount - n
      /\ Rx_NdisOwnedBDsCount' = Rx_NdisOwnedBDsCount + n
      /\ UNCHANGED <<EnetStarted, buffer, E, bad, Rx_EnetFreeBDIdx, InterruptFlags, held,
                     mac, rxf, eimr, histVars, stops>>
  BY DEF MpHandleRecvInterrupt, Place
<1>3. Out = held
  BY <1>1 DEF Out, InDpc, ToSet
<1>4. c \in Nat /\ c <= Ring /\ Rx_NdisOwnedBDsCount \in Nat /\ Rx_EnetPendingBDIdx \in Slots
  BY <1>1 DEF RingTyped, CountsInv
<1>5. /\ n \in 0..c
      /\ \A k \in 0..n - 1 :
            /\ SlotAt(k) \in Slots /\ Place(SlotAt(k)) = k
            /\ ~E[SlotAt(k)] /\ At(k) \in Slots \ Out
      /\ \A k, m \in 0..n - 1 : At(k) = At(m) => k = m
  BY <1>1, <1>4, TakenFromWindow
<1>6. B \subseteq 0..n - 1 /\ lent \subseteq (0..n - 1) \ B /\ good \ lent = ((0..n - 1) \ B) \ lent
  OBVIOUS
<1> HIDE DEF n, B, good, lent
<1>7. n \in 0..Ring /\ n \in Nat
  BY <1>4, <1>5
<1>8. /\ ListsTyped' /\ Apart(errors, async, sync, held)'
      /\ Len(errors') + Len(async') + Len(sync') = n
      /\ Out' = held \cup {At(k) : k \in 0..n - 1}
  <2>1. /\ \A k \in 0..n - 1 : At(k) \in Slots \ held
        /\ \A k, m \in 0..n - 1 : At(k) = At(m) => k = m
    BY <1>3, <1>5
  <2>2. sync' = FramesTaken(((0..n - 1) \ B) \ lent) /\ held' = held /\ held \subseteq Slots
    BY <1>1, <1>2, <1>6 DEF ListsTyped
  <2>3. errors' = Reverse(FramesTaken(B)) /\ async' = FramesTaken(lent)
    BY <1>2
  <2> QED
    BY <1>6, <1>7, <2>1, <2>2, <2>3, ListsOfTaken
<1>9. WindowInv'
  <2>1. \A k \in 0..n - 1 : SlotAt(k) \in Slots /\ Place(SlotAt(k)) = k /\ ~E[SlotAt(k)]
    BY <1>5
  <2>2. Out' = Out \cup {At(k) : k \in 0..n - 1}
    BY <1>3, <1>8
  <2>3. UNCHANGED <<EnetStarted, buffer, E, Rx_EnetFreeBDIdx>>
    BY <1>2
  <2>4. /\ n \in 0..Rx_DmaBDT_DmaOwnedBDsCount /\ Rx_DmaBDT_DmaOwnedBDsCount <= Ring
        /\ RingTyped /\ WindowInv /\ EnetStarted
    BY <1>1, <1>4, <1>5
  <2>5. /\ SwExt' = [i \in Slots |-> IF Place(i) < n THEN NULL ELSE SwExt[i]]
        /\ Rx_EnetPendingBDIdx' = (Rx_EnetPendingBDIdx + n) % Ring
        /\ Rx_DmaBDT_DmaOwnedBDsCount' = Rx_DmaBDT_DmaOwnedBDsCount - n
    BY <1>2
  <2> QED
    BY <2>1, <2>2, <2>3, <2>4, <2>5, TakeWindow
<1>10. RingTyped'
  <2>1. SwExt' \in [Slots -> Slots \cup {NULL}]
    BY <1>1, <1>2 DEF RingTyped
  <2>2. Rx_EnetPendingBDIdx' \in Slots
    BY <1>2, <1>4, <1>7, SlotPlus
  <2>3. Rx_DmaBDT_DmaOwnedBDsCount' \in Nat /\ Rx_NdisOwnedBDsCount' \in Nat
    BY <1>2, <1>4, <1>5, <1>7
  <2> QED
    BY <1>1, <1>2, <2>1, <2>2, <2>3 DEF RingTyped
<1>11. CountsInv'
  <2>1. IsFiniteSet(held)
    <3>1. IsFiniteSet(Slots)
      BY FS_Interval DEF Slots
    <3> QED
      BY <1>1, <3>1, FS_Subset DEF ListsTyped
  <2>2. Cardinality(held) \in Nat
    BY <2>1, FS_CardinalityType
  <2>3. Rx_NdisOwnedBDsCount = Cardinality(held) /\ c + Rx_NdisOwnedBDsCount = Ring
    BY <1>1, <2>2 DEF CountsInv
  <2>4. Len(errors') \in Nat /\ Len(async') \in Nat /\ Len(sync') \in Nat
    BY <1>8, LenProperties DEF ListsTyped
  <2>5. Rx_NdisOwnedBDsCount' = Cardinality(held') + Len(errors') + Len(async') + Len(sync')
    <3>1. held' = held /\ Rx_NdisOwnedBDsCount' = Cardinality(held) + n
      BY <1>2, <2>3
    <3>2. \A a, b, d, e \in Nat : b + d + e = n => a + n = a + b + d + e
      OBVIOUS
    <3> QED
      BY <1>7, <1>8, <2>2, <2>4, <3>1, <3>2
  <2>6. Rx_DmaBDT_DmaOwnedBDsCount' + Rx_NdisOwnedBDsCount' = Ring
    <3>1. \A a, b \in Nat : (a - n) + (b + n) = a + b
      BY <1>7
    <3> QED
      BY <1>2, <1>4, <2>3, <3>1
  <2> QED
    BY <2>5, <2>6 DEF CountsInv
<1>12. ControlTyped'
  <2>1. MoreNblsPending' \in BOOLEAN
    BY <1>2, Zenon
  <2> QED
    BY <1>1, <1>2, <2>1 DEF ControlTyped, histVars
<1>13. ListsInv'
  BY <1>1 DEF ListsInv
<1> QED
  BY <1>8, <1>9, <1>10, <1>11, <1>12, <1>13 DEF FramesInv
-----------------------------------------------------------------------------
(* The frames in the ring and outside of it. *)

LEMMA HeldFinite ==
    ASSUME ListsTyped
    PROVE  /\ IsFiniteSet(Slots) /\ Cardinality(Slots) = Ring
           /\ IsFiniteSet(held) /\ Cardinality(held) \in Nat
           /\ Len(errors) \in Nat /\ Len(async) \in Nat /\ Len(sync) \in Nat
<1>1. IsFiniteSet(Slots) /\ Cardinality(Slots) = Ring
  BY FS_Interval DEF Slots
<1>2. IsFiniteSet(held)
  BY <1>1, FS_Subset DEF ListsTyped
<1>3. Cardinality(held) \in Nat
  BY <1>2, FS_CardinalityType
<1> QED
  BY <1>1, <1>2, <1>3, LenProperties DEF ListsTyped

\* A return of frames that are outside of the ring, whoever has them.
LEMMA ReturnKeepsFrames ==
    ASSUME FramesInv, NEW s \in Seq(Slots), IsInjective(s), ToSet(s) \subseteq Out,
           Len(s) <= Rx_NdisOwnedBDsCount, MpReturnNetBufferLists(s),
           Out' = Out \ ToSet(s), UNCHANGED EnetStarted,
           ControlTyped', ListsTyped', ListsInv', Apart(errors, async, sync, held)',
           Cardinality(held') + Len(errors') + Len(async') + Len(sync')
              = (Cardinality(held) + Len(errors) + Len(async) + Len(sync)) - Len(s)
    PROVE  FramesInv'
<1>1. RingTyped /\ WindowInv /\ CountsInv
  BY DEF FramesInv
<1>2. Rx_DmaBDT_DmaOwnedBDsCount + Rx_NdisOwnedBDsCount = Ring
  BY <1>1 DEF CountsInv
<1>3. /\ RingTyped' /\ WindowInv'
      /\ Rx_DmaBDT_DmaOwnedBDsCount' + Rx_NdisOwnedBDsCount' = Ring
      /\ Rx_NdisOwnedBDsCount' = Rx_NdisOwnedBDsCount - Len(s)
  BY <1>1, <1>2, ReturnWindow
<1>4. Rx_NdisOwnedBDsCount' = Cardinality(held') + Len(errors') + Len(async') + Len(sync')
  BY <1>1, <1>3 DEF CountsInv
<1>5. CountsInv'
  BY <1>3, <1>4 DEF CountsInv
<1> QED
  BY <1>3, <1>5 DEF FramesInv

LEMMA NdisReturnsKeepsFrames ==
    ASSUME FramesInv, NdisReturns
    PROVE  FramesInv'
<1>1. PICK S \in SUBSET held \ {{}} :
        /\ held' = held \ S
        /\ MpReturnNetBufferLists(SetToSeq(S))
        /\ UNCHANGED <<EnetStarted, dpc, listVars, InterruptFlags, mac, rxf, eimr, histVars, stops>>
  BY DEF NdisReturns
<1> DEFINE s == SetToSeq(S)
<1>2. /\ ControlTyped /\ ListsTyped /\ ListsInv /\ Apart(errors, async, sync, held) /\ CountsInv
      /\ S \subseteq held /\ held \subseteq Slots
  BY <1>1 DEF FramesInv, ListsTyped
<1>3. s \in Seq(Slots) /\ IsInjective(s) /\ ToSet(s) = S /\ Len(s) = Cardinality(S)
  BY <1>2, ReturnedList
<1> HIDE DEF s
<1>4. UNCHANGED <<errors, async, sync, EnetStarted, dpc>> /\ held' = held \ S
  BY <1>1 DEF listVars
<1>5. Out' = Out \ ToSet(s) /\ ToSet(s) \subseteq Out
  BY <1>2, <1>3, <1>4 DEF Out, InDpc, Apart
<1>6. /\ Cardinality(S) <= Cardinality(held) /\ Cardinality(S) \in Nat
      /\ Cardinality(held') = Cardinality(held) - Cardinality(S)
  <2>1. IsFiniteSet(held) /\ IsFiniteSet(S)
    BY <1>2, HeldFinite, FS_Subset
  <2>2. held \cap S = S
    BY <1>2
  <2> QED
    BY <1>2, <1>4, <2>1, <2>2, FS_Difference, FS_Subset, FS_CardinalityType
<1>7. /\ Len(s) <= Rx_NdisOwnedBDsCount
      /\ Cardinality(held') + Len(errors') + Len(async') + Len(sync')
              = (Cardinality(held) + Len(errors) + Len(async) + Len(sync)) - Len(s)
  <2>1. \A h, d, a, b, e \in Nat : d <= h =>
           d <= h + a + b + e /\ (h - d) + a + b + e = (h + a + b + e) - d
    OBVIOUS
  <2> QED
    BY <1>2, <1>3, <1>4, <1>6, <2>1, HeldFinite DEF CountsInv
<1>8. ControlTyped' /\ ListsTyped' /\ ListsInv' /\ Apart(errors, async, sync, held)'
  <2>1. ControlTyped'
    BY <1>1, <1>2 DEF ControlTyped, listVars, histVars
  <2>2. ListsTyped'
    BY <1>2, <1>4 DEF ListsTyped
  <2>3. ListsInv'
    BY <1>2, <1>4 DEF ListsInv
  <2>4. Apart(errors, async, sync, held)'
    BY <1>2, <1>4 DEF Apart
  <2> QED
    BY <2>1, <2>2, <2>3, <2>4
<1>9. MpReturnNetBufferLists(s) /\ UNCHANGED EnetStarted
  BY <1>1 DEF s
<1> QED
  BY <1>3, <1>5, <1>7, <1>8, <1>9, ReturnKeepsFrames

LEMMA EmptyList ==
    /\ <<>> \in Seq(Slots) /\ IsInjective(<<>>) /\ ToSet(<<>>) = {} /\ Len(<<>>) = 0
    /\ \A s \in Seq(Slots) : s = <<>> => ToSet(s) = {} /\ Len(s) = 0
  BY DEF IsInjective, ToSet

LEMMA DpcReturnsErrorsKeepsFrames ==
    ASSUME FramesInv, DpcReturnsErrors
    PROVE  FramesInv'
<1>1. /\ dpc = "errors" /\ dpc' = "async" /\ errors' = <<>> /\ MpReturnNetBufferLists(errors)
      /\ UNCHANGED <<EnetStarted, async, sync, MoreNblsPending, InterruptFlags, held, mac, rxf, eimr,
                     histVars, stops>>
  BY DEF DpcReturnsErrors
<1>2. ControlTyped /\ ListsTyped /\ ListsInv /\ Apart(errors, async, sync, held) /\ CountsInv
  BY DEF FramesInv
<1>3. errors \in Seq(Slots) /\ IsInjective(errors)
  BY <1>2 DEF ListsTyped, Apart
<1>4. Out' = Out \ ToSet(errors) /\ ToSet(errors) \subseteq Out
  <2>1. ToSet(errors') = {} /\ held' = held /\ async' = async /\ sync' = sync
    BY <1>1, EmptyList
  <2> QED
    BY <1>2, <2>1 DEF Out, InDpc, Apart
<1>5. /\ Len(errors) <= Rx_NdisOwnedBDsCount
      /\ Cardinality(held') + Len(errors') + Len(async') + Len(sync')
              = (Cardinality(held) + Len(errors) + Len(async) + Len(sync)) - Len(errors)
  <2>1. \A h, a, b, e \in Nat :
           e <= h + e + a + b /\ h + 0 + a + b = (h + e + a + b) - e
    OBVIOUS
  <2>2. Len(errors') = 0 /\ held' = held /\ async' = async /\ sync' = sync
    BY <1>1, EmptyList
  <2> QED
    BY <1>2, <2>1, <2>2, HeldFinite DEF CountsInv
<1>6. ControlTyped' /\ ListsTyped' /\ ListsInv' /\ Apart(errors, async, sync, held)'
  <2>1. ControlTyped'
    BY <1>1, <1>2 DEF ControlTyped, histVars
  <2>2. ListsTyped'
    BY <1>1, <1>2 DEF ListsTyped
  <2>3. ListsInv'
    BY <1>1, <1>2 DEF ListsInv
  <2>4. Apart(errors, async, sync, held)'
    <3>1. IsInjective(errors') /\ ToSet(errors') = {}
      BY <1>1, EmptyList
    <3> QED
      BY <1>1, <1>2, <3>1 DEF Apart
  <2> QED
    BY <2>1, <2>2, <2>3, <2>4
<1> QED
  BY <1>1, <1>3, <1>4, <1>5, <1>6, ReturnKeepsFrames

LEMMA DpcReturnsSyncKeepsFrames ==
    ASSUME FramesInv, DpcReturnsSync
    PROVE  FramesInv'
<1>1. /\ dpc = "return" /\ dpc' = "end" /\ sync' = <<>> /\ MpReturnNetBufferLists(sync)
      /\ UNCHANGED <<EnetStarted, errors, async, MoreNblsPending, InterruptFlags, held, mac, rxf, eimr,
                     histVars, stops>>
  BY DEF DpcReturnsSync
<1>2. ControlTyped /\ ListsTyped /\ ListsInv /\ Apart(errors, async, sync, held) /\ CountsInv
  BY DEF FramesInv
<1>3. sync \in Seq(Slots) /\ IsInjective(sync)
  BY <1>2 DEF ListsTyped, Apart
<1>4. Out' = Out \ ToSet(sync) /\ ToSet(sync) \subseteq Out
  <2>1. ToSet(sync') = {} /\ held' = held /\ async' = async /\ errors' = errors
    BY <1>1, EmptyList
  <2> QED
    BY <1>2, <2>1 DEF Out, InDpc, Apart
<1>5. /\ Len(sync) <= Rx_NdisOwnedBDsCount
      /\ Cardinality(held') + Len(errors') + Len(async') + Len(sync')
              = (Cardinality(held) + Len(errors) + Len(async) + Len(sync)) - Len(sync)
  <2>1. \A h, a, b, e \in Nat :
           b <= h + e + a + b /\ h + e + a + 0 = (h + e + a + b) - b
    OBVIOUS
  <2>2. Len(sync') = 0 /\ held' = held /\ async' = async /\ errors' = errors
    BY <1>1, EmptyList
  <2> QED
    BY <1>2, <2>1, <2>2, HeldFinite DEF CountsInv
<1>6. ControlTyped' /\ ListsTyped' /\ ListsInv' /\ Apart(errors, async, sync, held)'
  <2>1. ControlTyped'
    BY <1>1, <1>2 DEF ControlTyped, histVars
  <2>2. ListsTyped'
    BY <1>1, <1>2 DEF ListsTyped
  <2>3. ListsInv'
    BY <1>1, <1>2 DEF ListsInv
  <2>4. Apart(errors, async, sync, held)'
    <3>1. IsInjective(sync') /\ ToSet(sync') = {}
      BY <1>1, EmptyList
    <3> QED
      BY <1>1, <1>2, <3>1 DEF Apart
  <2> QED
    BY <2>1, <2>2, <2>3, <2>4
<1> QED
  BY <1>1, <1>3, <1>4, <1>5, <1>6, ReturnKeepsFrames
\* The MAC fills a descriptor of the window.
LEMMA MacReceivesKeepsFrames ==
    ASSUME FramesInv, MacReceives
    PROVE  FramesInv'
<1>1. /\ EnetStarted /\ E[mac] /\ received < MaxReceived
      /\ E' = [E EXCEPT ![mac] = FALSE]
      /\ received' = received + 1 /\ mac' = (mac + 1) % Ring /\ rxf' = TRUE
      /\ UNCHANGED <<EnetStarted, SwExt, buffer, Rx_EnetFreeBDIdx, Rx_EnetPendingBDIdx, countVars,
                     dpc, listVars, InterruptFlags, held, eimr, indicated, stops>>
  BY DEF MacReceives
<1>2. PICK err \in BOOLEAN : bad' = [bad EXCEPT ![mac] = err]
  BY DEF MacReceives
<1>3. ControlTyped /\ RingTyped /\ ListsTyped /\ ListsInv /\ Apart(errors, async, sync, held)
      /\ CountsInv /\ WindowInv
  BY DEF FramesInv
<1>4. ControlTyped'
  <2>1. mac' \in Slots
    <3>1. mac \in Slots /\ 1 \in 0..Ring
      BY <1>3 DEF ControlTyped
    <3> QED
      BY <1>1, <3>1, SlotPlus
  <2>2. received' \in 0..MaxReceived
    BY <1>1, <1>3 DEF ControlTyped
  <2> QED
    BY <1>1, <1>3, <2>1, <2>2 DEF ControlTyped, listVars
<1>5. RingTyped'
  <2>1. E' \in [Slots -> BOOLEAN] /\ bad' \in [Slots -> BOOLEAN]
    BY <1>1, <1>2, <1>3, ExceptTyped DEF RingTyped
  <2> QED
    BY <1>1, <1>3, <2>1 DEF RingTyped, countVars
<1>6. ListsTyped' /\ ListsInv' /\ Apart(errors, async, sync, held)' /\ CountsInv' /\ Out' = Out
  <2>1. UNCHANGED <<errors, async, sync, held, dpc, Rx_DmaBDT_DmaOwnedBDsCount, Rx_NdisOwnedBDsCount>>
    BY <1>1 DEF listVars, countVars
  <2> QED
    BY <1>3, <2>1 DEF ListsTyped, ListsInv, Apart, CountsInv, Out, InDpc
<1>7. WindowInv'
  <2>1. \A i \in Slots : ~E[i] => ~E'[i]
    BY <1>1, <1>3 DEF RingTyped
  <2>2. UNCHANGED <<EnetStarted, SwExt, buffer, Rx_EnetFreeBDIdx, Rx_EnetPendingBDIdx,
                    Rx_DmaBDT_DmaOwnedBDsCount>> /\ Out' = Out
    BY <1>1, <1>6 DEF countVars
  <2>3. \A i \in Slots : Place(i)' = Place(i)
    BY <2>2 DEF Place
  <2> QED
    BY <1>3, <2>1, <2>2, <2>3 DEF WindowInv
<1> QED
  BY <1>4, <1>5, <1>6, <1>7 DEF FramesInv

\* NDIS is lent the frames of the asynchronous list.
LEMMA IndicateAsyncKeepsFrames ==
    ASSUME FramesInv, IndicateAsync
    PROVE  FramesInv'
<1>1. /\ dpc = "async" /\ dpc' = "sync" /\ held' = held \cup ToSet(async) /\ async' = <<>>
      /\ UNCHANGED <<EnetStarted, ringVars, countVars, errors, sync, MoreNblsPending, InterruptFlags,
                     mac, rxf, eimr, number, received, stops>>
  BY DEF IndicateAsync
<1>2. ControlTyped /\ RingTyped /\ ListsTyped /\ ListsInv /\ Apart(errors, async, sync, held)
      /\ CountsInv /\ WindowInv
  BY DEF FramesInv
<1>3. /\ IsInjective(async') /\ ToSet(async') = {} /\ Len(async') = 0 /\ async' \in Seq(Slots)
      /\ errors' = errors /\ sync' = sync
  BY <1>1, EmptyList
<1>4. IsFiniteSet(ToSet(async)) /\ ToSet(async) \subseteq Slots /\ Cardinality(ToSet(async)) = Len(async)
  BY <1>2, ListSize DEF ListsTyped, Apart
<1>5. ListsTyped' /\ ListsInv'
  BY <1>1, <1>2, <1>3, <1>4 DEF ListsTyped, ListsInv
<1>6. Apart(errors, async, sync, held)'
  BY <1>1, <1>2, <1>3 DEF Apart
<1>7. Out' = Out
  BY <1>1, <1>3 DEF Out, InDpc
<1>8. CountsInv'
  <2>1. Cardinality(held') = Cardinality(held) + Len(async)
    <3>1. held \cap ToSet(async) = {}
      BY <1>2 DEF Apart
    <3>2. Cardinality({}) = 0
      BY FS_EmptySet
    <3>3. IsFiniteSet(held) /\ Cardinality(held) \in Nat /\ Len(async) \in Nat
      BY <1>2, HeldFinite
    <3>4. Cardinality(held \cup ToSet(async))
             = Cardinality(held) + Cardinality(ToSet(async)) - Cardinality(held \cap ToSet(async))
      BY <1>4, <3>3, FS_Union
    <3>5. Cardinality(held \cup ToSet(async)) = Cardinality(held) + Len(async) - 0
      BY <1>4, <3>1, <3>2, <3>4
    <3>6. \A a, b \in Nat : a + b - 0 = a + b
      OBVIOUS
    <3> QED
      BY <1>1, <3>3, <3>5, <3>6
  <2>2. UNCHANGED <<Rx_DmaBDT_DmaOwnedBDsCount, Rx_NdisOwnedBDsCount>>
    BY <1>1 DEF countVars
  <2>3. \A h, e, a, b \in Nat : h + e + a + b = (h + a) + e + 0 + b
    OBVIOUS
  <2>4. Rx_NdisOwnedBDsCount' = Cardinality(held') + Len(errors') + Len(async') + Len(sync')
    BY <1>2, <1>3, <2>1, <2>2, <2>3, HeldFinite DEF CountsInv
  <2> QED
    BY <1>2, <2>2, <2>4 DEF CountsInv
<1>9. ControlTyped' /\ RingTyped' /\ WindowInv'
  <2>1. ControlTyped'
    BY <1>1, <1>2 DEF ControlTyped
  <2>2. UNCHANGED <<EnetStarted, SwExt, buffer, E, bad, Rx_EnetFreeBDIdx, Rx_EnetPendingBDIdx,
                    Rx_DmaBDT_DmaOwnedBDsCount, Rx_NdisOwnedBDsCount>>
    BY <1>1 DEF ringVars, countVars
  <2> QED
    BY <1>2, <1>7, <2>1, <2>2 DEF RingTyped, WindowInv, Place
<1> QED
  BY <1>5, <1>6, <1>8, <1>9 DEF FramesInv

\* The MAC is started only when every frame is in its hands.
LEMMA EnetStartKeepsFrames ==
    ASSUME FramesInv, EnetStart, WaitForNdis
    PROVE  /\ FramesInv' /\ held = {} /\ errors = <<>> /\ async = <<>> /\ sync = <<>>
<1>1. /\ ~EnetStarted /\ Rx_NdisOwnedBDsCount = 0
      /\ MpRxInit /\ EnetStarted' = TRUE /\ InterruptFlags' = FALSE
      /\ mac' = 0 /\ rxf' = FALSE /\ eimr' = TRUE
      /\ UNCHANGED <<dpc, listVars, held, histVars, stops>>
  BY DEF EnetStart, IsRxFramePandingInNdis
<1>2. ControlTyped /\ RingTyped /\ ListsTyped /\ ListsInv /\ Apart(errors, async, sync, held)
      /\ CountsInv /\ WindowInv
  BY DEF FramesInv
<1>3. Cardinality(held) = 0 /\ Len(errors) = 0 /\ Len(async) = 0 /\ Len(sync) = 0
  <2>1. \A h, e, a, b \in Nat : h + e + a + b = 0 => h = 0 /\ e = 0 /\ a = 0 /\ b = 0
    OBVIOUS
  <2> QED
    BY <1>1, <1>2, <2>1, HeldFinite DEF CountsInv
<1>4. held = {} /\ errors = <<>> /\ async = <<>> /\ sync = <<>>
  <2>1. held = {}
    BY <1>2, <1>3, HeldFinite, FS_EmptySet
  <2>2. \A s \in Seq(Slots) : Len(s) = 0 => s = <<>>
    BY EmptySeq
  <2> QED
    BY <1>2, <1>3, <2>1, <2>2 DEF ListsTyped
<1>5. /\ SwExt' = [i \in Slots |-> i] /\ buffer' = [i \in Slots |-> i]
      /\ E' = [i \in Slots |-> TRUE] /\ bad' = [i \in Slots |-> FALSE]
      /\ Rx_EnetFreeBDIdx' = 0 /\ Rx_EnetPendingBDIdx' = 0
      /\ Rx_DmaBDT_DmaOwnedBDsCount' = Ring /\ Rx_NdisOwnedBDsCount' = 0
      /\ UNCHANGED <<errors, async, sync, held, dpc>>
  BY <1>1 DEF MpRxInit, listVars
<1>6. 0 \in Slots /\ Ring % Ring = 0
  BY DEF Slots
<1>7. ControlTyped'
  BY <1>1, <1>2, <1>6 DEF ControlTyped, listVars, histVars
<1>8. RingTyped'
  BY <1>5, <1>6 DEF RingTyped
<1>9. ListsTyped' /\ ListsInv' /\ Apart(errors, async, sync, held)'
  BY <1>2, <1>5 DEF ListsTyped, ListsInv, Apart
<1>10. CountsInv'
  BY <1>2, <1>3, <1>5 DEF CountsInv
<1>11. WindowInv'
  <2>1. Out' = {}
    BY <1>4, <1>5, EmptyList DEF Out, InDpc
  <2>2. (Rx_EnetPendingBDIdx' + Rx_DmaBDT_DmaOwnedBDsCount') % Ring = Rx_EnetFreeBDIdx'
    BY <1>5, <1>6
  <2>3. \A i \in Slots : Place(i)' < Ring
    <3> TAKE i \in Slots
    <3>1. (i - 0) % Ring \in 0..Ring - 1
      BY <1>6, SlotMinus
    <3> QED
      BY <1>5, <3>1 DEF Place
  <2> QED
    BY <1>5, <2>1, <2>2, <2>3 DEF WindowInv
<1> QED
  BY <1>4, <1>7, <1>8, <1>9, <1>10, <1>11 DEF FramesInv

\* A step that leaves the ring, the counts and the lists alone.
LEMMA RestKeepsFrames ==
    ASSUME FramesInv, UNCHANGED <<ringVars, countVars, errors, async, sync, held>>,
           ControlTyped', ListsInv', EnetStarted' => EnetStarted
    PROVE  FramesInv'
<1>1. UNCHANGED <<SwExt, buffer, E, bad, Rx_EnetFreeBDIdx, Rx_EnetPendingBDIdx,
                  Rx_DmaBDT_DmaOwnedBDsCount, Rx_NdisOwnedBDsCount, errors, async, sync, held>>
  BY DEF ringVars, countVars
<1>2. RingTyped' /\ ListsTyped' /\ Apart(errors, async, sync, held)' /\ CountsInv' /\ Out' = Out
  BY <1>1 DEF FramesInv, RingTyped, ListsTyped, Apart, CountsInv, Out, InDpc
<1>3. WindowInv'
  BY <1>1, <1>2 DEF FramesInv, WindowInv, Place
<1> QED
  BY <1>2, <1>3 DEF FramesInv

LEMMA FramesInit == Init => FramesInv
<1> SUFFICES ASSUME Init PROVE FramesInv
  OBVIOUS
<1>1. 0 \in Slots /\ Ring % Ring = 0
  BY DEF Slots
<1>2. ControlTyped /\ RingTyped /\ ListsTyped /\ ListsInv /\ Apart(errors, async, sync, held)
  BY <1>1, EmptyList DEF Init, ControlTyped, RingTyped, ListsTyped, ListsInv, Apart
<1>3. CountsInv
  BY EmptyList, FS_EmptySet DEF Init, CountsInv
<1>4. Out = {}
  BY EmptyList DEF Init, Out, InDpc
<1>5. \A i \in Slots : Place(i) < Ring
  <2> TAKE i \in Slots
  <2>1. (i - 0) % Ring \in 0..Ring - 1
    BY <1>1, SlotMinus
  <2> QED
    BY <2>1 DEF Place, Init
<1>6. WindowInv
  BY <1>1, <1>4, <1>5 DEF Init, WindowInv
<1> QED
  BY <1>2, <1>3, <1>6 DEF FramesInv

LEMMA FramesPreserved ==
    ASSUME WaitForNdis, FramesInv, [Next]_vars
    PROVE  FramesInv'
<1>0. ControlTyped /\ ListsInv
  BY DEF FramesInv
<1>1. CASE MacReceives
  BY <1>1, MacReceivesKeepsFrames
<1>2. CASE NdisReturns
  BY <1>2, NdisReturnsKeepsFrames
<1>3. CASE EnetIsr
  <2>1. ControlTyped' /\ ListsInv' /\ UNCHANGED <<ringVars, countVars, errors, async, sync, held, EnetStarted>>
    BY <1>0, <1>3 DEF EnetIsr, ControlTyped, ListsInv, listVars, histVars
  <2> QED
    BY <2>1, RestKeepsFrames
<1>4. CASE EnetDpcReadEvents
  <2>1. ListsInv' /\ UNCHANGED <<ringVars, countVars, errors, async, sync, held, EnetStarted>>
    BY <1>0, <1>4 DEF EnetDpcReadEvents, ListsInv
  <2>2. dpc' \in {"receive", "end"}
    BY <1>4 DEF EnetDpcReadEvents
  <2>3. ControlTyped'
    BY <1>0, <1>4, <2>2 DEF EnetDpcReadEvents, ControlTyped, histVars
  <2> QED
    BY <2>1, <2>3, RestKeepsFrames
<1>5. CASE MpHandleRecvInterrupt
  BY <1>5, ReceiveKeepsFrames
<1>6. CASE RecvWhenStopped
  <2>1. ControlTyped' /\ ListsInv' /\ UNCHANGED <<ringVars, countVars, errors, async, sync, held, EnetStarted>>
    BY <1>0, <1>6 DEF RecvWhenStopped, ControlTyped, ListsInv, listVars, histVars
  <2> QED
    BY <2>1, RestKeepsFrames
<1>7. CASE DpcReturnsErrors
  BY <1>7, DpcReturnsErrorsKeepsFrames
<1>8. CASE IndicateAsync
  BY <1>8, IndicateAsyncKeepsFrames
<1>9. CASE IndicateSync
  <2>1. ControlTyped' /\ ListsInv' /\ UNCHANGED <<ringVars, countVars, errors, async, sync, held, EnetStarted>>
    BY <1>0, <1>9 DEF IndicateSync, ControlTyped, ListsInv, listVars, histVars
  <2> QED
    BY <2>1, RestKeepsFrames
<1>10. CASE DpcReturnsSync
  BY <1>10, DpcReturnsSyncKeepsFrames
<1>11. CASE EnetDpcEnd
  <2>1. ListsInv' /\ UNCHANGED <<ringVars, countVars, errors, async, sync, held, EnetStarted>>
    BY <1>0, <1>11 DEF EnetDpcEnd, ListsInv, listVars
  <2>2. dpc' \in {"queued", "idle"} /\ InterruptFlags' \in BOOLEAN /\ eimr' \in BOOLEAN
    BY <1>0, <1>11 DEF EnetDpcEnd, ControlTyped
  <2>3. ControlTyped'
    BY <1>0, <1>11, <2>2 DEF EnetDpcEnd, ControlTyped, histVars, listVars
  <2> QED
    BY <2>1, <2>3, RestKeepsFrames
<1>12. CASE EnetStop
  <2>1. ListsInv' /\ UNCHANGED <<ringVars, countVars, errors, async, sync, held>> /\ ~EnetStarted'
    BY <1>0, <1>12 DEF EnetStop, ListsInv, listVars
  <2>2. stops' \in 0..MaxStops
    BY <1>0, <1>12 DEF EnetStop, ControlTyped
  <2>3. ControlTyped'
    BY <1>0, <1>12, <2>2 DEF EnetStop, ControlTyped, histVars, listVars
  <2> QED
    BY <2>1, <2>3, RestKeepsFrames
<1>13. CASE EnetStart
  BY <1>13, EnetStartKeepsFrames
<1>14. CASE UNCHANGED vars
  <2>1. ControlTyped' /\ ListsInv' /\ UNCHANGED <<ringVars, countVars, errors, async, sync, held, EnetStarted>>
    BY <1>0, <1>14 DEF vars, ControlTyped, ListsInv, listVars, histVars
  <2> QED
    BY <2>1, RestKeepsFrames
<1> QED
  BY <1>1, <1>2, <1>3, <1>4, <1>5, <1>6, <1>7, <1>8, <1>9, <1>10, <1>11, <1>12, <1>13, <1>14
     DEF Next, EnetDpc
-----------------------------------------------------------------------------
(* The order of the frames *)

\* What a step that moves no frame to NDIS leaves in order.
LEMMA DueKept ==
    ASSUME DueInv, UNCHANGED <<number, received, indicated>>,
           async' \in {async, <<>>}, sync' \in {sync, <<>>}, Due' \subseteq Due
    PROVE  DueInv'
<1>1. ToSet(async') \subseteq ToSet(async) /\ ToSet(sync') \subseteq ToSet(sync)
  BY EmptyList
<1>2. Ascending(async)' /\ Ascending(sync)'
  <2>1. \A i, j \in DOMAIN async' : i < j => number[async'[i]] < number[async'[j]]
    BY DEF DueInv, Ascending
  <2>2. \A i, j \in DOMAIN sync' : i < j => number[sync'[i]] < number[sync'[j]]
    BY DEF DueInv, Ascending
  <2> QED
    BY <2>1, <2>2 DEF Ascending
<1>3. /\ \A f \in ToSet(async') \cup ToSet(sync') : number[f] \in 1..received
      /\ \A f \in ToSet(async'), g \in ToSet(sync') : number[f] < number[g]
  BY <1>1 DEF DueInv
<1>4. \A i \in DOMAIN indicated : \A f \in Due' : indicated[i] < number[f]
  BY DEF DueInv
<1> QED
  BY <1>2, <1>3, <1>4 DEF DueInv

LEMMA IndicatedKept ==
    ASSUME IndicatedInv, UNCHANGED <<number, received, indicated>>
    PROVE  IndicatedInv'
  BY DEF IndicatedInv, InOrder

\* Returned frames come behind the full descriptors.
LEMMA ReturnKeepsFilled ==
    ASSUME RingTyped, WindowInv, FilledInv, CountsInv, NEW s \in Seq(Slots),
           Len(s) <= Rx_NdisOwnedBDsCount, MpReturnNetBufferLists(s),
           UNCHANGED <<EnetStarted, mac, number, received, indicated>>,
           ToSet(async') \subseteq ToSet(async), ToSet(sync') \subseteq ToSet(sync)
    PROVE  FilledInv'
<1> SUFFICES ASSUME EnetStarted PROVE FilledInv'
  BY DEF FilledInv
<1> DEFINE n == Len(s)
           c == Rx_DmaBDT_DmaOwnedBDsCount
           p == Rx_EnetPendingBDIdx
           F == Rx_EnetFreeBDIdx
           k(i) == (i - F) % Ring
<1>1. /\ n \in Nat /\ c \in Nat /\ p \in Slots /\ F = (p + c) % Ring
      /\ Rx_NdisOwnedBDsCount \in Nat /\ c + Rx_NdisOwnedBDsCount = Ring
  BY LenProperties DEF RingTyped, WindowInv, CountsInv
<1>2. c + n <= Ring
  BY <1>1
<1>3. /\ c' = c + n /\ p' = p
      /\ SwExt' = [i \in Slots |-> IF EnetStarted /\ k(i) < n THEN s[k(i) + 1] ELSE SwExt[i]]
      /\ E' = [i \in Slots |-> (EnetStarted /\ k(i) < n) \/ E[i]]
  BY DEF MpReturnNetBufferLists
<1>4. ASSUME NEW i \in Slots
      PROVE  /\ Place(i)' = Place(i) /\ Place(i) \in 0..Ring - 1
             /\ k(i) < n <=> c <= Place(i) /\ Place(i) < c + n
  BY <1>1, <1>2, <1>3, PlacesBehind, SlotMinus DEF Place
<1> HIDE DEF n, c, p, F, k
<1>5. ASSUME NEW i \in Slots
      PROVE  /\ Place(i) < c => SwExt'[i] = SwExt[i] /\ E'[i] = E[i]
             /\ c <= Place(i) /\ Place(i) < c' => E'[i]
  <2>1. E[i] \in BOOLEAN
    BY DEF RingTyped
  <2>2. CASE Place(i) < c
    <3>1. ~(k(i) < n)
      BY <1>1, <1>4, <2>2
    <3> QED
      BY <1>1, <1>3, <1>4, <2>1, <2>2, <3>1
  <2>3. CASE c <= Place(i) /\ Place(i) < c'
    <3>1. k(i) < n
      BY <1>3, <1>4, <2>3
    <3>2. ~(Place(i) < c)
      BY <1>1, <1>4, <2>3
    <3> QED
      BY <1>3, <3>1, <3>2
  <2> QED
    BY <2>2, <2>3
<1>6. ASSUME NEW i \in Slots, Full(i)' PROVE Full(i) /\ SwExt'[i] = SwExt[i]
  <2>1. Place(i) < c' /\ ~E'[i]
    BY <1>4, <1>6 DEF Full, c
  <2>2. Place(i) < c
    BY <1>1, <1>4, <1>5, <2>1
  <2> QED
    BY <1>5, <2>1, <2>2 DEF Full, c
<1>7. ASSUME NEW i \in Slots, Full(i)' PROVE FullAfter(i)'
  <2>1. Full(i) /\ FullAfter(i) /\ SwExt'[i] = SwExt[i]
    BY <1>6, <1>7 DEF FilledInv
  <2>2. \A j \in Slots : Full(j)' /\ Place(i)' < Place(j)' => number[SwExt[i]] < number[SwExt'[j]]
    BY <1>4, <1>6, <2>1 DEF FullAfter
  <2> QED
    BY <2>1, <2>2 DEF FullAfter
<1>8. PICK m \in 0..Ring : MacAt(m)
  BY DEF FilledInv
<1>9. MacAt(m)'
  <2>1. m \in 0..c /\ mac = (p + m) % Ring
        /\ \A i \in Slots : Place(i) < c => (E[i] <=> Place(i) >= m)
    BY <1>8 DEF MacAt, c, p
  <2>2. m \in 0..c'
    BY <1>1, <1>3, <2>1
  <2>3. ASSUME NEW i \in Slots, Place(i)' < c' PROVE E'[i] <=> Place(i)' >= m
    <3>1. CASE Place(i) < c
      BY <1>4, <1>5, <2>1, <3>1
    <3>2. CASE ~(Place(i) < c)
      <4>1. c <= Place(i) /\ Place(i) < c' /\ Place(i) >= m
        BY <1>1, <1>4, <2>1, <2>3, <3>2
      <4> QED
        BY <1>4, <1>5, <4>1
    <3> QED
      BY <3>1, <3>2
  <2> QED
    BY <1>3, <2>1, <2>2, <2>3 DEF MacAt, c, p
<1> QED
  BY <1>7, <1>8, <1>9 DEF FilledInv

\* The next frame goes to the first empty descriptor, behind the full ones.
LEMMA MacReceivesInOrder ==
    ASSUME FramesInv, OrderInv, MacReceives
    PROVE  OrderInv'
<1> DEFINE c == Rx_DmaBDT_DmaOwnedBDsCount
           p == Rx_EnetPendingBDIdx
           f == SwExt[mac]
<1>1. /\ EnetStarted /\ E[mac] /\ received < MaxReceived
      /\ E' = [E EXCEPT ![mac] = FALSE]
      /\ received' = received + 1 /\ number' = [number EXCEPT ![buffer[mac]] = received']
      /\ mac' = (mac + 1) % Ring
      /\ UNCHANGED <<EnetStarted, SwExt, Rx_EnetPendingBDIdx, Rx_DmaBDT_DmaOwnedBDsCount,
                     dpc, async, sync, held, indicated>>
  BY DEF MacReceives, countVars, listVars
<1>2. ControlTyped /\ RingTyped /\ ListsTyped /\ WindowInv /\ CountsInv
  BY DEF FramesInv
<1>3. IndicatedInv /\ DueInv /\ FilledInv
  BY DEF OrderInv
<1>4. c \in Nat /\ c <= Ring /\ p \in Slots /\ p \in 0..Ring - 1 /\ mac \in Slots /\ received \in Nat
  BY <1>2 DEF RingTyped, CountsInv, ControlTyped, Slots
<1>5. Place(mac) < c /\ f \in Slots \ Out /\ buffer[mac] = f
  BY <1>1, <1>2, <1>4 DEF WindowInv
<1>6. PICK m \in 0..Ring : MacAt(m)
  BY <1>1, <1>3 DEF FilledInv
<1>7. m \in 0..c /\ mac = (p + m) % Ring /\ \A i \in Slots : Place(i) < c => (E[i] <=> Place(i) >= m)
  BY <1>6 DEF MacAt
<1>8. \A i \in Slots : Place(i) \in 0..Ring - 1 /\ Place(i)' = Place(i)
  BY <1>1, <1>4, SlotMinus DEF Place
<1>9. Place(mac) = m /\ m < c
  <2>1. Place(mac) >= m
    BY <1>1, <1>4, <1>5, <1>7
  <2>2. m \in 0..Ring - 1
    BY <1>4, <1>5, <1>7, <1>8, <2>1
  <2>3. Ring \in Nat \ {0}
    OBVIOUS
  <2>4. Place(mac) = m
    BY <1>4, <1>7, <2>2, <2>3, PlaceAt DEF Place
  <2> QED
    BY <1>5, <2>4
<1>10. \A i \in Slots : Place(i) = m => i = mac
  <2>1. \A i \in Slots : (p + Place(i)) % Ring = i
    <3> TAKE i \in Slots
    <3>1. i \in 0..Ring - 1 /\ Ring \in Nat \ {0}
      BY DEF Slots
    <3> QED
      BY <1>4, <3>1, PlaceOf DEF Place
  <2> QED
    BY <1>7, <2>1
<1>11. /\ number \in [Slots -> 0..MaxReceived] /\ f \in Slots
       /\ number' = [number EXCEPT ![f] = received + 1]
       /\ number'[f] = received + 1
       /\ \A g \in Slots \ {f} : number'[g] = number[g]
  BY <1>1, <1>3, <1>5 DEF IndicatedInv
<1> HIDE DEF c, p, f
<1>12. MacAt(m + 1)'
  <2>1. m + 1 \in 0..c /\ 1 \in 0..Ring /\ m \in 0..Ring /\ m + 1 <= Ring /\ Ring \in Nat \ {0}
    BY <1>4, <1>7, <1>9
  <2>2. mac' = (p + (m + 1)) % Ring
    <3>1. (((p + m) % Ring) + 1) % Ring = (p + (m + 1)) % Ring
      BY <1>4, <2>1, PlacesAdd
    <3> QED
      BY <1>1, <1>7, <3>1
  <2>3. ASSUME NEW i \in Slots, Place(i) < c PROVE E'[i] <=> Place(i) >= m + 1
    <3>1. CASE i = mac
      <4>1. ~E'[i]
        BY <1>1, <1>2, <3>1 DEF RingTyped
      <4> QED
        BY <1>7, <1>9, <3>1, <4>1
    <3>2. CASE i # mac
      <4>1. E'[i] = E[i]
        BY <1>1, <1>2, <3>2 DEF RingTyped
      <4>2. Place(i) # m /\ Place(i) \in Nat /\ m \in Nat
        BY <1>7, <1>8, <1>10, <3>2
      <4>3. Place(i) >= m <=> Place(i) >= m + 1
        BY <4>2
      <4> QED
        BY <1>7, <2>3, <4>1, <4>3
    <3> QED
      BY <3>1, <3>2
  <2>4. c' = c /\ p' = p
    BY <1>1 DEF c, p
  <2> QED
    BY <1>8, <2>1, <2>2, <2>3, <2>4 DEF MacAt, c, p
<1>13. \A g \in ToSet(async) \cup ToSet(sync) : g \in Slots /\ g # f
  <2>1. ToSet(async) \cup ToSet(sync) \subseteq Slots
    BY <1>2, ListSize DEF ListsTyped
  <2> QED
    BY <1>5, <2>1 DEF Out, InDpc
<1>14. IndicatedInv'
  <2>1. \A i \in DOMAIN indicated : indicated[i] \in 1..MaxReceived /\ indicated[i] <= received
    BY <1>3 DEF IndicatedInv
  <2>2. \A i \in DOMAIN indicated : indicated[i] <= received'
    BY <1>1, <1>4, <2>1
  <2>3. number' \in [Slots -> 0..MaxReceived]
    <3>1. received + 1 \in 0..MaxReceived
      BY <1>1, <1>4
    <3> QED
      BY <1>11, <3>1
  <2>4. InOrder' /\ indicated' = indicated
    BY <1>1, <1>3 DEF IndicatedInv, InOrder
  <2> QED
    BY <1>3, <2>2, <2>3, <2>4 DEF IndicatedInv
<1>15. DueInv'
  <2>1. \A g \in ToSet(async) \cup ToSet(sync) : number'[g] = number[g]
    BY <1>11, <1>13
  <2>2. \A g \in ToSet(async) \cup ToSet(sync) : number'[g] \in 1..received'
    <3>1. \A x \in 1..received : x \in 1..received'
      BY <1>1, <1>4
    <3> QED
      BY <1>3, <2>1, <3>1 DEF DueInv
  <2>3. Due \subseteq ToSet(async) \cup ToSet(sync) /\ Due' = Due
    BY <1>1 DEF Due
  <2>4. \A i \in DOMAIN indicated : \A g \in Due : indicated[i] < number'[g]
    BY <1>3, <2>1, <2>3 DEF DueInv
  <2>5. \A g \in ToSet(async), h \in ToSet(sync) : number'[g] < number'[h]
    BY <1>3, <2>1 DEF DueInv
  <2>6. Ascending(async)'
    <3>1. \A i \in DOMAIN async : async[i] \in ToSet(async)
      BY DEF ToSet
    <3> QED
      BY <1>1, <1>3, <2>1, <3>1 DEF DueInv, Ascending
  <2>7. Ascending(sync)'
    <3>1. \A i \in DOMAIN sync : sync[i] \in ToSet(sync)
      BY DEF ToSet
    <3> QED
      BY <1>1, <1>3, <2>1, <3>1 DEF DueInv, Ascending
  <2> QED
    BY <1>1, <2>2, <2>3, <2>4, <2>5, <2>6, <2>7 DEF DueInv
<1>16. ASSUME NEW i \in Slots, Full(i)', i # mac
       PROVE  Full(i) /\ SwExt[i] \in Slots \ {f} /\ number'[SwExt[i]] = number[SwExt[i]] /\ Place(i) < m
  <2>1. Place(i) < c /\ ~E[i]
    BY <1>1, <1>2, <1>8, <1>16 DEF Full, c, RingTyped
  <2>2. SwExt[i] \in Slots \ Out
    BY <1>1, <1>2, <2>1 DEF WindowInv, c
  <2>3. SwExt[i] # f
    <3>1. SwExt[i] # NULL
      BY <2>2 DEF Slots
    <3> QED
      BY <1>1, <1>2, <1>4, <1>16, <3>1 DEF WindowInv, f
  <2>4. Place(i) < m
    BY <1>7, <1>8, <2>1
  <2> QED
    BY <1>11, <2>1, <2>2, <2>3, <2>4 DEF Full, c
<1>17. ASSUME NEW i \in Slots, Full(i)' PROVE FullAfter(i)'
  <2>1. \A g \in ToSet(async) \cup ToSet(sync) : number'[g] = number[g] /\ number[g] \in 1..received
    BY <1>3, <1>11, <1>13 DEF DueInv
  <2>2. \A j \in DOMAIN indicated : indicated[j] \in Nat /\ indicated[j] <= received
    BY <1>3 DEF IndicatedInv
  <2>3. CASE i = mac
    <3>1. number'[SwExt[i]] = received + 1
      BY <1>11, <2>3 DEF f
    <3>2. \A j \in Slots : ~(Full(j)' /\ Place(i) < Place(j))
      <4> SUFFICES ASSUME NEW j \in Slots, Full(j)', Place(i) < Place(j) PROVE FALSE
        OBVIOUS
      <4>1. j # mac
        BY <1>8, <2>3
      <4>2. Place(j) < m
        BY <1>16, <4>1
      <4> QED
        BY <1>7, <1>8, <1>9, <2>3, <4>2
    <3>3. /\ received + 1 \in 1..received'
          /\ \A j \in DOMAIN indicated : indicated[j] < received + 1
          /\ \A g \in ToSet(async) \cup ToSet(sync) : number'[g] < received + 1
      BY <1>1, <1>4, <2>1, <2>2
    <3> QED
      BY <1>1, <1>8, <3>1, <3>2, <3>3 DEF FullAfter
  <2>4. CASE i # mac
    <3>1. Full(i) /\ SwExt[i] \in Slots \ {f} /\ number'[SwExt[i]] = number[SwExt[i]]
      BY <1>16, <1>17, <2>4
    <3>2. FullAfter(i)
      BY <1>1, <1>3, <3>1 DEF FilledInv
    <3>3. number[SwExt[i]] \in 1..received /\ number[SwExt[i]] \in 1..received'
      BY <1>1, <1>4, <3>2 DEF FullAfter
    <3>4. /\ \A j \in DOMAIN indicated : indicated[j] < number'[SwExt[i]]
          /\ \A g \in ToSet(async) \cup ToSet(sync) : number'[g] < number'[SwExt[i]]
      BY <2>1, <3>1, <3>2 DEF FullAfter
    <3>5. ASSUME NEW j \in Slots, Full(j)', Place(i) < Place(j)
          PROVE  number'[SwExt[i]] < number'[SwExt[j]]
      <4>1. CASE j = mac
        <5>1. number'[SwExt[j]] = received + 1
          BY <1>11, <4>1 DEF f
        <5> QED
          BY <1>4, <3>1, <3>3, <5>1
      <4>2. CASE j # mac
        <5>1. Full(j) /\ number'[SwExt[j]] = number[SwExt[j]]
          BY <1>16, <3>5, <4>2
        <5> QED
          BY <3>1, <3>2, <3>5, <5>1 DEF FullAfter
      <4> QED
        BY <4>1, <4>2
    <3> QED
      BY <1>1, <1>8, <3>1, <3>3, <3>4, <3>5 DEF FullAfter
  <2> QED
    BY <2>3, <2>4
<1>18. FilledInv'
  <2>1. m + 1 \in 0..Ring
    BY <1>4, <1>7, <1>9
  <2> QED
    BY <1>12, <1>17, <2>1 DEF FilledInv
<1> QED
  BY <1>14, <1>15, <1>18 DEF OrderInv
\* The frames MpHandleRecvInterrupt takes are the oldest ones, and those it lends
\* to NDIS are older than those it only shows.
LEMMA ReceiveInOrder ==
    ASSUME FramesInv, OrderInv, MpHandleRecvInterrupt
    PROVE  OrderInv'
<1> DEFINE n == Taken
           good == {k \in 0..n - 1 : ~bad[SlotAt(k)]}
           lent == {k \in good : IsAsync(k)}
           shown == good \ lent
           c == Rx_DmaBDT_DmaOwnedBDsCount
           p == Rx_EnetPendingBDIdx
<1>1. /\ dpc = "receive" /\ EnetStarted /\ dpc' = "errors"
      /\ RingTyped /\ WindowInv /\ CountsInv /\ ControlTyped
      /\ IndicatedInv /\ DueInv /\ FilledInv
  BY DEF FramesInv, OrderInv, MpHandleRecvInterrupt
<1>2. /\ async' = FramesTaken(lent) /\ sync' = FramesTaken(shown)
      /\ SwExt' = [i \in Slots |-> IF Place(i) < n THEN NULL ELSE SwExt[i]]
      /\ p' = (p + n) % Ring /\ c' = c - n
      /\ UNCHANGED <<EnetStarted, E, mac, number, received, indicated>>
  BY DEF MpHandleRecvInterrupt, Place, histVars
<1>3. /\ c \in Nat /\ c <= Ring /\ p \in Slots /\ p \in 0..Ring - 1 /\ received \in Nat
  BY <1>1 DEF RingTyped, CountsInv, ControlTyped, Slots
<1>4. /\ n \in 0..c
      /\ \A k \in 0..n - 1 :
            /\ SlotAt(k) \in Slots /\ Place(SlotAt(k)) = k
            /\ ~E[SlotAt(k)] /\ At(k) \in Slots \ Out
      /\ \A k, m \in 0..n - 1 : At(k) = At(m) => k = m
  BY <1>1, <1>3, TakenFromWindow
<1>5. lent \subseteq 0..n - 1 /\ shown \subseteq 0..n - 1
  OBVIOUS
<1>6. \A k \in lent, m \in shown : k < m
  <2> SUFFICES ASSUME NEW k \in lent, NEW m \in shown PROVE k < m
    OBVIOUS
  <2>1. c - (k + 1) > LowWater /\ ~(c - (m + 1) > LowWater) /\ k \in Int /\ m \in Int
    BY DEF IsAsync
  <2> HIDE DEF lent, shown, c
  <2> QED
    BY <1>3, <2>1
<1> HIDE DEF n, good, lent, shown
<1>7. n \in 0..Ring /\ n \in Nat /\ n <= c
  BY <1>3, <1>4
<1>8. \A k \in 0..n - 1 : Full(SlotAt(k)) /\ FullAfter(SlotAt(k))
  <2> TAKE k \in 0..n - 1
  <2>1. k < c
    BY <1>3, <1>7
  <2>2. Full(SlotAt(k))
    BY <1>4, <2>1 DEF Full
  <2> QED
    BY <1>1, <1>4, <2>2 DEF FilledInv
<1>9. \A k, m \in 0..n - 1 : k < m => number[At(k)] < number[At(m)]
  <2> SUFFICES ASSUME NEW k \in 0..n - 1, NEW m \in 0..n - 1, k < m
               PROVE  number[At(k)] < number[At(m)]
    OBVIOUS
  <2>1. Full(SlotAt(m)) /\ FullAfter(SlotAt(k)) /\ SlotAt(m) \in Slots
        /\ Place(SlotAt(k)) < Place(SlotAt(m))
    BY <1>4, <1>8
  <2> QED
    BY <2>1 DEF FullAfter, At
<1>10. /\ ToSet(async') = {At(k) : k \in lent}
       /\ InRingOrder(async', lent)
  <2>1. \A k \in 0..n - 1 : At(k) \in Slots
    BY <1>4
  <2> QED
    BY <1>2, <1>4, <1>5, <1>7, <2>1, ListOfTaken
<1>11. /\ ToSet(sync') = {At(k) : k \in shown}
       /\ InRingOrder(sync', shown)
  <2>1. \A k \in 0..n - 1 : At(k) \in Slots
    BY <1>4
  <2> QED
    BY <1>2, <1>4, <1>5, <1>7, <2>1, ListOfTaken
<1>12. \A f \in ToSet(async') \cup ToSet(sync') : \E k \in 0..n - 1 : f = At(k)
  BY <1>5, <1>10, <1>11
<1>13. IndicatedInv'
  BY <1>1, <1>2, IndicatedKept
<1>14. DueInv'
  <2>1. \A f \in ToSet(async') \cup ToSet(sync') :
           /\ number[f] \in 1..received
           /\ \A i \in DOMAIN indicated : indicated[i] < number[f]
    BY <1>8, <1>12 DEF FullAfter, At
  <2>2. \A f \in ToSet(async'), g \in ToSet(sync') : number[f] < number[g]
    <3> SUFFICES ASSUME NEW k \in lent, NEW m \in shown PROVE number[At(k)] < number[At(m)]
      BY <1>10, <1>11
    <3> QED
      BY <1>5, <1>6, <1>9
  <2>3. \A a, b \in DOMAIN async' : a < b => number[async'[a]] < number[async'[b]]
    BY <1>5, <1>9, <1>10 DEF InRingOrder
  <2>4. \A a, b \in DOMAIN sync' : a < b => number[sync'[a]] < number[sync'[b]]
    BY <1>5, <1>9, <1>11 DEF InRingOrder
  <2>5. Ascending(async)' /\ Ascending(sync)'
    BY <1>2, <2>3, <2>4 DEF Ascending
  <2>6. Due' \subseteq ToSet(async') \cup ToSet(sync')
    BY DEF Due
  <2> QED
    BY <1>2, <2>1, <2>2, <2>5, <2>6 DEF DueInv
<1>15. ASSUME NEW i \in Slots
       PROVE  /\ Place(i) \in 0..Ring - 1
              /\ Place(i)' = IF Place(i) >= n THEN Place(i) - n ELSE Place(i) - n + Ring
  <2>1. i \in 0..Ring - 1 /\ Ring \in Nat \ {0}
    BY DEF Slots
  <2>2. Place(i) \in 0..Ring - 1
    BY <1>3, SlotMinus DEF Place
  <2>3. Place(i)' = (i - ((p + n) % Ring)) % Ring
    BY <1>2 DEF Place
  <2> QED
    BY <1>3, <1>7, <2>1, <2>2, <2>3, PlacesShift DEF Place
<1> HIDE DEF c, p
<1>16. ASSUME NEW i \in Slots, Place(i)' < c'
       PROVE  Place(i) >= n /\ Place(i) < c /\ Place(i)' = Place(i) - n /\ SwExt'[i] = SwExt[i]
  <2>1. Place(i) >= n /\ Place(i) < c /\ Place(i)' = Place(i) - n
    BY <1>2, <1>3, <1>7, <1>15, <1>16
  <2>2. ~(Place(i) < n)
    BY <1>7, <1>15, <2>1
  <2> QED
    BY <1>2, <2>1, <2>2
<1>17. ASSUME NEW i \in Slots, Full(i)'
       PROVE  FullAfter(i)'
  <2>1. Place(i)' < c' /\ ~E[i]
    BY <1>2, <1>17 DEF Full, c
  <2>2. Full(i) /\ SwExt'[i] = SwExt[i] /\ Place(i) >= n
    BY <1>16, <2>1 DEF Full, c
  <2>3. FullAfter(i)
    BY <1>1, <2>2 DEF FilledInv
  <2>4. \A f \in ToSet(async') \cup ToSet(sync') : number[f] < number[SwExt[i]]
    <3> SUFFICES ASSUME NEW k \in 0..n - 1 PROVE number[At(k)] < number[SwExt[i]]
      BY <1>12
    <3>1. Place(SlotAt(k)) < Place(i)
      BY <1>4, <1>7, <1>15, <2>2
    <3> QED
      BY <1>8, <2>2, <3>1 DEF FullAfter, At
  <2>5. ASSUME NEW j \in Slots, Full(j)', Place(i)' < Place(j)'
        PROVE  number[SwExt[i]] < number[SwExt'[j]]
    <3>1. Place(j)' < c' /\ ~E[j]
      BY <1>2, <2>5 DEF Full, c
    <3>2. Full(j) /\ SwExt'[j] = SwExt[j] /\ Place(j)' = Place(j) - n
      BY <1>16, <3>1 DEF Full, c
    <3>3. Place(i)' = Place(i) - n
      BY <1>16, <2>1
    <3>4. Place(i) < Place(j)
      BY <1>7, <1>15, <2>5, <3>2, <3>3
    <3> QED
      BY <2>3, <3>2, <3>4 DEF FullAfter
  <2> QED
    BY <1>2, <2>2, <2>3, <2>4, <2>5 DEF FullAfter
<1>18. PICK m \in 0..Ring : MacAt(m)
  BY <1>1 DEF FilledInv
<1>19. m \in 0..c /\ mac = (p + m) % Ring /\ \A i \in Slots : Place(i) < c => (E[i] <=> Place(i) >= m)
  BY <1>18 DEF MacAt, c, p
<1>20. n <= m
  <2> SUFFICES ASSUME ~(n <= m) PROVE FALSE
    OBVIOUS
  <2>1. m \in 0..n - 1 /\ m < c
    BY <1>3, <1>7, <1>19
  <2>2. Place(SlotAt(m)) = m /\ SlotAt(m) \in Slots /\ ~E[SlotAt(m)]
    BY <1>4, <2>1
  <2>3. m >= m
    BY <1>19
  <2> QED
    BY <1>19, <2>1, <2>2, <2>3
<1>21. \E x \in 0..Ring : MacAt(x)'
  <2>1. m - n \in 0..c' /\ m - n \in 0..Ring /\ n + (m - n) = m /\ n + (m - n) <= Ring
    BY <1>2, <1>3, <1>7, <1>19, <1>20
  <2>2. mac' = (p' + (m - n)) % Ring
    <3>1. (((p + n) % Ring) + (m - n)) % Ring = (p + (n + (m - n))) % Ring
      BY <1>3, <1>7, <2>1, PlacesAdd
    <3> QED
      BY <1>2, <1>19, <2>1, <3>1
  <2>3. ASSUME NEW i \in Slots, Place(i)' < c' PROVE E'[i] <=> Place(i)' >= m - n
    <3>1. Place(i) < c /\ Place(i)' = Place(i) - n
      BY <1>16, <2>3
    <3>2. Place(i) - n >= m - n <=> Place(i) >= m
      BY <1>7, <1>15, <1>19
    <3> QED
      BY <1>2, <1>19, <3>1, <3>2
  <2>4. PICK x \in 0..Ring : x = m - n
    BY <2>1
  <2>5. x \in 0..c' /\ mac' = (p' + x) % Ring
        /\ \A i \in Slots : Place(i)' < c' => (E'[i] <=> Place(i)' >= x)
    BY <2>1, <2>2, <2>3, <2>4
  <2>6. MacAt(x)'
    BY <2>5 DEF MacAt, c, p
  <2> QED
    BY <2>6
<1>22. FilledInv'
  BY <1>17, <1>21 DEF FilledInv
<1> QED
  BY <1>13, <1>14, <1>22 DEF OrderInv

\* A list of numbers that follow the indicated ones, in ascending order, is appended
\* to them.
LEMMA AppendInOrder ==
    ASSUME IndicatedInv, received \in 0..MaxReceived,
           NEW s \in Seq(Slots), Ascending(s),
           \A f \in ToSet(s) : number[f] \in 1..received,
           \A i \in DOMAIN indicated : \A f \in ToSet(s) : indicated[i] < number[f],
           indicated' = indicated \o [j \in DOMAIN s |-> number[s[j]]],
           UNCHANGED <<number, received>>
    PROVE  /\ IndicatedInv'
           /\ \A i \in DOMAIN indicated' :
                 \/ i \in DOMAIN indicated /\ indicated'[i] = indicated[i]
                 \/ \E f \in ToSet(s) : indicated'[i] = number[f]
<1> DEFINE t == [j \in DOMAIN s |-> number[s[j]]]
           l == Len(indicated)
           k == Len(s)
<1>1. /\ indicated \in Seq(1..MaxReceived) /\ l \in Nat /\ k \in Nat
      /\ DOMAIN indicated = 1..l /\ DOMAIN s = 1..k
      /\ \A i \in 1..l : indicated[i] \in 1..MaxReceived /\ indicated[i] <= received
      /\ \A i, j \in 1..l : i < j => indicated[i] < indicated[j]
  BY LenProperties DEF IndicatedInv, InOrder
<1>2. \A j \in 1..k : s[j] \in ToSet(s) /\ number[s[j]] \in 1..received
  BY <1>1, ListSize
<1>3. \A x \in 1..received : x \in 1..MaxReceived /\ x <= received
  OBVIOUS
<1>4. t \in Seq(1..MaxReceived) /\ Len(t) = k /\ \A j \in 1..k : t[j] = number[s[j]]
  BY <1>1, <1>2, <1>3
<1>5. \A i, j \in 1..k : i < j => t[i] < t[j]
  BY <1>1, <1>4 DEF Ascending
<1>6. indicated' = indicated \o t
  OBVIOUS
<1> HIDE DEF t, l, k
<1>7. /\ indicated' \in Seq(1..MaxReceived) /\ Len(indicated') = l + k
      /\ \A i \in 1..l + k : indicated'[i] = IF i <= l THEN indicated[i] ELSE t[i - l]
  BY <1>1, <1>4, <1>6, ConcatProperties DEF l
<1>8. DOMAIN indicated' = 1..l + k
  BY <1>7, LenProperties
<1>9. ASSUME NEW i \in 1..l + k
      PROVE  \/ i \in 1..l /\ indicated'[i] = indicated[i]
             \/ ~(i <= l) /\ i - l \in 1..k /\ indicated'[i] = t[i - l]
  BY <1>1, <1>7
<1>10. \A i \in 1..l + k : indicated'[i] <= received
  BY <1>1, <1>2, <1>3, <1>4, <1>9
<1>11. ASSUME NEW i \in 1..l + k, NEW j \in 1..l + k, i < j
       PROVE  indicated'[i] < indicated'[j]
  <2>1. CASE i \in 1..l /\ j \in 1..l
    BY <1>1, <1>7, <1>11, <2>1
  <2>2. CASE i \in 1..l /\ ~(j <= l)
    <3>1. j - l \in 1..k /\ indicated'[j] = number[s[j - l]] /\ s[j - l] \in ToSet(s)
      <4>1. ~(j \in 1..l)
        BY <1>1, <2>2
      <4>2. j - l \in 1..k /\ indicated'[j] = t[j - l]
        BY <1>9, <4>1
      <4> QED
        BY <1>2, <1>4, <4>2
    <3>2. indicated'[i] = indicated[i]
      BY <1>1, <1>7, <2>2
    <3> QED
      BY <1>1, <2>2, <3>1, <3>2
  <2>3. CASE ~(i <= l) /\ ~(j <= l)
    <3>1. i - l \in 1..k /\ j - l \in 1..k /\ indicated'[i] = t[i - l] /\ indicated'[j] = t[j - l]
      <4>1. ~(i \in 1..l) /\ ~(j \in 1..l)
        BY <1>1, <2>3
      <4> QED
        BY <1>9, <4>1
    <3>2. i - l < j - l
      BY <1>1, <1>11
    <3> QED
      BY <1>5, <3>1, <3>2
  <2> QED
    BY <1>1, <1>11, <2>1, <2>2, <2>3
<1>12. IndicatedInv'
  BY <1>7, <1>8, <1>10, <1>11 DEF IndicatedInv, InOrder
<1>13. \A i \in 1..l + k :
          \/ i \in 1..l /\ indicated'[i] = indicated[i]
          \/ \E f \in ToSet(s) : indicated'[i] = number[f]
  <2> TAKE i \in 1..l + k
  <2>1. CASE i \in 1..l /\ indicated'[i] = indicated[i]
    BY <2>1
  <2>2. CASE i - l \in 1..k /\ indicated'[i] = t[i - l]
    <3>1. s[i - l] \in ToSet(s) /\ indicated'[i] = number[s[i - l]]
      BY <1>2, <1>4, <2>2
    <3> QED
      BY <3>1
  <2> QED
    BY <1>9, <2>1, <2>2
<1> QED
  BY <1>1, <1>8, <1>12, <1>13
\* A step that leaves the ring and the MAC alone and indicates at most frames of
\* the lists.
LEMMA FilledKept ==
    ASSUME FilledInv, UNCHANGED <<SwExt, E, Rx_EnetPendingBDIdx, Rx_DmaBDT_DmaOwnedBDsCount,
                                  number, received>>,
           EnetStarted' => EnetStarted /\ mac' = mac,
           ToSet(async') \subseteq ToSet(async), ToSet(sync') \subseteq ToSet(sync),
           \A i \in DOMAIN indicated' :
              \/ i \in DOMAIN indicated /\ indicated'[i] = indicated[i]
              \/ \E f \in ToSet(async) \cup ToSet(sync) : indicated'[i] = number[f]
    PROVE  FilledInv'
<1> SUFFICES ASSUME EnetStarted, mac' = mac PROVE FilledInv'
  BY DEF FilledInv
<1>1. \A i \in Slots : Place(i)' = Place(i) /\ Full(i)' = Full(i)
  BY DEF Place, Full
<1>2. ASSUME NEW i \in Slots, Full(i) PROVE FullAfter(i)'
  <2>1. FullAfter(i)
    BY <1>2 DEF FilledInv
  <2>2. \A j \in DOMAIN indicated' : indicated'[j] < number[SwExt[i]]
    BY <2>1 DEF FullAfter
  <2>3. \A j \in Slots : Full(j)' /\ Place(i)' < Place(j)' => number[SwExt[i]] < number[SwExt[j]]
    BY <1>1, <2>1 DEF FullAfter
  <2>4. \A f \in ToSet(async') \cup ToSet(sync') : number[f] < number[SwExt[i]]
    BY <2>1 DEF FullAfter
  <2> QED
    BY <2>1, <2>2, <2>3, <2>4 DEF FullAfter
<1>3. PICK m \in 0..Ring : MacAt(m)
  BY DEF FilledInv
<1>4. MacAt(m)'
  BY <1>1, <1>3 DEF MacAt
<1> QED
  BY <1>1, <1>2, <1>3, <1>4 DEF FilledInv

LEMMA IndicateAsyncInOrder ==
    ASSUME FramesInv, OrderInv, IndicateAsync
    PROVE  OrderInv'
<1>1. /\ dpc = "async" /\ dpc' = "sync" /\ async' = <<>> /\ sync' = sync
      /\ indicated' = indicated \o [j \in DOMAIN async |-> number[async[j]]]
      /\ UNCHANGED <<EnetStarted, SwExt, E, Rx_EnetPendingBDIdx, Rx_DmaBDT_DmaOwnedBDsCount,
                     mac, number, received>>
  BY DEF IndicateAsync, ringVars, countVars
<1>2. async \in Seq(Slots) /\ received \in 0..MaxReceived
  BY DEF FramesInv, ListsTyped, ControlTyped
<1>3. IndicatedInv /\ DueInv /\ FilledInv
  BY DEF OrderInv
<1>4. /\ Ascending(async) /\ \A f \in ToSet(async) : number[f] \in 1..received
      /\ \A i \in DOMAIN indicated : \A f \in ToSet(async) : indicated[i] < number[f]
  BY <1>3 DEF DueInv, Due
<1>5. /\ IndicatedInv'
      /\ \A i \in DOMAIN indicated' :
            \/ i \in DOMAIN indicated /\ indicated'[i] = indicated[i]
            \/ \E f \in ToSet(async) : indicated'[i] = number[f]
  <2>1. UNCHANGED <<number, received>>
    BY <1>1
  <2>2. indicated' = indicated \o [j \in DOMAIN async |-> number[async[j]]]
    BY <1>1
  <2> QED
    BY <1>2, <1>3, <1>4, <2>1, <2>2, AppendInOrder
<1>6. ToSet(async') = {} /\ Due' = ToSet(sync) /\ DOMAIN async' = {} /\ ToSet(sync) \subseteq Due
  BY <1>1, EmptyList DEF Due
<1>7. DueInv'
  <2>1. \A i \in DOMAIN indicated' : \A f \in Due' : indicated'[i] < number[f]
    BY <1>3, <1>5, <1>6 DEF DueInv
  <2>2. \A f \in ToSet(async') \cup ToSet(sync') : number[f] \in 1..received
    BY <1>1, <1>3, <1>6 DEF DueInv
  <2>3. Ascending(async)' /\ Ascending(sync)'
    BY <1>1, <1>3, <1>6 DEF DueInv, Ascending
  <2> QED
    BY <1>1, <1>6, <2>1, <2>2, <2>3 DEF DueInv
<1>8. FilledInv'
  <2>1. ToSet(async') \subseteq ToSet(async) /\ ToSet(sync') \subseteq ToSet(sync)
    BY <1>1, <1>6
  <2>2. \A i \in DOMAIN indicated' :
              \/ i \in DOMAIN indicated /\ indicated'[i] = indicated[i]
              \/ \E f \in ToSet(async) \cup ToSet(sync) : indicated'[i] = number[f]
    BY <1>5
  <2> QED
    BY <1>1, <1>3, <2>1, <2>2, FilledKept
<1> QED
  BY <1>5, <1>7, <1>8 DEF OrderInv

LEMMA IndicateSyncInOrder ==
    ASSUME FramesInv, OrderInv, IndicateSync
    PROVE  OrderInv'
<1>1. /\ dpc = "sync" /\ dpc' = "return" /\ async' = async /\ sync' = sync
      /\ indicated' = indicated \o [j \in DOMAIN sync |-> number[sync[j]]]
      /\ UNCHANGED <<EnetStarted, SwExt, E, Rx_EnetPendingBDIdx, Rx_DmaBDT_DmaOwnedBDsCount,
                     mac, number, received>>
  BY DEF IndicateSync, ringVars, countVars, listVars
<1>2. sync \in Seq(Slots) /\ received \in 0..MaxReceived /\ async = <<>>
  BY <1>1 DEF FramesInv, ListsTyped, ControlTyped, ListsInv
<1>3. IndicatedInv /\ DueInv /\ FilledInv
  BY DEF OrderInv
<1>4. /\ Ascending(sync) /\ \A f \in ToSet(sync) : number[f] \in 1..received
      /\ \A i \in DOMAIN indicated : \A f \in ToSet(sync) : indicated[i] < number[f]
  BY <1>1, <1>3 DEF DueInv, Due
<1>5. /\ IndicatedInv'
      /\ \A i \in DOMAIN indicated' :
            \/ i \in DOMAIN indicated /\ indicated'[i] = indicated[i]
            \/ \E f \in ToSet(sync) : indicated'[i] = number[f]
  <2>1. UNCHANGED <<number, received>>
    BY <1>1
  <2>2. indicated' = indicated \o [j \in DOMAIN sync |-> number[sync[j]]]
    BY <1>1
  <2> QED
    BY <1>2, <1>3, <1>4, <2>1, <2>2, AppendInOrder
<1>6. Due' = {} /\ ToSet(async') = {}
  BY <1>1, <1>2, EmptyList DEF Due
<1>7. DueInv'
  <2>1. \A f \in ToSet(async') \cup ToSet(sync') : number[f] \in 1..received
    BY <1>1, <1>3 DEF DueInv
  <2>2. Ascending(async)' /\ Ascending(sync)'
    BY <1>1, <1>3 DEF DueInv, Ascending
  <2> QED
    BY <1>1, <1>6, <2>1, <2>2 DEF DueInv
<1>8. FilledInv'
  <2>1. ToSet(async') \subseteq ToSet(async) /\ ToSet(sync') \subseteq ToSet(sync)
    BY <1>1
  <2>2. \A i \in DOMAIN indicated' :
              \/ i \in DOMAIN indicated /\ indicated'[i] = indicated[i]
              \/ \E f \in ToSet(async) \cup ToSet(sync) : indicated'[i] = number[f]
    BY <1>5
  <2> QED
    BY <1>1, <1>3, <2>1, <2>2, FilledKept
<1> QED
  BY <1>5, <1>7, <1>8 DEF OrderInv

\* A return of frames keeps the order of the others.
LEMMA ReturnInOrder ==
    ASSUME FramesInv, OrderInv, NEW s \in Seq(Slots), Len(s) <= Rx_NdisOwnedBDsCount,
           MpReturnNetBufferLists(s), UNCHANGED <<EnetStarted, mac, number, received, indicated>>,
           async' \in {async, <<>>}, sync' \in {sync, <<>>}, Due' \subseteq Due
    PROVE  OrderInv'
<1>1. RingTyped /\ WindowInv /\ CountsInv /\ IndicatedInv /\ DueInv /\ FilledInv
  BY DEF FramesInv, OrderInv
<1>2. ToSet(async') \subseteq ToSet(async) /\ ToSet(sync') \subseteq ToSet(sync)
  BY EmptyList
<1>3. UNCHANGED <<number, received, indicated>>
  OBVIOUS
<1> QED
  BY <1>1, <1>2, <1>3, IndicatedKept, DueKept, ReturnKeepsFilled DEF OrderInv

\* A step of the DPC, the interrupt or a stop that indicates and returns nothing.
LEMMA RestInOrder ==
    ASSUME OrderInv, UNCHANGED <<SwExt, E, Rx_EnetPendingBDIdx, Rx_DmaBDT_DmaOwnedBDsCount,
                                 number, received, indicated, async, sync>>,
           EnetStarted' => EnetStarted /\ mac' = mac, Due' \subseteq Due
    PROVE  OrderInv'
<1>1. IndicatedInv /\ DueInv /\ FilledInv
  BY DEF OrderInv
<1>2. ToSet(async') \subseteq ToSet(async) /\ ToSet(sync') \subseteq ToSet(sync)
  OBVIOUS
<1>3. FilledInv'
  <2>1. \A i \in DOMAIN indicated' :
              \/ i \in DOMAIN indicated /\ indicated'[i] = indicated[i]
              \/ \E f \in ToSet(async) \cup ToSet(sync) : indicated'[i] = number[f]
    OBVIOUS
  <2> QED
    BY <1>1, <1>2, <2>1, FilledKept
<1> QED
  BY <1>1, <1>3, IndicatedKept, DueKept DEF OrderInv

LEMMA OrderInit == Init => OrderInv
<1> SUFFICES ASSUME Init PROVE OrderInv
  OBVIOUS
<1>1. IndicatedInv
  BY DEF Init, IndicatedInv, InOrder
<1>2. DueInv
  BY EmptyList DEF Init, DueInv, Due, Ascending
<1>3. \A i \in Slots : Place(i) \in 0..Ring - 1
  BY FramesInit, SlotMinus DEF Place, FramesInv, RingTyped
<1>4. MacAt(0)
  BY <1>3 DEF Init, MacAt
<1>5. FilledInv
  BY <1>4 DEF Init, FilledInv, Full
<1> QED
  BY <1>1, <1>2, <1>5 DEF OrderInv

LEMMA StartInOrder ==
    ASSUME WaitForNdis, FramesInv, OrderInv, EnetStart
    PROVE  OrderInv'
<1>1. /\ E' = [i \in Slots |-> TRUE] /\ Rx_EnetPendingBDIdx' = 0 /\ mac' = 0
      /\ Rx_DmaBDT_DmaOwnedBDsCount' = Ring
      /\ UNCHANGED <<dpc, async, sync, number, received, indicated>>
  BY DEF EnetStart, MpRxInit, listVars, histVars
<1>2. IndicatedInv' /\ DueInv'
  <2>1. Due' = Due
    BY <1>1 DEF Due
  <2> QED
    BY <1>1, <2>1, IndicatedKept, DueKept DEF OrderInv
<1>3. \A i \in Slots : Place(i)' \in 0..Ring - 1
  <2> TAKE i \in Slots
  <2>1. 0 \in Slots
    BY DEF Slots
  <2>2. (i - 0) % Ring \in 0..Ring - 1
    BY <2>1, SlotMinus
  <2> QED
    BY <1>1, <2>2 DEF Place
<1>4. MacAt(0)'
  BY <1>1, <1>3 DEF MacAt
<1>5. FilledInv'
  BY <1>1, <1>4 DEF FilledInv, Full
<1> QED
  BY <1>2, <1>5 DEF OrderInv

LEMMA OrderPreserved ==
    ASSUME WaitForNdis, FramesInv, OrderInv, [Next]_vars
    PROVE  OrderInv'
<1> DEFINE Rest == /\ UNCHANGED <<SwExt, E, Rx_EnetPendingBDIdx, Rx_DmaBDT_DmaOwnedBDsCount,
                                  number, received, indicated, async, sync>>
                   /\ EnetStarted' => EnetStarted /\ mac' = mac
                   /\ Due' \subseteq Due
<1>0. Rest => OrderInv'
  BY RestInOrder
<1> HIDE DEF Rest
<1>1. CASE MacReceives
  BY <1>1, MacReceivesInOrder
<1>2. CASE NdisReturns
  <2>1. PICK S \in SUBSET held \ {{}} :
          /\ held' = held \ S
          /\ MpReturnNetBufferLists(SetToSeq(S))
          /\ UNCHANGED <<EnetStarted, dpc, listVars, InterruptFlags, mac, rxf, eimr, histVars, stops>>
    BY <1>2 DEF NdisReturns
  <2>2. ListsTyped /\ CountsInv /\ S \subseteq held /\ S \subseteq Slots
    BY <2>1 DEF FramesInv, ListsTyped
  <2>3. SetToSeq(S) \in Seq(Slots) /\ Len(SetToSeq(S)) = Cardinality(S)
    BY <2>2, ReturnedList
  <2>4. Len(SetToSeq(S)) <= Rx_NdisOwnedBDsCount
    <3>1. IsFiniteSet(held) /\ IsFiniteSet(S)
      BY <2>2, HeldFinite, FS_Subset
    <3>2. Cardinality(S) <= Cardinality(held) /\ Cardinality(S) \in Nat
      BY <2>2, <3>1, FS_Subset, FS_CardinalityType
    <3>3. \A h, d, a, b, e \in Nat : d <= h => d <= h + a + b + e
      OBVIOUS
    <3> QED
      BY <2>2, <2>3, <3>2, <3>3, HeldFinite DEF CountsInv
  <2>5. UNCHANGED <<EnetStarted, mac, number, received, indicated, async, sync, dpc>>
    BY <2>1 DEF listVars, histVars
  <2>6. Due' = Due
    BY <2>5 DEF Due
  <2> QED
    BY <2>1, <2>3, <2>4, <2>5, <2>6, ReturnInOrder
<1>3. CASE EnetIsr
  BY <1>0, <1>3 DEF EnetIsr, Rest, Due, ringVars, countVars, listVars, histVars
<1>4. CASE EnetDpcReadEvents
  BY <1>0, <1>4 DEF EnetDpcReadEvents, Rest, Due, ringVars, countVars, histVars
<1>5. CASE MpHandleRecvInterrupt
  BY <1>5, ReceiveInOrder
<1>6. CASE RecvWhenStopped
  BY <1>0, <1>6 DEF RecvWhenStopped, Rest, Due, ringVars, countVars, listVars, histVars
<1>7. CASE DpcReturnsErrors
  <2>1. /\ dpc = "errors" /\ dpc' = "async" /\ MpReturnNetBufferLists(errors)
        /\ UNCHANGED <<EnetStarted, mac, number, received, indicated, async, sync>>
    BY <1>7 DEF DpcReturnsErrors, histVars
  <2>2. errors \in Seq(Slots) /\ CountsInv /\ ListsTyped
    BY DEF FramesInv, ListsTyped
  <2>3. Len(errors) <= Rx_NdisOwnedBDsCount
    <3>1. \A h, a, b, e \in Nat : e <= h + e + a + b
      OBVIOUS
    <3> QED
      BY <2>2, <3>1, HeldFinite DEF CountsInv
  <2>4. Due' = Due
    BY <2>1 DEF Due
  <2> QED
    BY <2>1, <2>2, <2>3, <2>4, ReturnInOrder
<1>8. CASE IndicateAsync
  BY <1>8, IndicateAsyncInOrder
<1>9. CASE IndicateSync
  BY <1>9, IndicateSyncInOrder
<1>10. CASE DpcReturnsSync
  <2>1. /\ dpc = "return" /\ dpc' = "end" /\ MpReturnNetBufferLists(sync) /\ sync' = <<>>
        /\ UNCHANGED <<EnetStarted, mac, number, received, indicated, async>>
    BY <1>10 DEF DpcReturnsSync, histVars
  <2>2. sync \in Seq(Slots) /\ CountsInv /\ ListsTyped
    BY DEF FramesInv, ListsTyped
  <2>3. Len(sync) <= Rx_NdisOwnedBDsCount
    <3>1. \A h, a, b, e \in Nat : b <= h + e + a + b
      OBVIOUS
    <3> QED
      BY <2>2, <3>1, HeldFinite DEF CountsInv
  <2>4. Due' \subseteq Due
    BY <2>1, EmptyList DEF Due
  <2> QED
    BY <2>1, <2>2, <2>3, <2>4, ReturnInOrder
<1>11. CASE EnetDpcEnd
  <2>1. dpc' \in {"queued", "idle"} /\ dpc = "end"
    BY <1>11 DEF EnetDpcEnd
  <2> QED
    BY <1>0, <1>11, <2>1 DEF EnetDpcEnd, Rest, Due, ringVars, countVars, listVars, histVars
<1>12. CASE EnetStop
  BY <1>0, <1>12 DEF EnetStop, Rest, Due, ringVars, countVars, listVars, histVars
<1>13. CASE EnetStart
  BY <1>13, StartInOrder
<1>14. CASE UNCHANGED vars
  BY <1>0, <1>14 DEF vars, Rest, Due, ringVars, countVars, listVars, histVars
<1> QED
  BY <1>1, <1>2, <1>3, <1>4, <1>5, <1>6, <1>7, <1>8, <1>9, <1>10, <1>11, <1>12, <1>13, <1>14
     DEF Next, EnetDpc
-----------------------------------------------------------------------------
(* How many frames NDIS can have. *)

\* A frame is lent only while more than LowWater others are left.
LEMMA ReceiveLeavesEnough ==
    ASSUME FramesInv, NeverStarved, MpHandleRecvInterrupt
    PROVE  NeverStarved'
<1> DEFINE n == Taken
           good == {k \in 0..n - 1 : ~bad[SlotAt(k)]}
           lent == {k \in good : IsAsync(k)}
           c == Rx_DmaBDT_DmaOwnedBDsCount
<1>1. /\ dpc = "receive" /\ EnetStarted /\ async' = FramesTaken(lent) /\ held' = held
      /\ errors = <<>> /\ async = <<>> /\ sync = <<>>
      /\ RingTyped /\ WindowInv /\ ListsTyped /\ CountsInv
  BY DEF FramesInv, ListsInv, MpHandleRecvInterrupt
<1>2. c \in Nat /\ c <= Ring /\ Cardinality(held) \in Nat /\ c + Cardinality(held) = Ring
  <2>1. Cardinality(held) \in Nat /\ Rx_NdisOwnedBDsCount = Cardinality(held)
    <3>1. Len(errors) = 0 /\ Len(async) = 0 /\ Len(sync) = 0
      BY <1>1, EmptyList
    <3>2. Cardinality(held) \in Nat
      BY <1>1, HeldFinite
    <3> QED
      BY <1>1, <3>1, <3>2 DEF CountsInv
  <2> QED
    BY <1>1, <2>1 DEF RingTyped, CountsInv
<1>3. /\ n \in 0..c
      /\ \A k \in 0..n - 1 : At(k) \in Slots \ Out
      /\ \A k, m \in 0..n - 1 : At(k) = At(m) => k = m
  BY <1>1, <1>2, TakenFromWindow
<1>4. lent \subseteq 0..n - 1
  OBVIOUS
<1>5. \A k \in lent : k \in Nat /\ c - (k + 1) > LowWater
  BY DEF IsAsync
<1> HIDE DEF n, lent, good
<1>6. IsFiniteSet(lent) /\ Len(async') = Cardinality(lent) /\ Cardinality(lent) \in Nat
  <2>1. (\A k \in 0..n - 1 : At(k) \in Slots) /\ n \in 0..Ring
    BY <1>2, <1>3
  <2>2. IsFiniteSet(lent) /\ Len(FramesTaken(lent)) = Cardinality(lent)
    BY <1>3, <1>4, <2>1, ListOfTaken
  <2> QED
    BY <1>1, <2>2, FS_CardinalityType
<1>7. CASE lent = {}
  <2>1. Cardinality(lent) = 0 /\ Len(async) = 0
    BY <1>1, <1>7, FS_EmptySet, EmptyList
  <2> QED
    BY <1>1, <1>6, <2>1 DEF NeverStarved
<1>8. CASE lent # {}
  <2>1. c - (LowWater + 1) \in Nat
    <3>1. PICK k \in lent : TRUE
      BY <1>8
    <3>2. k \in Nat /\ c - (k + 1) > LowWater
      BY <1>5, <3>1
    <3> HIDE DEF c
    <3> QED
      BY <1>2, <3>2
  <2>2. PICK e \in Nat : e = c - (LowWater + 1)
    BY <2>1
  <2>3. lent \subseteq 0..e - 1
    <3> SUFFICES ASSUME NEW k \in lent PROVE k \in 0..e - 1
      OBVIOUS
    <3>1. k \in Nat /\ c - (k + 1) > LowWater
      BY <1>5
    <3> HIDE DEF c
    <3> QED
      BY <1>2, <2>2, <3>1
  <2>4. IsFiniteSet(0..e - 1) /\ Cardinality(0..e - 1) = e
    BY FS_Interval
  <2>5. Cardinality(lent) <= e
    BY <2>3, <2>4, FS_Subset
  <2> HIDE DEF c
  <2>6. \A h, l \in Nat : c + h = Ring /\ l <= e => h + l < Ring - LowWater
    BY <1>2, <2>2
  <2> QED
    BY <1>1, <1>2, <1>6, <2>5, <2>6 DEF NeverStarved
<1> QED
  BY <1>7, <1>8

LEMMA StarvePreserved ==
    ASSUME FramesInv, NeverStarved, [Next]_vars
    PROVE  NeverStarved'
<1>1. CASE MpHandleRecvInterrupt
  BY <1>1, ReceiveLeavesEnough
<1>2. CASE NdisReturns
  <2>1. PICK S \in SUBSET held \ {{}} : held' = held \ S /\ async' = async
    BY <1>2 DEF NdisReturns, listVars
  <2>2. ListsTyped /\ held' \subseteq held
    BY <2>1 DEF FramesInv
  <2>3. Cardinality(held') <= Cardinality(held) /\ Cardinality(held') \in Nat
    BY <2>2, HeldFinite, FS_Subset, FS_CardinalityType
  <2>4. Len(async) \in Nat /\ Cardinality(held) \in Nat
    BY <2>2, HeldFinite
  <2>5. \A g, h, a \in Nat : g <= h /\ h + a < Ring - LowWater => g + a < Ring - LowWater
    OBVIOUS
  <2> QED
    BY <2>1, <2>3, <2>4, <2>5 DEF NeverStarved
<1>3. CASE IndicateAsync
  <2>1. held' = held \cup ToSet(async) /\ async' = <<>>
    BY <1>3 DEF IndicateAsync
  <2>2. ListsTyped /\ IsInjective(async) /\ async \in Seq(Slots)
    BY DEF FramesInv, ListsTyped, Apart
  <2>3. IsFiniteSet(ToSet(async)) /\ Cardinality(ToSet(async)) = Len(async) /\ IsFiniteSet(held)
        /\ Cardinality(held) \in Nat /\ Len(async) \in Nat
    BY <2>2, ListSize, HeldFinite
  <2>4. /\ Cardinality(held \cup ToSet(async))
              = Cardinality(held) + Cardinality(ToSet(async)) - Cardinality(held \cap ToSet(async))
        /\ Cardinality(held \cap ToSet(async)) \in Nat
    BY <2>3, FS_Union, FS_Intersection, FS_CardinalityType
  <2>5. Len(async') = 0
    BY <2>1, EmptyList
  <2>6. \A h, a, i \in Nat : h + a < Ring - LowWater => (h + a - i) + 0 < Ring - LowWater
    OBVIOUS
  <2> QED
    BY <2>1, <2>3, <2>4, <2>5, <2>6 DEF NeverStarved
<1>4. CASE ~MpHandleRecvInterrupt /\ ~NdisReturns /\ ~IndicateAsync
  <2>1. UNCHANGED <<held, async>>
    BY <1>4 DEF Next, EnetDpc, vars, MacReceives, EnetIsr, EnetDpcReadEvents, RecvWhenStopped,
                DpcReturnsErrors, IndicateSync, DpcReturnsSync, EnetDpcEnd, EnetStop, EnetStart, listVars
  <2> QED
    BY <2>1 DEF NeverStarved
<1> QED
  BY <1>1, <1>2, <1>3, <1>4

-----------------------------------------------------------------------------
(* The theorems *)

\* The frames in the ring, in the DPC and in NDIS, and the order of the frames.
RxInv == FramesInv /\ OrderInv /\ NeverStarved

LEMMA RxInvAlways == WaitForNdis => (Spec => []RxInv)
<1> SUFFICES ASSUME WaitForNdis PROVE Spec => []RxInv
  OBVIOUS
<1>1. Init => RxInv
  <2> SUFFICES ASSUME Init PROVE NeverStarved
    BY FramesInit, OrderInit DEF RxInv
  <2>1. held = {} /\ Len(async) = 0
    BY EmptyList DEF Init
  <2> QED
    BY <2>1, FS_EmptySet DEF NeverStarved
<1>2. RxInv /\ [Next]_vars => RxInv'
  BY FramesPreserved, OrderPreserved, StarvePreserved DEF RxInv
<1> QED
  BY <1>1, <1>2, PTL DEF Spec

\* Whatever the size of the ring, the low-water mark and the limit of a DPC, the
\* indices and counts of MpHandleRecvInterrupt and MpReturnNetBufferLists agree with
\* the frames in the ring and outside it: their assertions hold, no frame is lost or
\* has two owners, provided that EnetStart waits for the frames NDIS has, as a
\* pause does.
THEOREM FramesAreAccounted == WaitForNdis => (Spec => []RxAccounted)
<1> SUFFICES ASSUME WaitForNdis PROVE Spec => []RxAccounted
  OBVIOUS
<1>1. RxInv => RxAccounted
  <2> SUFFICES ASSUME RxInv PROVE RxAccounted
    OBVIOUS
  <2>1. /\ ControlTyped /\ RingTyped /\ ListsTyped /\ CountsInv /\ WindowInv
        /\ Apart(errors, async, sync, held) /\ IndicatedInv
    BY DEF RxInv, FramesInv, OrderInv
  <2>2. TypeOK
    <3>1. Rx_DmaBDT_DmaOwnedBDsCount \in 0..Ring /\ Rx_NdisOwnedBDsCount \in 0..Ring
      BY <2>1 DEF RingTyped, CountsInv
    <3> QED
      BY <2>1, <3>1 DEF TypeOK, ControlTyped, RingTyped, ListsTyped, IndicatedInv
  <2>3. RingIsWindow
    <3>1. \A i \in Slots : SwExt[i] \in Slots => SwExt[i] # NULL
      BY DEF Slots
    <3> QED
      BY <2>1, <3>1 DEF RingIsWindow, WindowInv, Place
  <2>4. FramesConserved
    <3>1. held \cap InDpc = {}
      BY <2>1 DEF Apart, InDpc
    <3>2. ASSUME EnetStarted
          PROVE  {SwExt[i] : i \in Slots} \ {NULL} = Slots \ (held \cup InDpc)
      <4>1. \A i \in Slots : SwExt[i] # NULL => SwExt[i] \in Slots \ Out
        BY <2>1, <3>2 DEF WindowInv
      <4>2. \A f \in Slots \ Out : f # NULL /\ \E i \in Slots : SwExt[i] = f
        BY <2>1, <3>2 DEF WindowInv, Slots
      <4> QED
        BY <4>1, <4>2 DEF Out
    <3> QED
      BY <2>1, <3>1, <3>2 DEF FramesConserved, CountsInv
  <2> QED
    BY <2>2, <2>3, <2>4 DEF RxAccounted
<1>2. Spec => []RxInv
  BY RxInvAlways
<1> QED
  BY <1>1, <1>2, PTL

\* The synchronous indications below the low-water mark leave the MAC and the DPC
\* more than LowWater frames, however many NDIS keeps.
THEOREM EnoughFramesLeft == WaitForNdis => (Spec => []NeverStarved)
<1> SUFFICES ASSUME WaitForNdis PROVE Spec => []NeverStarved
  OBVIOUS
<1>1. RxInv => NeverStarved
  BY DEF RxInv
<1>2. Spec => []RxInv
  BY RxInvAlways
<1> QED
  BY <1>1, <1>2, PTL

\* NDIS gets the frames in the order in which they arrived, though each DPC sorts
\* them into lists and indicates them in two calls.
THEOREM IndicatedInOrder == WaitForNdis => (Spec => []InOrder)
<1> SUFFICES ASSUME WaitForNdis PROVE Spec => []InOrder
  OBVIOUS
<1>1. RxInv => InOrder
  BY DEF RxInv, OrderInv, IndicatedInv
<1>2. Spec => []RxInv
  BY RxInvAlways
<1> QED
  BY <1>1, <1>2, PTL


=============================================================================
